-------------------------- MODULE LiveStreamProofs --------------------------
(***************************************************************************)
(* What the readers of a live request are shown, for any number of         *)
(* executions, rounds and publications and any bounds of the stores; and   *)
(* that what a redactor has let through is never contradicted, for texts   *)
(* of any length, any margin and any chunks.                               *)
(***************************************************************************)
EXTENDS LiveStream, SequenceTheorems, FiniteSetTheorems, WellFoundedInduction, TLAPS

-----------------------------------------------------------------------------
(***************************************************************************)
(* The order in which a store has its executions.                          *)
(***************************************************************************)
Distinct(order) == \A i, j \in 1..Len(order) : order[i] = order[j] => i = j

\* x was written before y, and neither has been since.
Before(order, x, y) ==
    \E i, j \in 1..Len(order) : i < j /\ order[i] = x /\ order[j] = y

\* Without an execution that it has, an order is shorter and otherwise the same.
LEMMA RemoveFirstIs ==
    ASSUME NEW S, NEW order \in Seq(S), Distinct(order),
           NEW p \in 1..Len(order)
    PROVE  LET rest == RemoveFirst(order, order[p])
           IN  /\ rest \in Seq(S) /\ Len(rest) = Len(order) - 1
               /\ \A i \in 1..Len(rest) : rest[i] = order[IF i < p THEN i ELSE i + 1]
<1> DEFINE Test(v) == v = order[p]
           I == {i \in 1..Len(order) : order[i] = order[p]}
           rest == SubSeq(order, 1, p - 1) \o SubSeq(order, p + 1, Len(order))
<1>1. I = {p}
  BY DEF Distinct
<1>2. Min(I) = p
  BY <1>1 DEF Min
<1>3. SelectInSeq(order, LAMBDA v : v = order[p]) = p
  BY <1>1, <1>2 DEF SelectInSeq
<1>4. RemoveFirst(order, order[p]) = rest
  BY <1>3 DEF RemoveFirst, RemoveAt
<1>5. Len(order) \in Nat /\ p \in Nat
  OBVIOUS
<1> DEFINE a == SubSeq(order, 1, p - 1)
           b == SubSeq(order, p + 1, Len(order))
<1>6. a \in Seq(S) /\ Len(a) = p - 1 /\ \A i \in 1..(p - 1) : a[i] = order[i]
  BY <1>5
<1>7. b \in Seq(S) /\ Len(b) = Len(order) - p /\ \A i \in 1..(Len(order) - p) : b[i] = order[p + i]
  BY <1>5
<1> HIDE DEF a, b
<1>8. /\ a \o b \in Seq(S) /\ Len(a \o b) = Len(order) - 1
      /\ \A i \in 1..(Len(order) - 1) : (a \o b)[i] = order[IF i < p THEN i ELSE i + 1]
  <2>1. /\ a \o b \in Seq(S) /\ Len(a \o b) = Len(a) + Len(b)
        /\ \A i \in 1..(Len(a) + Len(b)) : (a \o b)[i] = IF i <= Len(a) THEN a[i] ELSE b[i - Len(a)]
    BY <1>6, <1>7, ConcatProperties
  <2>2. ASSUME NEW i \in 1..(Len(order) - 1)
        PROVE  (a \o b)[i] = order[IF i < p THEN i ELSE i + 1]
    <3>1. CASE i < p
      <4>1. i \in 1..(p - 1) /\ i \in 1..(Len(a) + Len(b)) /\ i <= Len(a)
        BY <1>5, <1>6, <1>7, <3>1
      <4> QED BY <1>6, <2>1, <3>1, <4>1
    <3>2. CASE ~(i < p)
      <4>1. i - Len(a) \in 1..(Len(order) - p) /\ i \in 1..(Len(a) + Len(b)) /\ ~(i <= Len(a))
            /\ p + (i - Len(a)) = i + 1
        BY <1>5, <1>6, <1>7, <3>2
      <4>2. (a \o b)[i] = b[i - Len(a)]
        BY <2>1, <4>1
      <4>3. b[i - Len(a)] = order[p + (i - Len(a))]
        BY <1>7, <4>1
      <4> QED BY <3>2, <4>1, <4>2, <4>3
    <3> QED BY <3>1, <3>2
  <2> QED BY <1>5, <1>6, <1>7, <2>1, <2>2
<1> QED BY <1>4, <1>8 DEF a, b

\* Once written an execution is the last; the others stay as they were.
LEMMA TouchedIs ==
    ASSUME NEW S, NEW order \in Seq(S), Distinct(order), NEW e \in S
    PROVE  LET next == Touched(order, e)
           IN  /\ next \in Seq(S) /\ next # << >> /\ Distinct(next)
               /\ Len(next) \in {Len(order), Len(order) + 1}
               /\ next[Len(next)] = e
               /\ \A x : Contains(next, x) <=> x = e \/ Contains(order, x)
               /\ \A x, y : Before(next, x, y) => x # e /\ (y = e \/ Before(order, x, y))
<1> DEFINE next == Touched(order, e)
           rest == RemoveFirst(order, e)
\* The positions of the rest in the order.
<1>1. PICK f : /\ rest \in Seq(S) /\ f \in [1..Len(rest) -> 1..Len(order)]
               /\ Len(rest) \in {Len(order) - 1, Len(order)}
               /\ \A i \in 1..Len(rest) : rest[i] = order[f[i]] /\ rest[i] # e
               /\ \A i, j \in 1..Len(rest) : i < j => f[i] < f[j]
               /\ \A j \in 1..Len(order) : order[j] # e => \E i \in 1..Len(rest) : f[i] = j
  <2>1. CASE \E p \in 1..Len(order) : order[p] = e
    <3>1. PICK p \in 1..Len(order) : order[p] = e
      BY <2>1
    <3> DEFINE g == [i \in 1..Len(rest) |-> IF i < p THEN i ELSE i + 1]
    <3>2. /\ rest \in Seq(S) /\ Len(rest) = Len(order) - 1
          /\ \A i \in 1..Len(rest) : rest[i] = order[IF i < p THEN i ELSE i + 1]
      BY <3>1, RemoveFirstIs
    <3> HIDE DEF rest
    <3>3. Len(order) \in Nat /\ p \in Nat
      OBVIOUS
    <3>4. g \in [1..Len(rest) -> 1..Len(order)]
      BY <3>2, <3>3
    <3>5. \A i \in 1..Len(rest) : rest[i] = order[g[i]] /\ g[i] # p
      BY <3>2, <3>3
    <3>6. \A i \in 1..Len(rest) : rest[i] # e
      BY <3>1, <3>4, <3>5 DEF Distinct
    <3>7. \A i, j \in 1..Len(rest) : i < j => g[i] < g[j]
      BY <3>2, <3>3
    <3>8. ASSUME NEW j \in 1..Len(order), order[j] # e PROVE \E i \in 1..Len(rest) : g[i] = j
      <4>1. j # p
        BY <3>1, <3>8
      <4>2. CASE j < p
        <5>1. j \in 1..Len(rest) /\ g[j] = j
          BY <3>2, <3>3, <4>2
        <5> QED BY <5>1
      <4>3. CASE j > p
        <5>1. j - 1 \in 1..Len(rest) /\ g[j - 1] = j
          BY <3>2, <3>3, <4>3
        <5> QED BY <5>1
      <4> QED BY <3>3, <4>1, <4>2, <4>3
    <3> HIDE DEF g
    <3> QED BY <3>2, <3>4, <3>5, <3>6, <3>7, <3>8
  <2>2. CASE ~\E p \in 1..Len(order) : order[p] = e
    <3> DEFINE g == [i \in 1..Len(order) |-> i]
    <3>1. rest = order
      BY <2>2 DEF RemoveFirst
    <3> HIDE DEF rest
    <3>2. /\ g \in [1..Len(rest) -> 1..Len(order)]
          /\ \A i \in 1..Len(rest) : rest[i] = order[g[i]] /\ rest[i] # e
          /\ \A i, j \in 1..Len(rest) : i < j => g[i] < g[j]
          /\ \A j \in 1..Len(order) : \E i \in 1..Len(rest) : g[i] = j
      BY <2>2, <3>1
    <3>3. rest \in Seq(S) /\ Len(rest) \in {Len(order) - 1, Len(order)}
      BY <3>1
    <3> HIDE DEF g
    <3> QED BY <3>2, <3>3
  <2> QED BY <2>1, <2>2
<1>2. next = Append(rest, e)
  BY DEF Touched
<1> HIDE DEF rest, next
<1>3. /\ next \in Seq(S) /\ Len(next) = Len(rest) + 1 /\ next[Len(next)] = e
      /\ \A i \in 1..Len(rest) : next[i] = rest[i]
      /\ Len(rest) \in Nat /\ Len(order) \in Nat
  BY <1>1, <1>2
<1>4. next # << >> /\ Len(next) \in {Len(order), Len(order) + 1}
  BY <1>1, <1>3
<1>5. \A i \in 1..Len(next) : i = Len(next) \/ i \in 1..Len(rest)
  BY <1>3
<1>6. ASSUME NEW i \in 1..Len(rest), NEW j \in 1..Len(rest), rest[i] = rest[j] PROVE i = j
  <2>1. f[i] \in 1..Len(order) /\ f[j] \in 1..Len(order)
    BY <1>1
  <2>2. order[f[i]] = order[f[j]]
    BY <1>1, <1>6
  <2>3. f[i] = f[j]
    BY <2>1, <2>2 DEF Distinct
  <2>4. f[i] \in Int /\ i \in Int /\ j \in Int
    BY <2>1
  <2>5. ~(i < j) /\ ~(j < i)
    BY <1>1, <2>3, <2>4
  <2> QED BY <2>4, <2>5
<1>7. Distinct(next)
  <2> SUFFICES ASSUME NEW i \in 1..Len(next), NEW j \in 1..Len(next), next[i] = next[j] PROVE i = j
    BY DEF Distinct
  <2>1. i \in 1..Len(rest) => next[i] # e
    BY <1>1, <1>3
  <2>2. j \in 1..Len(rest) => next[j] # e
    BY <1>1, <1>3
  <2>3. i \in 1..Len(rest) /\ j \in 1..Len(rest) => rest[i] = rest[j]
    BY <1>3
  <2> QED BY <1>3, <1>5, <1>6, <2>1, <2>2, <2>3
<1>8. \A x : Contains(next, x) <=> x = e \/ Contains(order, x)
  <2> SUFFICES ASSUME NEW x PROVE Contains(next, x) <=> x = e \/ Contains(order, x)
    OBVIOUS
  <2>1. ASSUME Contains(next, x), x # e PROVE Contains(order, x)
    <3>1. PICK i \in 1..Len(next) : next[i] = x
      BY <2>1 DEF Contains
    <3>2. i \in 1..Len(rest) /\ f[i] \in 1..Len(order) /\ order[f[i]] = x
      BY <1>1, <1>3, <1>5, <2>1, <3>1
    <3> QED BY <3>2 DEF Contains
  <2>2. x = e => Contains(next, x)
    BY <1>3 DEF Contains
  <2>3. ASSUME Contains(order, x), x # e PROVE Contains(next, x)
    <3>1. PICK j \in 1..Len(order) : order[j] = x
      BY <2>3 DEF Contains
    <3>2. PICK i \in 1..Len(rest) : f[i] = j
      BY <1>1, <2>3, <3>1
    <3>3. next[i] = x /\ i \in 1..Len(next)
      BY <1>1, <1>3, <3>1, <3>2
    <3> QED BY <3>3 DEF Contains
  <2> QED BY <2>1, <2>2, <2>3
<1>9. ASSUME NEW x, NEW y, Before(next, x, y) PROVE x # e /\ (y = e \/ Before(order, x, y))
  <2>1. PICK i, j \in 1..Len(next) : i < j /\ next[i] = x /\ next[j] = y
    BY <1>9 DEF Before
  <2>2. i \in 1..Len(rest) /\ x = rest[i] /\ x # e
    BY <1>1, <1>3, <2>1
  <2>3. CASE j = Len(next)
    BY <1>3, <2>1, <2>2, <2>3
  <2>4. CASE j \in 1..Len(rest)
    <3>1. f[i] < f[j] /\ order[f[i]] = x /\ order[f[j]] = y /\ f[i] \in 1..Len(order) /\ f[j] \in 1..Len(order)
      BY <1>1, <1>3, <2>1, <2>2, <2>4
    <3> QED BY <2>2, <3>1 DEF Before
  <2> QED BY <1>5, <2>3, <2>4
<1> QED BY <1>3, <1>4, <1>7, <1>8, <1>9 DEF next

\* Its length, and which executions it has.
LEMMA TouchedLen ==
    ASSUME NEW S, NEW order \in Seq(S), Distinct(order), NEW e \in S
    PROVE  /\ Len(Touched(order, e)) = Len(order) \/ Len(Touched(order, e)) = Len(order) + 1
           /\ Touched(order, e)[Len(Touched(order, e))] = e
BY TouchedIs, Zenon

LEMMA TouchedHas ==
    ASSUME NEW S, NEW order \in Seq(S), Distinct(order), NEW e \in S, NEW x
    PROVE  Contains(Touched(order, e), x) <=> x = e \/ Contains(order, x)
BY TouchedIs, Zenon

-----------------------------------------------------------------------------
(***************************************************************************)
(* A store.                                                                *)
(***************************************************************************)
\* What a store is at every moment: no execution is in it twice, and it has at
\* most MaxExecutions lists of at most MaxItems publications.
Bounded(store) ==
    /\ store \in Stores /\ Distinct(store.order)
    /\ Len(store.order) <= MaxExecutions
    /\ \A x \in All : Len(store.items[x]) <= MaxItems

LEMMA KeptIs ==
    ASSUME NEW items \in Seq(Nat \ {0}), Len(items) <= MaxItems, NEW n \in Nat \ {0}
    PROVE  /\ Kept(items, n) \in Seq(Nat \ {0}) /\ Len(Kept(items, n)) <= MaxItems
           /\ Len(items) <= Len(Kept(items, n))
           /\ \A i \in 1..Len(items) : Kept(items, n)[i] = items[i]
BY StreamAssumption DEF Kept

LEMMA TailIs ==
    ASSUME NEW S, NEW s \in Seq(S), s # << >>, Distinct(s)
    PROVE  /\ Tail(s) \in Seq(S) /\ Len(Tail(s)) = Len(s) - 1 /\ Distinct(Tail(s))
           /\ Head(s) = s[1] /\ s[1] \in S
           /\ ~Contains(Tail(s), s[1])
           /\ \A x : Contains(s, x) <=> x = s[1] \/ Contains(Tail(s), x)
           /\ \A x, y : Before(Tail(s), x, y) => Before(s, x, y)
<1> DEFINE t == Tail(s)
<1>1. /\ t \in Seq(S) /\ Len(t) = Len(s) - 1 /\ \A i \in 1..Len(t) : t[i] = s[i + 1]
      /\ Len(s) \in Nat /\ Len(s) > 0 /\ Head(s) = s[1] /\ s[1] \in S
  OBVIOUS
<1> HIDE DEF t
<1>2. \A i \in 1..Len(t) : i + 1 \in 1..Len(s) /\ i + 1 # 1
  BY <1>1
<1>3. \A j \in 1..Len(s) : j = 1 \/ (j - 1 \in 1..Len(t) /\ t[j - 1] = s[j])
  BY <1>1
<1>4. 1 \in 1..Len(s)
  BY <1>1
<1>5. Distinct(t)
  <2> SUFFICES ASSUME NEW i \in 1..Len(t), NEW j \in 1..Len(t), t[i] = t[j] PROVE i = j
    BY DEF Distinct
  <2>1. i + 1 = j + 1
    BY <1>1, <1>2 DEF Distinct
  <2> QED BY <1>1, <2>1
<1>6. ~Contains(t, s[1])
  BY <1>1, <1>2, <1>4 DEF Contains, Distinct
<1>7. \A x : Contains(s, x) <=> x = s[1] \/ Contains(t, x)
  BY <1>1, <1>2, <1>3, <1>4 DEF Contains
<1>8. ASSUME NEW x, NEW y, Before(t, x, y) PROVE Before(s, x, y)
  <2>1. PICK i, j \in 1..Len(t) : i < j /\ t[i] = x /\ t[j] = y
    BY <1>8 DEF Before
  <2>2. i + 1 < j + 1 /\ s[i + 1] = x /\ s[j + 1] = y
    BY <1>1, <2>1
  <2> QED BY <1>2, <2>2 DEF Before
<1> QED BY <1>1, <1>5, <1>6, <1>7, <1>8 DEF t

\* Publishing keeps a store bounded, appends to one list, loses only the list
\* of the execution that was written longest ago, and that only when there is
\* one too many.
LEMMA PublishIs ==
    ASSUME NEW store, Bounded(store), NEW e \in All, NEW n \in Nat \ {0}
    PROVE  LET next == Publish(store, e, n)
               order == Touched(store.order, e)
           IN  /\ Bounded(next)
               /\ e \notin Dropped(store, next)
               /\ \A x \in All \ Dropped(store, next) :
                    next.items[x] = IF x = e THEN Kept(store.items[x], n) ELSE store.items[x]
               /\ \A x \in Dropped(store, next) : x = order[1] /\ Len(order) = MaxExecutions + 1
               /\ \A x, y : Before(next.order, x, y) => x # e /\ (y = e \/ Before(store.order, x, y))
<1> DEFINE next == Publish(store, e, n)
           order == Touched(store.order, e)
           items == [store.items EXCEPT ![e] = Kept(@, n)]
           gone == Dropped(store, next)
<1>1. /\ store.order \in Seq(All) /\ Distinct(store.order) /\ Len(store.order) <= MaxExecutions
      /\ store.items \in [All -> Seq(Nat \ {0})] /\ \A x \in All : Len(store.items[x]) <= MaxItems
      /\ MaxExecutions \in Nat \ {0} /\ MaxItems \in Nat \ {0} /\ Len(store.order) \in Nat
  BY StreamAssumption DEF Bounded, Stores
<1>2. /\ order \in Seq(All) /\ order # << >> /\ Distinct(order)
      /\ Len(order) \in {Len(store.order), Len(store.order) + 1}
      /\ order[Len(order)] = e
      /\ \A x : Contains(order, x) <=> x = e \/ Contains(store.order, x)
      /\ \A x, y : Before(order, x, y) => x # e /\ (y = e \/ Before(store.order, x, y))
  <2>1. PICK old \in Seq(All) : old = store.order /\ Distinct(old)
    BY <1>1
  <2>2. PICK o : o = Touched(old, e)
    OBVIOUS
  <2>3. o \in Seq(All) /\ o # << >> /\ Distinct(o)
    BY <2>1, <2>2, TouchedIs
  <2>4. Len(o) \in {Len(old), Len(old) + 1} /\ o[Len(o)] = e
    BY <2>1, <2>2, TouchedLen
  <2>5. ASSUME NEW x PROVE Contains(o, x) <=> x = e \/ Contains(old, x)
    BY <2>1, <2>2, TouchedHas
  <2>6. ASSUME NEW x, NEW y, Before(o, x, y) PROVE x # e /\ (y = e \/ Before(old, x, y))
    BY <2>1, <2>2, <2>6, TouchedIs
  <2> QED BY <2>1, <2>2, <2>3, <2>4, <2>5, <2>6
<1>3. Kept(store.items[e], n) \in Seq(Nat \ {0}) /\ Len(Kept(store.items[e], n)) <= MaxItems
  BY <1>1, KeptIs
<1>4. /\ items \in [All -> Seq(Nat \ {0})] /\ \A x \in All : Len(items[x]) <= MaxItems
      /\ \A x \in All : items[x] = IF x = e THEN Kept(store.items[x], n) ELSE store.items[x]
  BY <1>1, <1>3
<1>5. next = IF Overfull(order)
             THEN [order |-> Tail(order), items |-> [items EXCEPT ![Head(order)] = << >>]]
             ELSE [order |-> order, items |-> items]
  BY DEF Publish
<1> HIDE DEF order, items, next
<1>6. CASE ~Overfull(order)
  <2>1. next.order = order /\ next.items = items /\ next = [order |-> order, items |-> items]
    BY <1>5, <1>6
  <2>2. gone = {}
    BY <1>2, <2>1 DEF Dropped
  <2>3. Bounded(next)
    BY <1>1, <1>2, <1>4, <1>6, <2>1 DEF Bounded, Stores, Overfull
  <2> QED BY <1>2, <1>4, <2>1, <2>2, <2>3 DEF next, order
<1>7. CASE Overfull(order)
  <2> DEFINE left == [items EXCEPT ![Head(order)] = << >>]
             first == order[1]
  <2>1. Len(order) = MaxExecutions + 1 /\ Len(order) >= 2
    BY <1>1, <1>2, <1>7 DEF Overfull
  <2>2. /\ Tail(order) \in Seq(All) /\ Len(Tail(order)) = Len(order) - 1 /\ Distinct(Tail(order))
        /\ Head(order) = first /\ first \in All
        /\ ~Contains(Tail(order), first)
        /\ \A x : Contains(order, x) <=> x = first \/ Contains(Tail(order), x)
        /\ \A x, y : Before(Tail(order), x, y) => Before(order, x, y)
    BY <1>2, TailIs
  <2>3. first # e
    <3>1. 1 \in 1..Len(order) /\ Len(order) \in 1..Len(order) /\ Len(order) # 1
      BY <2>1, <1>1
    <3> QED BY <1>2, <3>1 DEF Distinct
  <2> HIDE DEF first
  <2>4. /\ left \in [All -> Seq(Nat \ {0})] /\ left[first] = << >>
        /\ \A x \in All : x # first => left[x] = items[x]
    BY <1>4, <2>2
  <2>5. \A x \in All : Len(left[x]) <= MaxItems
    BY <1>1, <1>4, <2>4
  <2> HIDE DEF left
  <2>6. next = [order |-> Tail(order), items |-> left]
    BY <1>5, <1>7 DEF left
  <2>7. next.order = Tail(order) /\ next.items = left
    BY <2>6
  <2>8. Bounded(next)
    BY <1>1, <2>1, <2>2, <2>4, <2>5, <2>6, <2>7 DEF Bounded, Stores
  <2>9. gone = {first}
    BY <1>2, <2>2, <2>3, <2>7 DEF Dropped
  <2>10. \A x \in All \ gone : next.items[x] = IF x = e THEN Kept(store.items[x], n) ELSE store.items[x]
    BY <1>4, <2>4, <2>7, <2>9
  <2>11. \A x, y : Before(next.order, x, y) => x # e /\ (y = e \/ Before(store.order, x, y))
    BY <1>2, <2>2, <2>7
  <2> QED BY <2>1, <2>3, <2>8, <2>9, <2>10, <2>11 DEF first, next, order
<1> QED BY <1>6, <1>7

LEMMA PublishOrder ==
    ASSUME NEW store, Bounded(store), NEW e \in All, NEW n \in Nat \ {0},
           NEW next, next = Publish(store, e, n),
           NEW x, NEW y, Before(next.order, x, y)
    PROVE  x # e /\ (y = e \/ Before(store.order, x, y))
BY PublishIs

-----------------------------------------------------------------------------
(***************************************************************************)
(* What is in a store, and what a reader has of it.                        *)
(***************************************************************************)
\* The list of an execution that has published n times.
Numbered(items, n) ==
    Consecutive(items) /\ Len(items) = IF n <= MaxItems THEN n ELSE MaxItems

LEMMA KeptNumbered ==
    ASSUME NEW items \in Seq(Nat \ {0}), NEW n \in Nat, Numbered(items, n)
    PROVE  Numbered(Kept(items, n + 1), n + 1)
<1>1. MaxItems \in Nat \ {0} /\ Len(items) \in Nat /\ n + 1 \in Nat \ {0}
  BY StreamAssumption
<1>2. CASE Len(items) < MaxItems
  <2>1. Kept(items, n + 1) = Append(items, n + 1) /\ Len(items) = n
    BY <1>1, <1>2 DEF Kept, Numbered
  <2> QED BY <1>1, <1>2, <2>1 DEF Numbered, Consecutive
<1>3. CASE ~(Len(items) < MaxItems)
  BY <1>1, <1>3 DEF Kept, Numbered
<1> QED BY <1>2, <1>3

\* A publication keeps every list that stays numbered, and shortens none.
LEMMA PublishNumbered ==
    ASSUME NEW store, Bounded(store), NEW e \in All, NEW n \in Nat,
           NEW next, next = Publish(store, e, n + 1),
           NEW x \in All, x \notin Dropped(store, next),
           NEW m \in Nat, Numbered(store.items[x], m), x = e => m = n
    PROVE  /\ Numbered(next.items[x], IF x = e THEN m + 1 ELSE m)
           /\ Len(store.items[x]) <= Len(next.items[x])
<1>1. n + 1 \in Nat \ {0} /\ store.items[x] \in Seq(Nat \ {0}) /\ Len(store.items[x]) <= MaxItems
  BY DEF Bounded, Stores
<1>2. next.items[x] = IF x = e THEN Kept(store.items[x], n + 1) ELSE store.items[x]
  BY <1>1, PublishIs
<1>3. CASE x = e
  BY <1>1, <1>2, <1>3, KeptNumbered, KeptIs
<1>4. CASE x # e
  BY <1>1, <1>2, <1>4
<1> QED BY <1>3, <1>4

\* What a reader has so far, and the rest that the list has for it.
LEMMA SinceIs ==
    ASSUME NEW items \in Seq(Nat \ {0}), NEW seen \in Seq(Nat \ {0})
    PROVE  LET more == seen \o SubSeq(items, Len(seen) + 1, Len(items))
           IN  /\ more \in Seq(Nat \ {0})
               /\ Consecutive(items) /\ Consecutive(seen) /\ Len(seen) <= Len(items)
                    => Consecutive(more) /\ Len(more) = Len(items)
<1> DEFINE tail == SubSeq(items, Len(seen) + 1, Len(items))
<1>1. Len(seen) \in Nat /\ Len(items) \in Nat
  OBVIOUS
<1>2. tail \in Seq(Nat \ {0})
  <2>1. CASE Len(seen) < Len(items)
    BY <1>1, <2>1, SubSeqProperties
  <2>2. CASE ~(Len(seen) < Len(items))
    BY <1>1, <2>2, SubSeqProperties
  <2> QED BY <2>1, <2>2
<1>3. ASSUME Consecutive(items), Consecutive(seen), Len(seen) <= Len(items)
      PROVE  Consecutive(seen \o tail) /\ Len(seen \o tail) = Len(items)
  <2>1. /\ Len(tail) = Len(items) - Len(seen)
        /\ \A i \in 1..(Len(items) - Len(seen)) : tail[i] = items[Len(seen) + i]
    BY <1>1, <1>3
  <2> HIDE DEF tail
  <2>2. /\ Len(seen \o tail) = Len(seen) + Len(tail)
        /\ \A i \in 1..(Len(seen) + Len(tail)) :
             (seen \o tail)[i] = IF i <= Len(seen) THEN seen[i] ELSE tail[i - Len(seen)]
        /\ DOMAIN (seen \o tail) = 1..Len(seen \o tail)
    BY <1>2, ConcatProperties
  <2>3. ASSUME NEW i \in 1..Len(items) PROVE (seen \o tail)[i] = i
    <3>1. CASE i <= Len(seen)
      <4>1. i \in 1..Len(seen) /\ i \in 1..(Len(seen) + Len(tail)) /\ i \in DOMAIN seen
        BY <1>1, <2>1, <3>1
      <4> QED BY <1>3, <2>2, <3>1, <4>1 DEF Consecutive
    <3>2. CASE ~(i <= Len(seen))
      <4>1. /\ i \in 1..(Len(seen) + Len(tail)) /\ i - Len(seen) \in 1..(Len(items) - Len(seen))
            /\ Len(seen) + (i - Len(seen)) = i /\ i \in DOMAIN items
        BY <1>1, <2>1, <3>2
      <4> QED BY <1>3, <2>1, <2>2, <3>2, <4>1 DEF Consecutive
    <3> QED BY <3>1, <3>2
  <2> QED BY <1>1, <2>1, <2>2, <2>3 DEF Consecutive
<1>4. seen \o tail \in Seq(Nat \ {0})
  BY <1>2, ConcatProperties
<1> QED BY <1>3, <1>4

-----------------------------------------------------------------------------
(***************************************************************************)
(* The inductive invariant.                                                *)
(***************************************************************************)
Readers == [at : {"off", "events", "fragments", "status", "told", "closed"},
            events : Seq(Nat \ {0}), fragments : Seq(Nat \ {0}), known : Nat]
Counts == [All -> [events : Nat, fragments : Nat]]

StoresBounded == Bounded(events) /\ Bounded(answers)

TypesOfHistory ==
    /\ readers \in [Executions -> Readers] /\ written \in Counts
    /\ idle \in [All -> SUBSET All] /\ evicted \subseteq All

\* The lists of what was never evicted are the first publications, in order.
ListsNumbered ==
    \A x \in All \ evicted :
        /\ Numbered(events.items[x], written[x].events)
        /\ Numbered(answers.items[x], written[x].fragments)

\* What a reader has is a beginning of the lists; past the fragments it has
\* what the store had when the pass began.
Follows(reader, shown, drafted, fragments) ==
    /\ Consecutive(reader.events) /\ Len(reader.events) <= Len(shown)
    /\ Consecutive(reader.fragments) /\ Len(reader.fragments) <= Len(drafted)
    /\ reader.known <= fragments
    /\ reader.at \in {"status", "told"} =>
          reader.known <= Len(reader.fragments) \/ MaxItems <= Len(reader.fragments)

ReadersFollow ==
    \A x \in Executions \ evicted :
        Follows(readers[x], events.items[x], answers.items[x], written[x].fragments)

\* Those behind an execution have written since it did.
Silence ==
    \A x \in All :
        /\ IsFiniteSet(idle[x])
        /\ \A y \in All : Before(answers.order, x, y) => y \in idle[x]

IInv == StoresBounded /\ TypesOfHistory /\ ListsNumbered /\ ReadersFollow /\ Silence

LEMMA InitIInv == Init => IInv
<1> SUFFICES ASSUME Init PROVE IInv
  OBVIOUS
<1>1. MaxExecutions \in Nat \ {0} /\ MaxItems \in Nat \ {0}
  BY StreamAssumption
<1> DEFINE empty == [order |-> << >>, items |-> [e \in All |-> << >>]]
<1>2. Bounded(empty)
  BY <1>1 DEF Bounded, Stores, Distinct
<1>3. events = empty /\ answers = empty
  BY DEF Init
<1>4. \A x \in All : empty.items[x] = << >> /\ Numbered(empty.items[x], 0) /\ ~\E y : Before(empty.order, x, y)
  BY <1>1 DEF Numbered, Consecutive, Before
<1> HIDE DEF empty
<1>5. StoresBounded
  BY <1>2, <1>3 DEF StoresBounded
<1>6. TypesOfHistory
  BY DEF Init, TypesOfHistory, Counts, Readers
<1>7. ListsNumbered
  BY <1>3, <1>4 DEF Init, ListsNumbered
<1>8. ReadersFollow
  <2> SUFFICES ASSUME NEW x \in Executions \ evicted
               PROVE  Follows(readers[x], events.items[x], answers.items[x], written[x].fragments)
    BY DEF ReadersFollow
  <2>1. x \in All /\ readers[x] = [at |-> "off", events |-> << >>, fragments |-> << >>, known |-> 0]
        /\ written[x].fragments = 0
    BY DEF Init, All
  <2> QED BY <1>3, <1>4, <2>1 DEF Follows, Consecutive
<1>9. Silence
  BY <1>3, <1>4, FS_EmptySet DEF Init, Silence
<1> QED BY <1>5, <1>6, <1>7, <1>8, <1>9 DEF IInv

-----------------------------------------------------------------------------
(***************************************************************************)
(* A step of the system, as the stores and the readers see it.             *)
(***************************************************************************)
Quiet == UNCHANGED <<events, answers, written, idle, evicted, readers>>

EventStep(e) == PublishEvent(e) /\ UNCHANGED <<answers, idle, readers>>

FragmentStep(e) == PublishFragment(e) /\ UNCHANGED <<events, readers>>

ReaderMoves(e) ==
    /\ UNCHANGED <<events, answers, written, idle, evicted>>
    /\ \/ \E next \in {"events", "closed"} : readers' = [readers EXCEPT ![e].at = next]
       \/ ReadEvents(e) \/ ReadFragments(e) \/ ReadStatus(e)

LEMMA StepIs ==
    ASSUME [Next]_vars
    PROVE  \/ Quiet
           \/ \E e \in All : EventStep(e) \/ FragmentStep(e)
           \/ \E e \in Executions : ReaderMoves(e)
<1> DEFINE Goal == \/ Quiet
                   \/ \E e \in All : EventStep(e) \/ FragmentStep(e)
                   \/ \E e \in Executions : ReaderMoves(e)
<1>1. ASSUME UNCHANGED vars PROVE Quiet
  BY <1>1 DEF vars, stores, Quiet
<1>2. ASSUME NEW e \in Executions, Start(e) \/ StartRound(e) \/ EndRound(e) \/ Answer(e) \/ Cleanup(e)
      PROVE  Quiet
  BY <1>2 DEF Start, StartRound, EndRound, Answer, Cleanup, stores, Quiet
<1>3. ASSUME NEW e \in Executions, Fail(e) \/ Cancel(e) PROVE Quiet
  BY <1>3 DEF Fail, Cancel, Quiet
<1>4. ASSUME NEW e \in Executions, ReportStage(e) \/ EndWorkflow(e) PROVE EventStep(e)
  BY <1>4 DEF ReportStage, EndWorkflow, EventStep
<1>5. ASSUME NEW e, NEW r, Push(e, r) \/ Finish(e, r) PROVE Quiet \/ FragmentStep(e)
  <2>1. CASE Push(e, r)
    <3>1. PICK before, after : PublishDelta(e, before, after) /\ UNCHANGED <<request, events, readers>>
      BY <2>1 DEF Push
    <3> QED BY <3>1 DEF PublishDelta, FragmentStep, Quiet
  <2>2. CASE Finish(e, r)
    <3>1. PICK before, after : PublishDelta(e, before, after) /\ UNCHANGED <<request, events, readers>>
      BY <2>2 DEF Finish
    <3> QED BY <3>1 DEF PublishDelta, FragmentStep, Quiet
  <2> QED BY <1>5, <2>1, <2>2
<1>6. ASSUME NEW o, OtherEvent(o) PROVE EventStep(o)
  BY <1>6 DEF OtherEvent, EventStep
<1>7. ASSUME NEW o, OtherFragment(o) PROVE FragmentStep(o)
  BY <1>7 DEF OtherFragment, FragmentStep
<1>8. ASSUME NEW e \in Executions, Connect(e) \/ LoseTrace(e) \/ Disconnect(e) PROVE ReaderMoves(e)
  BY <1>8 DEF Connect, LoseTrace, Disconnect, stores, ReaderMoves
<1>9. ASSUME NEW e \in Executions, ReadEvents(e) \/ ReadFragments(e) \/ ReadStatus(e) PROVE ReaderMoves(e)
  <2>1. UNCHANGED stores
    BY <1>9 DEF ReadEvents, ReadFragments, ReadStatus
  <2> QED BY <1>9, <2>1 DEF stores, ReaderMoves
<1>10. Executions \subseteq All /\ Others \subseteq All
  BY DEF All
<1>11. ASSUME NEW e \in Executions,
              \/ Start(e) \/ ReportStage(e) \/ StartRound(e) \/ EndRound(e)
              \/ EndWorkflow(e) \/ Answer(e) \/ Fail(e) \/ Cancel(e) \/ Cleanup(e)
              \/ \E r \in Rounds : Push(e, r) \/ Finish(e, r)
              \/ Connect(e) \/ ReaderStep(e) \/ Disconnect(e)
       PROVE  Goal
  BY <1>2, <1>3, <1>4, <1>5, <1>8, <1>9, <1>10, <1>11 DEF ReaderStep
<1>12. ASSUME NEW o \in Others, OtherEvent(o) \/ OtherFragment(o) PROVE Goal
  BY <1>6, <1>7, <1>10, <1>12
<1>13. ASSUME Ended PROVE Goal
  BY <1>1, <1>13 DEF Ended
<1> QED BY <1>1, <1>11, <1>12, <1>13 DEF Next

-----------------------------------------------------------------------------
\* A reader that follows lists goes on to follow them when they grow.
LEMMA FollowsOn ==
    ASSUME NEW reader \in Readers,
           NEW shown \in Seq(Nat \ {0}), NEW drafted \in Seq(Nat \ {0}), NEW n \in Nat,
           NEW shown2 \in Seq(Nat \ {0}), NEW drafted2 \in Seq(Nat \ {0}), NEW n2 \in Nat,
           Len(shown) <= Len(shown2), Len(drafted) <= Len(drafted2), n <= n2,
           Follows(reader, shown, drafted, n)
    PROVE  Follows(reader, shown2, drafted2, n2)
<1>1. /\ Len(shown) \in Nat /\ Len(shown2) \in Nat /\ Len(drafted) \in Nat /\ Len(drafted2) \in Nat
      /\ Len(reader.events) \in Nat /\ Len(reader.fragments) \in Nat /\ reader.known \in Nat
  BY DEF Readers
<1> QED BY <1>1 DEF Follows

\* A stage event.
LEMMA EventStepIs ==
    ASSUME IInv, NEW e \in All, EventStep(e)
    PROVE  IInv'
<1>1. PICK s, t, c : s = events /\ t = events' /\ c = written
  OBVIOUS
<1> DEFINE n == c[e].events
<1>2. /\ t = Publish(s, e, n + 1)
      /\ written' = [c EXCEPT ![e].events = n + 1]
      /\ evicted' = evicted \cup Dropped(s, t)
      /\ answers' = answers /\ idle' = idle /\ readers' = readers
  BY <1>1 DEF EventStep, PublishEvent
<1>3. /\ Bounded(s) /\ Bounded(answers) /\ c \in Counts /\ n \in Nat /\ n + 1 \in Nat \ {0}
      /\ readers \in [Executions -> Readers] /\ idle \in [All -> SUBSET All] /\ evicted \subseteq All
  BY <1>1 DEF IInv, StoresBounded, TypesOfHistory, Counts
<1>4. Bounded(t)
  BY <1>2, <1>3, PublishIs
<1>5. StoresBounded'
  BY <1>1, <1>2, <1>3, <1>4 DEF StoresBounded
<1>6. written' = [x \in All |-> [events |-> IF x = e THEN n + 1 ELSE c[x].events,
                                 fragments |-> c[x].fragments]]
  <2>1. \A x \in All : c[x] = [events |-> c[x].events, fragments |-> c[x].fragments]
    BY <1>3 DEF Counts
  <2>2. c = [x \in All |-> c[x]]
    BY <1>3 DEF Counts
  <2> QED BY <1>2, <2>1, <2>2
<1>7. TypesOfHistory'
  BY <1>2, <1>3, <1>6 DEF TypesOfHistory, Counts, Dropped
<1>8. ASSUME NEW x \in All, x \notin evicted'
      PROVE  /\ x \notin evicted /\ Numbered(t.items[x], written'[x].events)
             /\ Numbered(answers.items[x], written'[x].fragments)
             /\ Len(s.items[x]) <= Len(t.items[x])
  <2>1. x \notin evicted /\ x \notin Dropped(s, t)
    BY <1>2, <1>8
  <2>2. PICK m \in Nat : m = c[x].events
    BY <1>3 DEF Counts
  <2>3. Numbered(s.items[x], m) /\ Numbered(answers.items[x], c[x].fragments)
    BY <1>1, <2>1, <2>2 DEF IInv, ListsNumbered
  <2>4. Numbered(t.items[x], IF x = e THEN m + 1 ELSE m) /\ Len(s.items[x]) <= Len(t.items[x])
    BY <1>2, <1>3, <2>1, <2>2, <2>3, PublishNumbered
  <2>5. written'[x].events = (IF x = e THEN m + 1 ELSE m) /\ written'[x].fragments = c[x].fragments
    BY <1>6, <2>2
  <2> QED BY <2>1, <2>3, <2>4, <2>5
<1>9. ListsNumbered'
  BY <1>1, <1>2, <1>8 DEF ListsNumbered
<1>10. ReadersFollow'
  <2> SUFFICES ASSUME NEW x \in Executions, x \notin evicted'
               PROVE  Follows(readers[x], t.items[x], answers.items[x], c[x].fragments)
    <3>1. \A x \in Executions : x \in All
      BY DEF All
    <3> QED BY <1>1, <1>2, <1>6, <3>1 DEF ReadersFollow
  <2>1. x \in All
    BY DEF All
  <2>2. x \notin evicted /\ Len(s.items[x]) <= Len(t.items[x])
    BY <1>8, <2>1
  <2>3. Follows(readers[x], s.items[x], answers.items[x], c[x].fragments)
    BY <1>1, <2>2 DEF IInv, ReadersFollow
  <2>4. /\ s.items[x] \in Seq(Nat \ {0}) /\ t.items[x] \in Seq(Nat \ {0}) /\ answers.items[x] \in Seq(Nat \ {0})
        /\ readers[x] \in Readers /\ c[x].fragments \in Nat
    BY <1>3, <1>4, <2>1 DEF Bounded, Stores, Counts
  <2>5. Len(answers.items[x]) <= Len(answers.items[x]) /\ c[x].fragments <= c[x].fragments
    BY <2>4
  <2> QED BY <2>2, <2>3, <2>4, <2>5, FollowsOn
<1>11. Silence'
  BY <1>2 DEF IInv, Silence
<1> QED BY <1>5, <1>7, <1>9, <1>10, <1>11 DEF IInv

\* A fragment.
LEMMA FragmentStepIs ==
    ASSUME IInv, NEW e \in All, FragmentStep(e)
    PROVE  IInv'
<1>1. PICK s, t, c : s = answers /\ t = answers' /\ c = written
  OBVIOUS
<1> DEFINE n == c[e].fragments
<1>2. /\ t = Publish(s, e, n + 1)
      /\ written' = [c EXCEPT ![e].fragments = n + 1]
      /\ idle' = [x \in All |-> IF x = e THEN {} ELSE idle[x] \cup {e}]
      /\ evicted' = evicted \cup Dropped(s, t)
      /\ events' = events /\ readers' = readers
  BY <1>1 DEF FragmentStep, PublishFragment
<1>3. /\ Bounded(s) /\ Bounded(events) /\ c \in Counts /\ n \in Nat /\ n + 1 \in Nat \ {0}
      /\ readers \in [Executions -> Readers] /\ idle \in [All -> SUBSET All] /\ evicted \subseteq All
  BY <1>1 DEF IInv, StoresBounded, TypesOfHistory, Counts
<1>4. Bounded(t)
  BY <1>2, <1>3, PublishIs
<1>5. StoresBounded'
  BY <1>1, <1>2, <1>3, <1>4 DEF StoresBounded
<1>6. written' = [x \in All |-> [events |-> c[x].events,
                                 fragments |-> IF x = e THEN n + 1 ELSE c[x].fragments]]
  <2>1. \A x \in All : c[x] = [events |-> c[x].events, fragments |-> c[x].fragments]
    BY <1>3 DEF Counts
  <2>2. c = [x \in All |-> c[x]]
    BY <1>3 DEF Counts
  <2> QED BY <1>2, <2>1, <2>2
<1>7. TypesOfHistory'
  BY <1>2, <1>3, <1>6 DEF TypesOfHistory, Counts, Dropped
<1>8. ASSUME NEW x \in All, x \notin evicted'
      PROVE  /\ x \notin evicted /\ Numbered(t.items[x], written'[x].fragments)
             /\ Numbered(events.items[x], written'[x].events)
             /\ Len(s.items[x]) <= Len(t.items[x])
  <2>1. x \notin evicted /\ x \notin Dropped(s, t)
    BY <1>2, <1>8
  <2>2. PICK m \in Nat : m = c[x].fragments
    BY <1>3 DEF Counts
  <2>3. Numbered(s.items[x], m) /\ Numbered(events.items[x], c[x].events)
    BY <1>1, <2>1, <2>2 DEF IInv, ListsNumbered
  <2>4. Numbered(t.items[x], IF x = e THEN m + 1 ELSE m) /\ Len(s.items[x]) <= Len(t.items[x])
    BY <1>2, <1>3, <2>1, <2>2, <2>3, PublishNumbered
  <2>5. written'[x].fragments = (IF x = e THEN m + 1 ELSE m) /\ written'[x].events = c[x].events
    BY <1>6, <2>2
  <2> QED BY <2>1, <2>3, <2>4, <2>5
<1>9. ListsNumbered'
  BY <1>1, <1>2, <1>8 DEF ListsNumbered
<1>10. ReadersFollow'
  <2> SUFFICES ASSUME NEW x \in Executions, x \notin evicted'
               PROVE  Follows(readers[x], events.items[x], t.items[x], written'[x].fragments)
    BY <1>1, <1>2 DEF ReadersFollow
  <2>1. x \in All
    BY DEF All
  <2>2. x \notin evicted /\ Len(s.items[x]) <= Len(t.items[x])
    BY <1>8, <2>1
  <2>3. Follows(readers[x], events.items[x], s.items[x], c[x].fragments)
    BY <1>1, <2>2 DEF IInv, ReadersFollow
  <2>4. /\ s.items[x] \in Seq(Nat \ {0}) /\ t.items[x] \in Seq(Nat \ {0}) /\ events.items[x] \in Seq(Nat \ {0})
        /\ readers[x] \in Readers /\ c[x].fragments \in Nat
    BY <1>3, <1>4, <2>1 DEF Bounded, Stores, Counts
  <2>5. PICK m : m = written'[x].fragments
    OBVIOUS
  <2>6. m = IF x = e THEN n + 1 ELSE c[x].fragments
    BY <1>6, <2>1, <2>5
  <2>7. Len(events.items[x]) <= Len(events.items[x]) /\ m \in Nat /\ c[x].fragments <= m
    BY <2>4, <2>6
  <2>8. Follows(readers[x], events.items[x], t.items[x], m)
    <3>1. PICK rd, ev, dr, dr2, k : /\ rd = readers[x] /\ ev = events.items[x]
                                    /\ dr = s.items[x] /\ dr2 = t.items[x] /\ k = c[x].fragments
      OBVIOUS
    <3>2. rd \in Readers /\ ev \in Seq(Nat \ {0}) /\ dr \in Seq(Nat \ {0}) /\ dr2 \in Seq(Nat \ {0}) /\ k \in Nat
      BY <2>4, <3>1
    <3>3. Len(ev) <= Len(ev) /\ Len(dr) <= Len(dr2) /\ k <= m /\ m \in Nat
      BY <2>2, <2>7, <3>1
    <3>4. Follows(rd, ev, dr, k)
      BY <2>3, <3>1
    <3>5. Follows(rd, ev, dr2, m)
      BY <3>2, <3>3, <3>4, FollowsOn
    <3> QED BY <3>1, <3>5
  <2> QED BY <2>5, <2>8
<1>11. Silence'
  <2> SUFFICES ASSUME NEW x \in All
               PROVE  /\ IsFiniteSet(idle'[x])
                      /\ \A y \in All : Before(t.order, x, y) => y \in idle'[x]
    BY <1>1 DEF Silence
  <2>1. idle'[x] = IF x = e THEN {} ELSE idle[x] \cup {e}
    BY <1>2
  <2>2. IsFiniteSet(idle[x]) /\ \A y \in All : Before(s.order, x, y) => y \in idle[x]
    BY <1>1 DEF IInv, Silence
  <2>3. IsFiniteSet(idle'[x])
    BY <2>1, <2>2, FS_EmptySet, FS_AddElement
  <2>4. ASSUME NEW y \in All, Before(t.order, x, y) PROVE x # e /\ (y = e \/ Before(s.order, x, y))
    BY <1>2, <1>3, <2>4, PublishOrder
  <2> QED BY <2>1, <2>2, <2>3, <2>4
<1> QED BY <1>5, <1>7, <1>9, <1>10, <1>11 DEF IInv

\* A reader takes what its lists have beyond what it has, and the fragments
\* after the number that were there when its pass began.
LEMMA ReaderStepIs ==
    ASSUME IInv, NEW e \in Executions, ReaderMoves(e)
    PROVE  IInv'
<1>1. e \in All /\ UNCHANGED <<events, answers, written, idle, evicted>>
  BY DEF ReaderMoves, All
<1>2. PICK rd, ev, dr, w : rd = readers[e] /\ ev = events.items[e] /\ dr = answers.items[e] /\ w = written[e].fragments
  OBVIOUS
<1>3. /\ rd \in Readers /\ ev \in Seq(Nat \ {0}) /\ dr \in Seq(Nat \ {0}) /\ w \in Nat
      /\ Len(ev) \in Nat /\ Len(dr) \in Nat
      /\ rd.events \in Seq(Nat \ {0}) /\ rd.fragments \in Seq(Nat \ {0}) /\ rd.known \in Nat
      /\ Len(rd.events) \in Nat /\ Len(rd.fragments) \in Nat
      /\ readers \in [Executions -> Readers]
  BY <1>1, <1>2 DEF IInv, StoresBounded, TypesOfHistory, Bounded, Stores, Counts, Readers
<1>4. e \notin evicted => Follows(rd, ev, dr, w) /\ Numbered(ev, written[e].events) /\ Numbered(dr, w)
  BY <1>1, <1>2 DEF IInv, ReadersFollow, ListsNumbered
\* Whatever the step is, it leaves the reader where it still follows the lists.
<1>5. PICK new : /\ new \in Readers /\ readers' = [readers EXCEPT ![e] = new]
                 /\ e \notin evicted => Follows(new, ev, dr, w)
  <2>1. CASE \E next \in {"events", "closed"} : readers' = [readers EXCEPT ![e].at = next]
    <3>1. PICK next \in {"events", "closed"} : readers' = [readers EXCEPT ![e].at = next]
      BY <2>1
    <3>2. PICK new : new = [rd EXCEPT !.at = next]
      OBVIOUS
    <3>3. /\ new \in Readers /\ readers' = [readers EXCEPT ![e] = new]
          /\ new.at = next /\ new.events = rd.events /\ new.fragments = rd.fragments /\ new.known = rd.known
      BY <1>2, <1>3, <3>1, <3>2 DEF Readers
    <3> QED BY <1>4, <3>3 DEF Follows
  <2>2. CASE ReadStatus(e)
    <3>1. PICK new : new = [rd EXCEPT !.at = IF status[e] \in Terminal THEN "told" ELSE "events"]
      OBVIOUS
    <3>2. /\ new \in Readers /\ readers' = [readers EXCEPT ![e] = new] /\ rd.at = "status"
          /\ new.events = rd.events /\ new.fragments = rd.fragments /\ new.known = rd.known
      BY <1>2, <1>3, <2>2, <3>1 DEF ReadStatus, Readers
    <3> QED BY <1>4, <3>2 DEF Follows
  <2>3. CASE ReadEvents(e)
    <3>1. PICK more : more = rd.events \o SubSeq(ev, Len(rd.events) + 1, Len(ev))
      OBVIOUS
    <3>2. PICK new : new = [rd EXCEPT !.at = "fragments", !.known = w, !.events = more]
      OBVIOUS
    <3>3. more \in Seq(Nat \ {0})
      BY <1>3, <3>1, SinceIs
    <3>4. Consecutive(ev) /\ Consecutive(rd.events) /\ Len(rd.events) <= Len(ev)
            => Consecutive(more) /\ Len(more) = Len(ev)
      BY <1>3, <3>1, SinceIs
    <3>5. readers' = [readers EXCEPT ![e] = new]
      BY <1>2, <1>3, <2>3, <3>1, <3>2 DEF ReadEvents, Since, Readers
    <3>6. /\ new \in Readers
          /\ new.at = "fragments" /\ new.events = more /\ new.fragments = rd.fragments /\ new.known = w
      BY <1>3, <3>2, <3>3 DEF Readers
    <3>7. e \notin evicted => Follows(new, ev, dr, w)
      BY <1>3, <1>4, <3>4, <3>6 DEF Follows, Numbered
    <3> QED BY <3>5, <3>6, <3>7
  <2>4. CASE ReadFragments(e)
    <3>1. PICK more : more = rd.fragments \o SubSeq(dr, Len(rd.fragments) + 1, Len(dr))
      OBVIOUS
    <3>2. PICK new : new = [rd EXCEPT !.at = "status", !.fragments = more]
      OBVIOUS
    <3>3. more \in Seq(Nat \ {0})
      BY <1>3, <3>1, SinceIs
    <3>4. Consecutive(dr) /\ Consecutive(rd.fragments) /\ Len(rd.fragments) <= Len(dr)
            => Consecutive(more) /\ Len(more) = Len(dr)
      BY <1>3, <3>1, SinceIs
    <3>5. readers' = [readers EXCEPT ![e] = new]
      BY <1>2, <1>3, <2>4, <3>1, <3>2 DEF ReadFragments, Since, Readers
    <3>6. /\ new \in Readers
          /\ new.at = "status" /\ new.events = rd.events /\ new.fragments = more /\ new.known = rd.known
      BY <1>3, <3>2, <3>3 DEF Readers
    \* The store has all of the publications, or as many as it takes.
    <3>7. e \notin evicted => rd.known <= Len(dr) \/ MaxItems <= Len(dr)
      BY <1>3, <1>4, StreamAssumption DEF Follows, Numbered
    <3>8. e \notin evicted => Follows(new, ev, dr, w)
      BY <1>3, <1>4, <3>4, <3>6, <3>7 DEF Follows, Numbered
    <3> QED BY <3>5, <3>6, <3>8
  <2> QED BY <2>1, <2>2, <2>3, <2>4 DEF ReaderMoves
<1>6. readers' \in [Executions -> Readers]
  BY <1>3, <1>5
<1>7. TypesOfHistory'
  BY <1>1, <1>6 DEF IInv, TypesOfHistory
<1>8. StoresBounded' /\ ListsNumbered' /\ Silence'
  BY <1>1 DEF IInv, StoresBounded, ListsNumbered, Silence
<1>9. ReadersFollow'
  <2> SUFFICES ASSUME NEW x \in Executions, x \notin evicted
               PROVE  Follows(readers'[x], events.items[x], answers.items[x], written[x].fragments)
    BY <1>1 DEF ReadersFollow
  <2>1. CASE x = e
    BY <1>2, <1>3, <1>5, <2>1
  <2>2. CASE x # e
    BY <1>3, <1>5, <2>2 DEF IInv, ReadersFollow
  <2> QED BY <2>1, <2>2
<1> QED BY <1>7, <1>8, <1>9 DEF IInv

LEMMA NextIInv == IInv /\ [Next]_vars => IInv'
<1> SUFFICES ASSUME IInv, [Next]_vars PROVE IInv'
  OBVIOUS
<1>1. CASE Quiet
  BY <1>1 DEF Quiet, IInv, StoresBounded, TypesOfHistory, ListsNumbered, ReadersFollow, Silence
<1>2. CASE \E e \in All : EventStep(e) \/ FragmentStep(e)
  BY <1>2, EventStepIs, FragmentStepIs
<1>3. CASE \E e \in Executions : ReaderMoves(e)
  BY <1>3, ReaderStepIs
<1> QED BY <1>1, <1>2, <1>3, StepIs

LEMMA AlwaysIInv == Spec => []IInv
BY InitIInv, NextIInv, PTL DEF Spec

-----------------------------------------------------------------------------
(***************************************************************************)
(* Induction over the naturals, by the least element of what a set lacks,  *)
(* and what the proofs about texts need of sequences.                      *)
(***************************************************************************)
\* What 0 is in, and with each number the next, has all numbers: a number that it
\* lacked would have a least, as < is well founded.
LEMMA Inductive ==
    ASSUME NEW S, 0 \in S, \A n \in Nat : n \in S => n + 1 \in S
    PROVE  Nat \subseteq S
<1> DEFINE T == Nat \ S
           less == {ss \in Nat \X Nat : ss[1] < ss[2]}
<1>1. SUFFICES ASSUME T # {} PROVE FALSE
  OBVIOUS
<1>2. IsWellFoundedOn(less, Nat)
  BY NatLessThanWellFounded DEF OpToRel
<1>3. T \subseteq Nat
  OBVIOUS
<1> HIDE DEF T
<1>4. PICK x \in T : \A y \in T : <<y, x>> \notin less
  <2> HIDE DEF less
  <2> QED BY <1>1, <1>2, <1>3, WFMin
<1>5. x \in Nat /\ \A y \in T : ~(y < x)
  BY <1>3, <1>4
<1>6. CASE x = 0
  BY <1>6 DEF T
<1>7. CASE x # 0
  <2>1. x - 1 \in Nat /\ x - 1 \notin T
    BY <1>5, <1>7
  <2> QED BY <1>5, <2>1 DEF T
<1> QED BY <1>6, <1>7

\* What is true at the start of a sequence's indices, and passes from each to
\* the next, is true of all.
LEMMA InductiveUpTo ==
    ASSUME NEW m, NEW n \in Nat, m \in Nat, NEW S, m \in S, \A k \in m..(n - 1) : k \in S => k + 1 \in S
    PROVE  m..n \subseteq S
<1> DEFINE T == {k \in Nat : m + k <= n => m + k \in S}
<1>1. 0 \in T
  OBVIOUS
<1>2. ASSUME NEW k \in Nat, k \in T PROVE k + 1 \in T
  <2>1. CASE m + (k + 1) <= n
    <3>1. m + k \in m..(n - 1) /\ m + k \in S
      BY <1>2, <2>1
    <3>2. (m + k) + 1 = m + (k + 1)
      OBVIOUS
    <3> QED BY <3>1, <3>2
  <2>2. CASE ~(m + (k + 1) <= n)
    BY <2>2
  <2> QED BY <2>1, <2>2
<1> HIDE DEF T
<1>3. Nat \subseteq T
  BY <1>1, <1>2, Inductive
<1>4. ASSUME NEW i \in m..n PROVE i \in S
  <2>1. i - m \in Nat /\ m + (i - m) = i /\ i <= n
    OBVIOUS
  <2> QED BY <1>3, <2>1 DEF T
<1> QED BY <1>4

\* A set of positions that is not empty has a last one.
LEMMA LastIs ==
    ASSUME NEW n \in Nat, NEW T, T \subseteq 1..n, T # {}
    PROVE  \E b \in T : \A c \in T : c <= b
<1> DEFINE S == {k \in Nat : \A c \in T : c <= k => \E b \in T : \A d \in T : d <= k => d <= b}
<1>1. 0 \in S
  <2>1. \A c \in T : ~(c <= 0)
    OBVIOUS
  <2> QED BY <2>1
<1>2. ASSUME NEW k \in Nat, k \in S PROVE k + 1 \in S
  <2>1. CASE k + 1 \in T
    BY <2>1
  <2>2. CASE k + 1 \notin T
    <3>1. \A d \in T : d <= k + 1 => d <= k
      BY <2>2
    <3> QED BY <1>2, <3>1
  <2> QED BY <2>1, <2>2
<1> HIDE DEF S
<1>3. n \in S
  BY <1>1, <1>2, Inductive
<1>4. PICK c \in T : c <= n
  <2>1. \E c \in T : TRUE
    OBVIOUS
  <2>2. \A c \in T : c <= n
    OBVIOUS
  <2> QED BY <2>1, <2>2
<1>5. PICK b \in T : \A d \in T : d <= n => d <= b
  BY <1>3, <1>4 DEF S
<1>6. \A d \in T : d <= n
  OBVIOUS
<1> QED BY <1>5, <1>6

\* A prefix, position by position.
LEMMA PrefixIs ==
    ASSUME NEW S, NEW s \in Seq(S), NEW t \in Seq(S)
    PROVE  IsPrefix(s, t) <=> Len(s) <= Len(t) /\ \A i \in 1..Len(s) : s[i] = t[i]
<1>1. Len(s) \in Nat /\ Len(t) \in Nat /\ DOMAIN s = 1..Len(s)
  OBVIOUS
<1>2. SubSeq(s, 1, Len(s)) = s
  BY <1>1
<1>3. Len(s) <= Len(t) =>
         /\ SubSeq(t, 1, Len(s)) \in Seq(S) /\ Len(SubSeq(t, 1, Len(s))) = Len(s)
         /\ \A i \in 1..Len(s) : SubSeq(t, 1, Len(s))[i] = t[i]
  BY <1>1
<1>4. Len(s) <= Len(t) => (s = SubSeq(t, 1, Len(s)) <=> \A i \in 1..Len(s) : s[i] = t[i])
  BY <1>1, <1>3, SeqEqual
<1> QED BY <1>2, <1>4 DEF IsPrefix

-----------------------------------------------------------------------------
(***************************************************************************)
(* The scan of a text.                                                     *)
(***************************************************************************)
Shown == Characters \cup {Redacted}

\* The equation that Scanned solves, up to the n-th character.
Scans(f, text, n) ==
    f = [i \in 0..n |-> IF i = 0 THEN Clean ELSE Scan(f[i - 1], text[i])]

\* The recursion has a solution, built one character at a time.
LEMMA ScanExists ==
    ASSUME NEW text, NEW n \in Nat
    PROVE  \E f : Scans(f, text, n)
<1> DEFINE T == {k \in Nat : \E f : Scans(f, text, k)}
<1>1. 0 \in T
  <2>1. Scans([i \in 0..0 |-> Clean], text, 0)
    BY DEF Scans
  <2> QED BY <2>1
<1>2. ASSUME NEW k \in Nat, k \in T PROVE k + 1 \in T
  <2>1. PICK f : Scans(f, text, k)
    BY <1>2
  <2> DEFINE g == [i \in 0..(k + 1) |-> IF i <= k THEN f[i] ELSE Scan(f[k], text[k + 1])]
  <2>2. ASSUME NEW i \in 0..(k + 1)
        PROVE  g[i] = IF i = 0 THEN Clean ELSE Scan(g[i - 1], text[i])
    <3>1. CASE i = 0
      BY <2>1, <3>1 DEF Scans
    <3>2. CASE i # 0 /\ i <= k
      <4>1. i \in 0..k /\ i - 1 \in 0..k /\ i - 1 \in 0..(k + 1) /\ i - 1 <= k
        BY <3>2
      <4>2. f[i] = Scan(f[i - 1], text[i])
        BY <2>1, <3>2, <4>1 DEF Scans
      <4>3. g[i] = f[i] /\ g[i - 1] = f[i - 1]
        BY <3>2, <4>1
      <4> QED BY <3>2, <4>2, <4>3
    <3>3. CASE i = k + 1
      <4>1. k \in 0..(k + 1) /\ i - 1 = k /\ i # 0 /\ ~(i <= k)
        BY <3>3
      <4>2. g[i] = Scan(f[k], text[k + 1]) /\ g[k] = f[k]
        BY <3>3, <4>1
      <4> QED BY <3>3, <4>1, <4>2
    <3> QED BY <3>1, <3>2, <3>3
  <2>3. Scans(g, text, k + 1)
    <3>1. g = [i \in 0..(k + 1) |-> g[i]]
      OBVIOUS
    <3> HIDE DEF g
    <3> QED BY <2>2, <3>1 DEF Scans
  <2> HIDE DEF g
  <2> QED BY <2>3
<1> HIDE DEF T
<1>3. n \in T
  BY <1>1, <1>2, Inductive
<1> QED BY <1>3 DEF T

\* So the scan is what its definition says at every character.
LEMMA ScannedIs ==
    ASSUME NEW text, Len(text) \in Nat
    PROVE  /\ Scanned(text)[0] = Clean
           /\ \A n \in 1..Len(text) : Scanned(text)[n] = Scan(Scanned(text)[n - 1], text[n])
<1>1. Scanned(text) = CHOOSE f : Scans(f, text, Len(text))
  BY DEF Scanned, Scans
<1>2. Scans(Scanned(text), text, Len(text))
  BY <1>1, ScanExists
<1> HIDE DEF Scans
<1>3. Scanned(text) = [i \in 0..Len(text) |-> IF i = 0 THEN Clean ELSE Scan(Scanned(text)[i - 1], text[i])]
  BY <1>2 DEF Scans
<1>4. 0 \in 0..Len(text) /\ \A n \in 1..Len(text) : n \in 0..Len(text) /\ n # 0
  OBVIOUS
<1> QED BY <1>3, <1>4

\* Two texts are scanned alike as far as they agree.
LEMMA ScannedAlike ==
    ASSUME NEW s \in Seq(Characters), NEW t \in Seq(Characters),
           NEW n \in Nat, n <= Len(s), n <= Len(t), \A i \in 1..n : s[i] = t[i]
    PROVE  Scanned(s)[n] = Scanned(t)[n]
<1> DEFINE T == {k \in Nat : Scanned(s)[k] = Scanned(t)[k]}
<1>1. Len(s) \in Nat /\ Len(t) \in Nat
  OBVIOUS
<1>2. 0 \in T
  BY <1>1, ScannedIs
<1>3. ASSUME NEW k \in 0..(n - 1), k \in T PROVE k + 1 \in T
  <2>1. k + 1 \in 1..Len(s) /\ k + 1 \in 1..Len(t) /\ k + 1 \in 1..n /\ (k + 1) - 1 = k
    BY <1>1
  <2>2. Scanned(s)[k + 1] = Scan(Scanned(s)[k], s[k + 1])
    BY <1>1, <2>1, ScannedIs
  <2>3. Scanned(t)[k + 1] = Scan(Scanned(t)[k], t[k + 1])
    BY <1>1, <2>1, ScannedIs
  <2> QED BY <1>3, <2>1, <2>2, <2>3
<1> HIDE DEF T
<1>4. 0..n \subseteq T
  BY <1>2, <1>3, InductiveUpTo
<1> QED BY <1>4 DEF T

Scanners == [out : Seq(Shown), held : Seq(Characters), in : {"text", "value", "number", Key, Digit}]

\* What may be held back in each state of the scan.
HeldIs(state) ==
    /\ state.in \in {"text", "value"} => state.held = << >>
    /\ state.in = "number" => \A i \in 1..Len(state.held) : state.held[i] = Space
    /\ state.in \in {Key, Digit} => state.held # << >> /\ state.held[1] = state.in

Flushed(state) == state.out \o state.held

\* The scan gives up what it holds, and c may begin a match of its own.
Restarts(state, c) ==
    \/ state.in = "text"
    \/ state.in = "value" /\ c = Space
    \/ state.in = Key /\ c = Space /\ ~(Len(state.held) <= Gap)
    \/ state.in \in {Digit, "number"} /\ c \notin OfNumber

\* A character either starts the scan afresh or goes on with what it is in.
LEMMA ScanCases ==
    ASSUME NEW state \in Scanners, NEW c \in Characters
    PROVE  LET next == Scan(state, c)
           IN  /\ Restarts(state, c) =>
                     next = [out |-> IF c \in {Key, Digit} THEN Flushed(state) ELSE Append(Flushed(state), c),
                             held |-> IF c \in {Key, Digit} THEN <<c>> ELSE << >>,
                             in |-> IF c \in {Key, Digit} THEN c ELSE "text"]
               /\ ~Restarts(state, c) =>
                     \/ state.in = "value" /\ c # Space /\ next = state
                     \/ /\ state.in = Key /\ c # Space
                        /\ next = [out |-> Append(state.out, Redacted), held |-> << >>, in |-> "value"]
                     \/ /\ state.in = Digit /\ c = Digit
                        /\ next = [out |-> Append(state.out, Redacted), held |-> << >>, in |-> "number"]
                     \/ state.in = "number" /\ c = Digit /\ next = [state EXCEPT !.held = << >>]
                     \/ /\ state.in \in {Key, Digit, "number"} /\ c = Space
                        /\ next = [state EXCEPT !.held = Append(@, c)]
<1>1. state.in \in {"text", "value", "number", Key, Digit}
  BY DEF Scanners
<1>2. CASE Restarts(state, c)
  BY <1>1, <1>2 DEF Restarts, Scan, Flushed, Key, Digit, Space, OfNumber
<1>3. CASE ~Restarts(state, c)
  BY <1>1, <1>3 DEF Restarts, Scan, Key, Digit, Space, OfNumber
<1> QED BY <1>2, <1>3

\* A concatenation, position by position.
LEMMA ConcatIs ==
    ASSUME NEW S, NEW a \in Seq(S), NEW b \in Seq(S)
    PROVE  /\ a \o b \in Seq(S) /\ Len(a \o b) = Len(a) + Len(b)
           /\ \A i \in 1..Len(a) : (a \o b)[i] = a[i]
           /\ \A i \in 1..Len(b) : (a \o b)[Len(a) + i] = b[i]
           /\ IsPrefix(a, a \o b)
<1>1. Len(a) \in Nat /\ Len(b) \in Nat
  OBVIOUS
<1>2. /\ a \o b \in Seq(S) /\ Len(a \o b) = Len(a) + Len(b)
      /\ \A i \in 1..(Len(a) + Len(b)) : (a \o b)[i] = IF i <= Len(a) THEN a[i] ELSE b[i - Len(a)]
  BY ConcatProperties
<1>3. ASSUME NEW i \in 1..Len(a) PROVE (a \o b)[i] = a[i]
  <2>1. i \in 1..(Len(a) + Len(b)) /\ i <= Len(a)
    BY <1>1
  <2> QED BY <1>2, <2>1
<1>4. ASSUME NEW i \in 1..Len(b) PROVE (a \o b)[Len(a) + i] = b[i]
  <2>1. Len(a) + i \in 1..(Len(a) + Len(b)) /\ ~(Len(a) + i <= Len(a)) /\ (Len(a) + i) - Len(a) = i
    BY <1>1
  <2> QED BY <1>2, <2>1
<1>5. Len(a) <= Len(a \o b)
  BY <1>1, <1>2
<1>6. IsPrefix(a, a \o b)
  BY <1>2, <1>3, <1>5, PrefixIs
<1> QED BY <1>2, <1>3, <1>4, <1>6

\* An appended element, position by position.
LEMMA AppendIs ==
    ASSUME NEW S, NEW s \in Seq(S), NEW c \in S
    PROVE  /\ Append(s, c) \in Seq(S) /\ Len(Append(s, c)) = Len(s) + 1
           /\ Append(s, c) # << >>
           /\ \A i \in 1..Len(s) : Append(s, c)[i] = s[i]
           /\ Append(s, c)[Len(s) + 1] = c
           /\ IsPrefix(s, Append(s, c))
<1>1. /\ Append(s, c) \in Seq(S) /\ Len(Append(s, c)) = Len(s) + 1
      /\ \A i \in 1..Len(s) : Append(s, c)[i] = s[i]
      /\ Append(s, c)[Len(s) + 1] = c /\ Len(s) \in Nat
      /\ Append(s, c) # << >>
  OBVIOUS
<1>2. Len(s) <= Len(Append(s, c))
  BY <1>1
<1>3. IsPrefix(s, Append(s, c))
  BY <1>1, <1>2, PrefixIs
<1> QED BY <1>1, <1>3

\* Being a prefix is transitive and reflexive.
LEMMA PrefixTrans ==
    ASSUME NEW S, NEW r \in Seq(S), NEW s \in Seq(S), NEW t \in Seq(S), IsPrefix(r, s), IsPrefix(s, t)
    PROVE  IsPrefix(r, t)
<1>1. Len(r) \in Nat /\ Len(s) \in Nat /\ Len(t) \in Nat
  OBVIOUS
<1>2. /\ Len(r) <= Len(s) /\ \A i \in 1..Len(r) : r[i] = s[i]
      /\ Len(s) <= Len(t) /\ \A i \in 1..Len(s) : s[i] = t[i]
  BY PrefixIs
<1>3. Len(r) <= Len(t) /\ \A i \in 1..Len(r) : r[i] = t[i]
  BY <1>1, <1>2
<1> QED BY <1>3, PrefixIs

LEMMA PrefixSelf ==
    ASSUME NEW S, NEW s \in Seq(S)
    PROVE  IsPrefix(s, s)
<1>1. Len(s) <= Len(s)
  OBVIOUS
<1> QED BY <1>1, PrefixIs

\* The record of a scan and its fields.
LEMMA ScannersHave ==
    ASSUME NEW out \in Seq(Shown), NEW held \in Seq(Characters), NEW in \in {"text", "value", "number", Key, Digit}
    PROVE  LET state == [out |-> out, held |-> held, in |-> in]
           IN  state \in Scanners /\ state.out = out /\ state.held = held /\ state.in = in
BY DEF Scanners

LEMMA ScannersAre ==
    ASSUME NEW state \in Scanners
    PROVE  /\ state.out \in Seq(Shown) /\ state.held \in Seq(Characters)
           /\ state.in \in {"text", "value", "number", Key, Digit}
           /\ state = [out |-> state.out, held |-> state.held, in |-> state.in]
BY DEF Scanners

\* What is settled and what is held, position by position.
LEMMA FlushedIs ==
    ASSUME NEW state \in Scanners
    PROVE  /\ Flushed(state) \in Seq(Shown)
           /\ Len(Flushed(state)) = Len(state.out) + Len(state.held)
           /\ \A i \in 1..Len(state.out) : Flushed(state)[i] = state.out[i]
           /\ \A i \in 1..Len(state.held) : Flushed(state)[Len(state.out) + i] = state.held[i]
           /\ IsPrefix(state.out, Flushed(state))
<1>1. state.out \in Seq(Shown) /\ state.held \in Seq(Characters)
  BY ScannersAre
<1>2. state.held \in Seq(Shown)
  BY <1>1 DEF Shown
<1> DEFINE a == state.out
           b == state.held
<1>3. a \in Seq(Shown) /\ b \in Seq(Shown)
  BY <1>1, <1>2
<1>4. Flushed(state) = a \o b
  BY DEF Flushed
<1> HIDE DEF a, b
<1>5. /\ a \o b \in Seq(Shown) /\ Len(a \o b) = Len(a) + Len(b)
      /\ \A i \in 1..Len(a) : (a \o b)[i] = a[i]
      /\ \A i \in 1..Len(b) : (a \o b)[Len(a) + i] = b[i]
      /\ IsPrefix(a, a \o b)
  BY <1>3, ConcatIs
<1> QED BY <1>4, <1>5 DEF a, b

\* One character: what was settled stays, and what is held belongs to a match.
LEMMA ScanIs ==
    ASSUME NEW state \in Scanners, HeldIs(state), NEW c \in Characters
    PROVE  /\ Scan(state, c) \in Scanners /\ HeldIs(Scan(state, c))
           /\ IsPrefix(state.out, Scan(state, c).out)
<1> DEFINE next == Scan(state, c)
           out == state.out
           held == state.held
           flushed == Flushed(state)
<1>1. out \in Seq(Shown) /\ held \in Seq(Characters) /\ state.in \in {"text", "value", "number", Key, Digit}
  BY ScannersAre
<1>2. flushed \in Seq(Shown) /\ IsPrefix(out, flushed)
  BY FlushedIs
<1>3. c \in Shown /\ Redacted \in Shown
  BY DEF Shown
<1>4. IsPrefix(out, out) /\ IsPrefix(out, Append(out, Redacted)) /\ Append(out, Redacted) \in Seq(Shown)
  BY <1>1, <1>3, PrefixSelf, AppendIs
<1>5. IsPrefix(out, Append(flushed, c)) /\ Append(flushed, c) \in Seq(Shown)
  <2> HIDE DEF out, flushed
  <2>1. Append(flushed, c) \in Seq(Shown) /\ IsPrefix(flushed, Append(flushed, c))
    BY <1>2, <1>3, AppendIs
  <2> QED BY <1>1, <1>2, <2>1, PrefixTrans
<1>6. <<c>> \in Seq(Characters) /\ << >> \in Seq(Characters) /\ <<c>> # << >> /\ <<c>>[1] = c /\ Len(<< >>) = 0
  OBVIOUS
<1> HIDE DEF flushed
<1>7. CASE Restarts(state, c)
  <2>1. next = [out |-> IF c \in {Key, Digit} THEN flushed ELSE Append(flushed, c),
                held |-> IF c \in {Key, Digit} THEN <<c>> ELSE << >>,
                in |-> IF c \in {Key, Digit} THEN c ELSE "text"]
    BY <1>7, ScanCases DEF flushed
  <2> HIDE DEF next, out
  <2>2. CASE c \in {Key, Digit}
    <3>1. next = [out |-> flushed, held |-> <<c>>, in |-> c]
      BY <2>1, <2>2
    <3>2. next \in Scanners /\ next.out = flushed /\ next.held = <<c>> /\ next.in = c
      BY <1>2, <1>6, <2>2, <3>1, ScannersHave
    <3>3. HeldIs(next)
      BY <1>6, <2>2, <3>2 DEF HeldIs, Key, Digit
    <3> QED BY <1>2, <3>2, <3>3 DEF next, out
  <2>3. CASE c \notin {Key, Digit}
    <3>1. next = [out |-> Append(flushed, c), held |-> << >>, in |-> "text"]
      BY <2>1, <2>3
    <3>2. next \in Scanners /\ next.out = Append(flushed, c) /\ next.held = << >> /\ next.in = "text"
      BY <1>5, <1>6, <3>1, ScannersHave
    <3>3. HeldIs(next)
      BY <3>2 DEF HeldIs, Key, Digit
    <3> QED BY <1>5, <3>2, <3>3 DEF next, out
  <2> QED BY <2>2, <2>3
<1>8. CASE ~Restarts(state, c)
  <2>1. \/ state.in = "value" /\ c # Space /\ next = state
        \/ /\ state.in = Key /\ c # Space
           /\ next = [out |-> Append(state.out, Redacted), held |-> << >>, in |-> "value"]
        \/ /\ state.in = Digit /\ c = Digit
           /\ next = [out |-> Append(state.out, Redacted), held |-> << >>, in |-> "number"]
        \/ state.in = "number" /\ c = Digit /\ next = [state EXCEPT !.held = << >>]
        \/ /\ state.in \in {Key, Digit, "number"} /\ c = Space
           /\ next = [state EXCEPT !.held = Append(@, c)]
    BY <1>8, ScanCases
  <2> HIDE DEF next
  <2>2. CASE next = state
    BY <1>4, <2>2 DEF next
  <2>3. CASE next = [out |-> Append(out, Redacted), held |-> << >>, in |-> "value"]
    <3>1. next \in Scanners /\ next.out = Append(out, Redacted) /\ next.held = << >> /\ next.in = "value"
      BY <1>4, <1>6, <2>3, ScannersHave
    <3>2. HeldIs(next)
      BY <3>1 DEF HeldIs, Key, Digit
    <3> QED BY <1>4, <3>1, <3>2 DEF next
  <2>4. CASE next = [out |-> Append(out, Redacted), held |-> << >>, in |-> "number"]
    <3>1. next \in Scanners /\ next.out = Append(out, Redacted) /\ next.held = << >> /\ next.in = "number"
      BY <1>4, <1>6, <2>4, ScannersHave
    <3>2. HeldIs(next)
      BY <1>6, <3>1 DEF HeldIs, Key, Digit
    <3> QED BY <1>4, <3>1, <3>2 DEF next
  <2>5. CASE next = [state EXCEPT !.held = << >>] /\ state.in = "number"
    <3>1. next = [out |-> out, held |-> << >>, in |-> "number"]
      BY <2>5, ScannersAre
    <3>2. next \in Scanners /\ next.out = out /\ next.held = << >> /\ next.in = "number"
      BY <1>1, <1>6, <3>1, ScannersHave
    <3>3. HeldIs(next)
      BY <1>6, <3>2 DEF HeldIs, Key, Digit
    <3> QED BY <1>4, <3>2, <3>3 DEF next
  <2>6. CASE state.in \in {Key, Digit, "number"} /\ c = Space /\ next = [state EXCEPT !.held = Append(@, c)]
    <3>1. next = [out |-> out, held |-> Append(held, c), in |-> state.in]
      <4> DEFINE in == state.in
      <4>1. state = [out |-> out, held |-> held, in |-> in]
        BY ScannersAre
      <4>2. next = [state EXCEPT !.held = Append(held, c)]
        BY <2>6
      <4> HIDE DEF out, held, in
      <4>3. next = [out |-> out, held |-> Append(held, c), in |-> in]
        BY <4>1, <4>2
      <4> QED BY <4>3 DEF in
    <3>2. /\ Append(held, c) \in Seq(Characters) /\ Len(Append(held, c)) = Len(held) + 1
          /\ Append(held, c) # << >>
          /\ \A i \in 1..Len(held) : Append(held, c)[i] = held[i]
          /\ Append(held, c)[Len(held) + 1] = Space
      BY <1>1, <2>6, AppendIs
    <3>3. next \in Scanners /\ next.out = out /\ next.held = Append(held, c) /\ next.in = state.in
      BY <1>1, <3>1, <3>2, ScannersHave
    <3>4. Len(held) \in Nat /\ (held # << >> => 1 \in 1..Len(held))
      BY <1>1
    <3>5. HeldIs(next)
      <4>1. ASSUME state.in = "number", NEW i \in 1..Len(Append(held, c)) PROVE Append(held, c)[i] = Space
        <5>1. CASE i \in 1..Len(held)
          BY <3>2, <4>1, <5>1 DEF HeldIs
        <5>2. CASE i = Len(held) + 1
          BY <3>2, <5>2
        <5> QED BY <3>2, <3>4, <5>1, <5>2
      <4>2. state.in \in {Key, Digit} => Append(held, c)[1] = state.in
        BY <3>2, <3>4 DEF HeldIs
      <4>3. state.in \notin {"text", "value"}
        BY <2>6 DEF Key, Digit
      <4> HIDE DEF held, out
      <4> QED BY <3>2, <3>3, <4>1, <4>2, <4>3 DEF HeldIs
    <3> QED BY <1>4, <3>3, <3>5 DEF next
  <2> QED BY <2>1, <2>2, <2>3, <2>4, <2>5, <2>6
<1> QED BY <1>7, <1>8

\* The scan keeps its type, and holds back only what a match may take in.
LEMMA ScanTypes ==
    ASSUME NEW text \in Seq(Characters), NEW n \in 0..Len(text)
    PROVE  Scanned(text)[n] \in Scanners /\ HeldIs(Scanned(text)[n])
<1> DEFINE T == {k \in Nat : Scanned(text)[k] \in Scanners /\ HeldIs(Scanned(text)[k])}
<1>1. Len(text) \in Nat /\ n \in Nat
  OBVIOUS
<1>2. 0 \in T
  <2>1. << >> \in Seq(Shown) /\ << >> \in Seq(Characters) /\ Len(<< >>) = 0
    OBVIOUS
  <2>2. Clean \in Scanners /\ Clean.in = "text" /\ Clean.held = << >>
    BY <2>1, ScannersHave DEF Clean
  <2>3. HeldIs(Clean)
    BY <2>2 DEF HeldIs, Key, Digit
  <2> QED BY <1>1, <2>2, <2>3, ScannedIs
<1>3. ASSUME NEW k \in 0..(n - 1), k \in T PROVE k + 1 \in T
  <2>1. k + 1 \in 1..Len(text) /\ (k + 1) - 1 = k /\ k + 1 \in Nat
    BY <1>1
  <2>2. Scanned(text)[k + 1] = Scan(Scanned(text)[k], text[k + 1])
    BY <1>1, <2>1, ScannedIs
  <2>3. text[k + 1] \in Characters
    BY <2>1
  <2> QED BY <1>3, <2>1, <2>2, <2>3, ScanIs
<1> HIDE DEF T
<1>4. 0..n \subseteq T
  BY <1>1, <1>2, <1>3, InductiveUpTo
<1> QED BY <1>1, <1>4 DEF T

\* What is settled of a text is settled of all that continues it.
LEMMA ScanGrows ==
    ASSUME NEW text \in Seq(Characters), NEW n \in 0..Len(text), NEW m \in 0..n
    PROVE  IsPrefix(Scanned(text)[m].out, Scanned(text)[n].out)
<1> DEFINE T == {k \in Nat : IsPrefix(Scanned(text)[m].out, Scanned(text)[k].out)}
<1>1. Len(text) \in Nat /\ n \in Nat /\ m \in Nat /\ m \in 0..Len(text)
  OBVIOUS
<1>2. m \in T
  BY <1>1, ScanTypes, ScannersAre, PrefixSelf
<1>3. ASSUME NEW k \in m..(n - 1), k \in T PROVE k + 1 \in T
  <2>1. k + 1 \in 1..Len(text) /\ (k + 1) - 1 = k /\ k + 1 \in Nat /\ k \in 0..Len(text) /\ k + 1 \in 0..Len(text)
    BY <1>1
  <2>2. Scanned(text)[k + 1] = Scan(Scanned(text)[k], text[k + 1])
    BY <1>1, <2>1, ScannedIs
  <2>3. text[k + 1] \in Characters
    BY <2>1
  <2> DEFINE a == Scanned(text)[m].out
             b == Scanned(text)[k].out
             c == Scanned(text)[k + 1].out
  <2>4. IsPrefix(b, c)
    BY <2>1, <2>2, <2>3, ScanTypes, ScanIs
  <2>5. a \in Seq(Shown) /\ b \in Seq(Shown) /\ c \in Seq(Shown)
    BY <1>1, <2>1, ScanTypes, ScannersAre
  <2>6. IsPrefix(a, b)
    BY <1>3
  <2> HIDE DEF a, b, c
  <2>7. IsPrefix(a, c)
    BY <2>4, <2>5, <2>6, PrefixTrans
  <2> QED BY <2>1, <2>7 DEF a, c
<1> HIDE DEF T
<1>4. m..n \subseteq T
  BY <1>1, <1>2, <1>3, InductiveUpTo
<1>5. n \in m..n
  OBVIOUS
<1> QED BY <1>4, <1>5 DEF T

\* A prefix of a text, position by position.
LEMMA PrefixOf ==
    ASSUME NEW S, NEW text \in Seq(S), NEW n \in 0..Len(text)
    PROVE  /\ Prefix(text, n) \in Seq(S) /\ Len(Prefix(text, n)) = n
           /\ \A i \in 1..n : Prefix(text, n)[i] = text[i]
BY DEF Prefix

\* The redaction of a prefix is what the scan of the whole has by then.
LEMMA RedactsPrefix ==
    ASSUME NEW text \in Seq(Characters), NEW n \in 0..Len(text)
    PROVE  RedactFinal(Prefix(text, n)) = Flushed(Scanned(text)[n])
<1> DEFINE p == Prefix(text, n)
<1>1. p \in Seq(Characters) /\ Len(p) = n /\ \A i \in 1..n : p[i] = text[i]
  BY PrefixOf
<1>2. n \in Nat /\ n <= Len(text) /\ n <= n
  OBVIOUS
<1> HIDE DEF p
<1>3. Scanned(p)[n] = Scanned(text)[n]
  BY <1>1, <1>2, ScannedAlike
<1> QED BY <1>1, <1>3 DEF RedactFinal, Flushed, p

\* The redaction of the whole is the scan's end, flushed.
LEMMA RedactsWhole ==
    ASSUME NEW text \in Seq(Characters)
    PROVE  /\ RedactFinal(text) = Flushed(Scanned(text)[Len(text)])
           /\ RedactFinal(text) \in Seq(Shown)
<1>1. Len(text) \in 0..Len(text)
  OBVIOUS
<1> QED BY <1>1, ScanTypes, FlushedIs DEF RedactFinal, Flushed

-----------------------------------------------------------------------------
(***************************************************************************)
(* A redaction is settled once a word has begun: w, what the text amounted *)
(* to at a boundary, is then settled itself or already contradicted.       *)
(***************************************************************************)
Resolved(w, state) == IsPrefix(w, state.out)

Refuted(w, state) ==
    \/ \E i \in 1..Len(w) : i <= Len(state.out) /\ state.out[i] # w[i]
    \/ state.in = Key /\ Len(state.out) + 1 <= Len(w) /\ w[Len(state.out) + 1] = Space

\* The match that was in progress at the boundary still is.
Pending(from, state) ==
    /\ state.in = from.in /\ state.out = from.out
    /\ state.in \in {Key, Digit, "number"}
    /\ state.in \in {Key, Digit} => IsPrefix(from.held, state.held)

\* At the boundary itself nothing has changed yet.
LEMMA AtFirst ==
    ASSUME NEW from \in Scanners, HeldIs(from)
    PROVE  Resolved(Flushed(from), from) \/ Pending(from, from)
<1>1. from.in \in {"text", "value", "number", Key, Digit} /\ from.out \in Seq(Shown) /\ from.held \in Seq(Characters)
  BY ScannersAre
<1>2. CASE from.in \in {"text", "value"}
  <2>1. from.held = << >>
    BY <1>2 DEF HeldIs
  <2>2. Flushed(from) = from.out
    BY <1>1, <2>1 DEF Flushed
  <2> QED BY <1>1, <2>2, PrefixSelf DEF Resolved
<1>3. CASE from.in \in {"number", Key, Digit}
  BY <1>1, <1>3, PrefixSelf DEF Pending
<1> QED BY <1>1, <1>2, <1>3

\* What is settled stays settled, and what is contradicted stays so.
LEMMA StaysResolved ==
    ASSUME NEW w \in Seq(Shown), NEW state \in Scanners, HeldIs(state), NEW c \in Characters, Resolved(w, state)
    PROVE  Resolved(w, Scan(state, c))
<1>1. state.out \in Seq(Shown) /\ Scan(state, c).out \in Seq(Shown)
  BY ScanIs, ScannersAre
<1>2. IsPrefix(w, state.out) /\ IsPrefix(state.out, Scan(state, c).out)
  BY ScanIs DEF Resolved
<1> QED BY <1>1, <1>2, PrefixTrans DEF Resolved

LEMMA StaysRefuted ==
    ASSUME NEW w \in Seq(Shown), NEW state \in Scanners, HeldIs(state), NEW c \in Characters, Refuted(w, state)
    PROVE  Refuted(w, Scan(state, c))
<1> DEFINE next == Scan(state, c)
           out == state.out
           held == state.held
<1>1. /\ next \in Scanners /\ next.out \in Seq(Shown) /\ IsPrefix(out, next.out)
      /\ out \in Seq(Shown) /\ held \in Seq(Characters)
  BY ScanIs, ScannersAre
<1>2. Len(out) <= Len(next.out) /\ \A i \in 1..Len(out) : out[i] = next.out[i]
  <2> HIDE DEF out, next
  <2> QED BY <1>1, PrefixIs
<1>3. Len(out) \in Nat /\ Len(next.out) \in Nat /\ Len(w) \in Nat /\ Len(held) \in Nat
  BY <1>1
<1>4. CASE \E i \in 1..Len(w) : i <= Len(out) /\ out[i] # w[i]
  <2>1. PICK i \in 1..Len(w) : i <= Len(out) /\ out[i] # w[i]
    BY <1>4
  <2> HIDE DEF out, next
  <2>2. i <= Len(next.out) /\ next.out[i] # w[i]
    BY <1>2, <1>3, <2>1
  <2> QED BY <2>2 DEF Refuted, next
<1>5. CASE state.in = Key /\ Len(out) + 1 <= Len(w) /\ w[Len(out) + 1] = Space
  <2> DEFINE i == Len(out) + 1
  <2>1. i \in 1..Len(w) /\ w[i] = Space
    BY <1>3, <1>5
  <2>2. held # << >> /\ held[1] = Key /\ 1 \in 1..Len(held)
    BY <1>1, <1>5 DEF HeldIs
  <2>3. CASE Restarts(state, c)
    <3>1. c = Space
      BY <1>5, <2>3 DEF Restarts, Key, Digit
    <3> DEFINE flushed == Flushed(state)
    <3>2. next.out = Append(flushed, c)
      <4>1. next = [out |-> IF c \in {Key, Digit} THEN flushed ELSE Append(flushed, c),
                    held |-> IF c \in {Key, Digit} THEN <<c>> ELSE << >>,
                    in |-> IF c \in {Key, Digit} THEN c ELSE "text"]
        BY <2>3, ScanCases
      <4>2. c \notin {Key, Digit}
        BY <3>1 DEF Key, Digit, Space
      <4> HIDE DEF next, flushed
      <4> QED BY <4>1, <4>2
    <3>3. flushed \in Seq(Shown) /\ Len(flushed) = Len(out) + Len(held) /\ flushed[i] = Key
      BY <2>2, FlushedIs
    <3> HIDE DEF flushed, next, out, held
    <3>4. c \in Shown
      BY DEF Shown
    <3>5. i \in 1..Len(flushed)
      BY <1>3, <2>2, <3>3
    <3>6. next.out[i] = Key /\ Len(next.out) = Len(flushed) + 1
      <4>1. /\ Len(Append(flushed, c)) = Len(flushed) + 1
            /\ \A j \in 1..Len(flushed) : Append(flushed, c)[j] = flushed[j]
        BY <3>3, <3>4, AppendIs
      <4> HIDE DEF i
      <4> QED BY <3>2, <3>3, <3>5, <4>1
    <3>7. i <= Len(next.out)
      BY <1>3, <3>3, <3>5, <3>6
    <3> HIDE DEF i
    <3>8. next.out[i] # w[i]
      BY <2>1, <3>6 DEF Key, Space
    <3> QED BY <2>1, <3>7, <3>8 DEF Refuted, next
  <2>4. CASE ~Restarts(state, c) /\ c # Space
    <3>1. next.out = Append(out, Redacted)
      <4>1. state.in # "value" /\ state.in # Digit /\ state.in # "number"
        BY <1>5 DEF Key, Digit
      <4>2. next = [out |-> Append(out, Redacted), held |-> << >>, in |-> "value"]
        BY <2>4, <4>1, ScanCases
      <4> HIDE DEF next
      <4> QED BY <4>2
    <3>2. Redacted \in Shown
      BY DEF Shown
    <3>3. next.out[i] = Redacted /\ Len(next.out) = i
      BY <1>1, <3>1, <3>2, AppendIs
    <3> HIDE DEF next, out
    <3>4. i <= Len(next.out)
      BY <1>3, <3>3
    <3> HIDE DEF i
    <3>5. next.out[i] # w[i]
      BY <2>1, <3>3 DEF Redacted, Space
    <3> QED BY <2>1, <3>4, <3>5 DEF Refuted, next
  <2>5. CASE ~Restarts(state, c) /\ c = Space
    <3>1. next = [state EXCEPT !.held = Append(@, c)]
      BY <1>5, <2>5, ScanCases DEF Key, Digit, Space
    <3>2. next.in = Key /\ next.out = out
      BY <1>5, <3>1, ScannersAre
    <3> HIDE DEF next, out
    <3> QED BY <1>5, <3>2 DEF Refuted, next
  <2> QED BY <2>3, <2>4, <2>5
<1> QED BY <1>4, <1>5 DEF Refuted

\* While the match is pending, a character ends it for or against w; one that
\* begins a word always does.
LEMMA Resolves ==
    ASSUME NEW from \in Scanners, HeldIs(from), NEW state \in Scanners, HeldIs(state),
           NEW c \in Characters, Pending(from, state)
    PROVE  \/ Resolved(Flushed(from), Scan(state, c)) \/ Refuted(Flushed(from), Scan(state, c))
           \/ Pending(from, Scan(state, c)) /\ c \notin {Key, Letter}
<1> DEFINE next == Scan(state, c)
           out == state.out
           held == state.held
           was == from.held
           w == Flushed(from)
           flushed == Flushed(state)
<1>1. /\ next \in Scanners /\ next.out \in Seq(Shown)
      /\ out \in Seq(Shown) /\ held \in Seq(Characters) /\ was \in Seq(Characters)
  BY ScanIs, ScannersAre
<1>2. /\ w \in Seq(Shown) /\ Len(w) = Len(out) + Len(was)
      /\ \A i \in 1..Len(out) : w[i] = out[i]
      /\ \A i \in 1..Len(was) : w[Len(out) + i] = was[i]
  BY FlushedIs DEF Pending
<1>3. /\ flushed \in Seq(Shown) /\ Len(flushed) = Len(out) + Len(held)
      /\ \A i \in 1..Len(out) : flushed[i] = out[i]
      /\ \A i \in 1..Len(held) : flushed[Len(out) + i] = held[i]
  BY FlushedIs
<1>4. c \in Shown /\ Redacted \in Shown
  BY DEF Shown
<1>5. Len(out) \in Nat /\ Len(held) \in Nat /\ Len(was) \in Nat
  BY <1>1
<1>6. state.in \in {Key, Digit, "number"} /\ from.in = state.in /\ from.out = out
  BY DEF Pending
<1>7. IsPrefix(flushed, next.out) \/ ~Restarts(state, c)
  <2>1. SUFFICES ASSUME Restarts(state, c) PROVE IsPrefix(flushed, next.out)
    OBVIOUS
  <2>2. next = [out |-> IF c \in {Key, Digit} THEN flushed ELSE Append(flushed, c),
                held |-> IF c \in {Key, Digit} THEN <<c>> ELSE << >>,
                in |-> IF c \in {Key, Digit} THEN c ELSE "text"]
    BY <2>1, ScanCases
  <2>3. IsPrefix(flushed, flushed) /\ IsPrefix(flushed, Append(flushed, c))
    <3> HIDE DEF flushed
    <3> QED BY <1>3, <1>4, PrefixSelf, AppendIs
  <2> HIDE DEF next, flushed
  <2> QED BY <2>2, <2>3
\* What is held now has what was held at the boundary.
<1>8. IsPrefix(was, held) => IsPrefix(w, flushed)
  <2>1. SUFFICES ASSUME IsPrefix(was, held) PROVE IsPrefix(w, flushed)
    OBVIOUS
  <2> HIDE DEF next, out, held, was, w, flushed
  <2>2. Len(was) <= Len(held) /\ \A i \in 1..Len(was) : was[i] = held[i]
    BY <1>1, <2>1, PrefixIs
  <2>3. Len(w) <= Len(flushed)
    BY <1>2, <1>3, <1>5, <2>2
  <2>4. ASSUME NEW i \in 1..Len(w) PROVE w[i] = flushed[i]
    <3>1. CASE i <= Len(out)
      <4>1. i \in 1..Len(out)
        BY <1>2, <1>5, <3>1
      <4> QED BY <1>2, <1>3, <4>1
    <3>2. CASE ~(i <= Len(out))
      <4> DEFINE j == i - Len(out)
      <4>1. j \in 1..Len(was) /\ j \in 1..Len(held) /\ i = Len(out) + j
        BY <1>2, <1>5, <2>2, <3>2
      <4> HIDE DEF j
      <4> QED BY <1>2, <1>3, <2>2, <4>1
    <3> QED BY <3>1, <3>2
  <2> QED BY <1>2, <1>3, <2>3, <2>4, PrefixIs
<1>9. IsPrefix(was, held) /\ Restarts(state, c) => Resolved(w, next)
  <2>1. SUFFICES ASSUME IsPrefix(was, held), Restarts(state, c) PROVE Resolved(w, next)
    OBVIOUS
  <2>2. IsPrefix(w, flushed) /\ IsPrefix(flushed, next.out)
    BY <1>7, <1>8, <2>1
  <2> HIDE DEF next, w, flushed
  <2> QED BY <1>1, <1>2, <1>3, <2>2, PrefixTrans DEF Resolved
<1>10. CASE state.in \in {Key, Digit}
  <2>1. IsPrefix(was, held)
    BY <1>10 DEF Pending
  <2>2. was # << >> /\ was[1] = state.in /\ 1 \in 1..Len(was)
    BY <1>1, <1>6, <1>10 DEF HeldIs
  <2>3. CASE Restarts(state, c)
    BY <1>9, <2>1, <2>3
  <2>4. CASE ~Restarts(state, c) /\ c # Space
    <3>1. next.out = Append(out, Redacted)
      <4>1. state.in # "value" /\ state.in # "number"
        BY <1>10 DEF Key, Digit
      <4>2. next.out = Append(out, Redacted)
        BY <2>4, <4>1, ScanCases
      <4> QED BY <4>2
    <3> DEFINE i == Len(out) + 1
    <3> HIDE DEF next, out, w, was
    <3>2. i \in 1..Len(w) /\ w[i] = state.in
      BY <1>2, <1>5, <2>2
    <3>3. next.out[i] = Redacted /\ Len(next.out) = i
      BY <1>1, <1>4, <3>1, AppendIs
    <3>4. i <= Len(next.out)
      BY <1>5, <3>3
    <3> HIDE DEF i
    <3>5. next.out[i] # w[i]
      BY <1>10, <3>2, <3>3 DEF Redacted, Key, Digit
    <3>6. Refuted(w, next)
      BY <3>2, <3>4, <3>5 DEF Refuted
    <3> QED BY <3>6 DEF next, w
  <2>5. CASE ~Restarts(state, c) /\ c = Space
    <3>1. next = [state EXCEPT !.held = Append(@, c)]
      <4>1. state.in # "value" /\ c # Digit
        BY <1>10, <2>5 DEF Key, Digit, Space
      <4> QED BY <2>5, <4>1, ScanCases
    <3>2. next.in = state.in /\ next.out = out /\ next.held = Append(held, c)
      BY <3>1, ScannersAre
    <3>3. IsPrefix(was, Append(held, c))
      <4> HIDE DEF was, held
      <4>1. IsPrefix(held, Append(held, c)) /\ Append(held, c) \in Seq(Characters)
        BY <1>1, AppendIs
      <4> QED BY <1>1, <2>1, <4>1, PrefixTrans
    <3>4. Pending(from, next)
      <4> HIDE DEF next
      <4> QED BY <1>6, <3>2, <3>3 DEF Pending
    <3>5. c \notin {Key, Letter}
      BY <2>5 DEF Key, Letter, Space
    <3> QED BY <3>4, <3>5
  <2> QED BY <2>3, <2>4, <2>5
<1>11. CASE state.in = "number"
  <2>1. /\ \A i \in 1..Len(was) : was[i] = Space
        /\ \A i \in 1..Len(held) : held[i] = Space
    BY <1>6, <1>11 DEF HeldIs
  <2>2. CASE Restarts(state, c) /\ Len(was) <= Len(held)
    <3>1. \A i \in 1..Len(was) : was[i] = held[i]
      BY <1>5, <2>1, <2>2
    <3>2. IsPrefix(was, held)
      <4> HIDE DEF was, held
      <4> QED BY <1>1, <2>2, <3>1, PrefixIs
    <3> QED BY <1>9, <2>2, <3>2
  <2>3. CASE Restarts(state, c) /\ Len(held) < Len(was)
    <3> DEFINE i == Len(flushed) + 1
    <3>1. i \in 1..Len(w) /\ i = Len(out) + (Len(held) + 1) /\ Len(held) + 1 \in 1..Len(was)
      <4> HIDE DEF out, held, was, w, flushed
      <4> QED BY <1>2, <1>3, <1>5, <2>3
    <3>2. w[i] = Space
      <4> HIDE DEF i, out, held, was, w, flushed
      <4> QED BY <1>2, <2>1, <3>1
    <3>3. c # Space
      BY <1>11, <2>3 DEF Restarts, OfNumber, Key, Digit
    <3>4. c # Digit
      BY <1>11, <2>3 DEF Restarts, OfNumber, Key, Digit
    <3>5. next = [out |-> IF c \in {Key, Digit} THEN flushed ELSE Append(flushed, c),
                  held |-> IF c \in {Key, Digit} THEN <<c>> ELSE << >>,
                  in |-> IF c \in {Key, Digit} THEN c ELSE "text"]
      BY <2>3, ScanCases
    <3> HIDE DEF next, out, held, was, w, flushed
    <3>6. CASE c = Key
      <4>1. next.in = Key /\ next.out = flushed
        BY <3>5, <3>6
      <4>2. i <= Len(w)
        BY <1>2, <3>1
      <4>3. Refuted(w, next)
        BY <3>2, <4>1, <4>2 DEF Refuted
      <4> QED BY <4>3 DEF next, w
    <3>7. CASE c # Key
      <4>1. next.out = Append(flushed, c)
        BY <3>4, <3>5, <3>7
      <4>2. next.out[i] = c /\ Len(next.out) = i
        BY <1>3, <1>4, <4>1, AppendIs
      <4>3. i <= Len(next.out)
        BY <3>1, <4>2
      <4> HIDE DEF i
      <4>4. Refuted(w, next)
        BY <3>1, <3>2, <3>3, <4>2, <4>3 DEF Refuted
      <4> QED BY <4>4 DEF next, w
    <3> QED BY <3>6, <3>7
  <2>4. CASE ~Restarts(state, c)
    <3>1. c \in {Digit, Space}
      BY <1>11, <2>4 DEF Restarts, OfNumber
    <3>2. next.out = out /\ next.in = "number"
      <4>1. state.in # "value" /\ state.in # Key /\ state.in # Digit
        BY <1>11 DEF Key, Digit
      <4>2. next = [state EXCEPT !.held = << >>] \/ next = [state EXCEPT !.held = Append(@, c)]
        BY <2>4, <4>1, ScanCases
      <4> QED BY <1>11, <4>2, ScannersAre
    <3>3. Pending(from, next)
      <4> HIDE DEF next
      <4> QED BY <1>6, <1>11, <3>2 DEF Pending, Key, Digit
    <3>4. c \notin {Key, Letter}
      BY <3>1 DEF Key, Letter, Digit, Space
    <3> QED BY <3>3, <3>4
  <2> QED BY <1>5, <2>2, <2>3, <2>4
<1> QED BY <1>6, <1>10, <1>11

\* What is contradicted is no prefix of the redaction so far.
LEMMA RefutedIsNoPrefix ==
    ASSUME NEW w \in Seq(Shown), NEW state \in Scanners, HeldIs(state), Refuted(w, state)
    PROVE  ~IsPrefix(w, Flushed(state))
<1> DEFINE out == state.out
           held == state.held
           flushed == Flushed(state)
<1>1. out \in Seq(Shown) /\ held \in Seq(Characters)
  BY ScannersAre
<1>2. /\ flushed \in Seq(Shown) /\ Len(flushed) = Len(out) + Len(held)
      /\ \A i \in 1..Len(out) : flushed[i] = out[i]
      /\ \A i \in 1..Len(held) : flushed[Len(out) + i] = held[i]
  BY FlushedIs
<1>3. Len(out) \in Nat /\ Len(held) \in Nat /\ Len(w) \in Nat
  BY <1>1
<1>4. SUFFICES ASSUME Len(w) <= Len(flushed) /\ \A i \in 1..Len(w) : w[i] = flushed[i] PROVE FALSE
  <2>1. IsPrefix(w, flushed) <=> Len(w) <= Len(flushed) /\ \A i \in 1..Len(w) : w[i] = flushed[i]
    <3> HIDE DEF flushed
    <3> QED BY <1>2, PrefixIs
  <2> QED BY <2>1
<1>5. CASE \E i \in 1..Len(w) : i <= Len(out) /\ out[i] # w[i]
  <2> HIDE DEF out, held, flushed
  <2> QED BY <1>2, <1>3, <1>4, <1>5
<1>6. CASE state.in = Key /\ Len(out) + 1 <= Len(w) /\ w[Len(out) + 1] = Space
  <2>1. held # << >> /\ held[1] = Key /\ 1 \in 1..Len(held)
    BY <1>1, <1>6 DEF HeldIs
  <2>2. Len(out) + 1 \in 1..Len(w)
    BY <1>3, <1>6
  <2> HIDE DEF out, held, flushed
  <2>3. flushed[Len(out) + 1] = Key
    BY <1>2, <2>1
  <2> QED BY <1>4, <1>6, <2>2, <2>3 DEF Key, Space
<1> QED BY <1>5, <1>6 DEF Refuted

\* Where the hold-back rule finds a text settled, and a word begins within the
\* margin, what the text amounted to there is settled for good.
LEMMA SettledIsResolved ==
    ASSUME NEW text \in Seq(Characters), NEW b \in 0..Len(text), NEW m \in b..Len(text),
           IsPrefix(RedactFinal(Prefix(text, b)), RedactFinal(Prefix(text, m))),
           \E k \in (b + 1)..m : text[k] \in {Key, Letter}
    PROVE  IsPrefix(RedactFinal(Prefix(text, b)), Scanned(text)[m].out)
<1> DEFINE from == Scanned(text)[b]
           w == Flushed(from)
           Ends(n) == Resolved(w, Scanned(text)[n]) \/ Refuted(w, Scanned(text)[n])
           T == {n \in Nat : \/ Ends(n)
                             \/ Pending(from, Scanned(text)[n])
                                /\ \A k \in (b + 1)..n : text[k] \notin {Key, Letter}}
<1>1. Len(text) \in Nat /\ b \in Nat /\ m \in Nat /\ m \in 0..Len(text)
  OBVIOUS
<1>2. from \in Scanners /\ HeldIs(from) /\ w \in Seq(Shown)
  BY ScanTypes, FlushedIs
<1>3. b \in T
  <2>1. Resolved(w, from) \/ Pending(from, from)
    BY <1>2, AtFirst
  <2>2. \A k \in (b + 1)..b : text[k] \notin {Key, Letter}
    BY <1>1
  <2> QED BY <1>1, <2>1, <2>2
<1> HIDE DEF from, w
<1>4. ASSUME NEW n \in b..(m - 1), n \in T PROVE n + 1 \in T
  <2> DEFINE state == Scanned(text)[n]
             c == text[n + 1]
  <2>1. n + 1 \in 1..Len(text) /\ (n + 1) - 1 = n /\ n + 1 \in Nat /\ n \in 0..Len(text)
    BY <1>1
  <2>2. Scanned(text)[n + 1] = Scan(state, c)
    BY <1>1, <2>1, ScannedIs
  <2>3. c \in Characters /\ state \in Scanners /\ HeldIs(state)
    BY <2>1, ScanTypes
  <2> HIDE DEF state, c
  <2>4. CASE Resolved(w, state)
    <3>1. Resolved(w, Scan(state, c))
      BY <1>2, <2>3, <2>4, StaysResolved
    <3> QED BY <2>1, <2>2, <3>1
  <2>5. CASE Refuted(w, state)
    <3>1. Refuted(w, Scan(state, c))
      BY <1>2, <2>3, <2>5, StaysRefuted
    <3> QED BY <2>1, <2>2, <3>1
  <2>6. CASE Pending(from, state) /\ \A k \in (b + 1)..n : text[k] \notin {Key, Letter}
    <3>1. \/ Resolved(w, Scan(state, c)) \/ Refuted(w, Scan(state, c))
          \/ Pending(from, Scan(state, c)) /\ c \notin {Key, Letter}
      BY <1>2, <2>3, <2>6, Resolves DEF w
    <3>2. CASE Pending(from, Scan(state, c)) /\ c \notin {Key, Letter}
      <4>1. \A k \in (b + 1)..(n + 1) : text[k] \notin {Key, Letter}
        BY <1>1, <2>1, <2>6, <3>2 DEF c
      <4> QED BY <2>1, <2>2, <3>2, <4>1
    <3> QED BY <2>1, <2>2, <3>1, <3>2
  <2> QED BY <1>4, <2>4, <2>5, <2>6 DEF state
<1> HIDE DEF T
<1>5. b..m \subseteq T
  BY <1>1, <1>3, <1>4, InductiveUpTo
<1>6. Ends(m)
  BY <1>1, <1>5 DEF T
<1> DEFINE now == Scanned(text)[m]
<1>7. now \in Scanners /\ HeldIs(now)
  BY <1>1, ScanTypes
<1>8. RedactFinal(Prefix(text, b)) = w /\ RedactFinal(Prefix(text, m)) = Flushed(now)
  BY <1>1, RedactsPrefix DEF w, from
<1> HIDE DEF now
<1>9. ~Refuted(w, now)
  BY <1>2, <1>7, <1>8, RefutedIsNoPrefix
<1> QED BY <1>6, <1>8, <1>9 DEF Resolved, now

-----------------------------------------------------------------------------
(***************************************************************************)
(* Citation markers.                                                       *)
(***************************************************************************)
\* The equation that gives what is kept of the first n characters.
Keeps(f, chunk, n) ==
    f = [i \in 0..n |->
            IF i = 0 THEN << >>
            ELSE IF InMarker(chunk, i) THEN f[i - 1] ELSE Append(f[i - 1], chunk[i])]

\* The recursion of StripMarkers has a solution.
LEMMA KeptExists ==
    ASSUME NEW chunk, NEW n \in Nat
    PROVE  \E f : Keeps(f, chunk, n)
<1> DEFINE T == {k \in Nat : \E f : Keeps(f, chunk, k)}
           Goes(a, i) == IF InMarker(chunk, i) THEN a ELSE Append(a, chunk[i])
<1>1. 0 \in T
  <2>1. Keeps([i \in 0..0 |-> << >>], chunk, 0)
    BY DEF Keeps
  <2> QED BY <2>1
<1>2. ASSUME NEW k \in Nat, k \in T PROVE k + 1 \in T
  <2>1. PICK f : Keeps(f, chunk, k)
    BY <1>2
  <2>2. f = [i \in 0..k |-> IF i = 0 THEN << >> ELSE Goes(f[i - 1], i)]
    BY <2>1 DEF Keeps
  <2> HIDE DEF Goes
  <2> DEFINE g == [i \in 0..(k + 1) |-> IF i <= k THEN f[i] ELSE Goes(f[k], k + 1)]
  <2>3. ASSUME NEW i \in 0..(k + 1)
        PROVE  g[i] = IF i = 0 THEN << >> ELSE Goes(g[i - 1], i)
    <3>1. CASE i = 0
      BY <2>2, <3>1
    <3>2. CASE i # 0 /\ i <= k
      <4>1. i \in 0..k /\ i - 1 \in 0..k /\ i - 1 \in 0..(k + 1) /\ i - 1 <= k
        BY <3>2
      <4>2. f[i] = Goes(f[i - 1], i)
        BY <2>2, <3>2, <4>1
      <4>3. g[i] = f[i] /\ g[i - 1] = f[i - 1]
        BY <3>2, <4>1
      <4> QED BY <3>2, <4>2, <4>3
    <3>3. CASE i = k + 1
      <4>1. k \in 0..(k + 1) /\ i - 1 = k /\ i # 0 /\ ~(i <= k)
        BY <3>3
      <4>2. g[i] = Goes(f[k], k + 1) /\ g[k] = f[k]
        BY <3>3, <4>1
      <4> QED BY <3>3, <4>1, <4>2
    <3> QED BY <3>1, <3>2, <3>3
  <2>4. g = [i \in 0..(k + 1) |-> g[i]]
    OBVIOUS
  <2> HIDE DEF g
  <2>5. g = [i \in 0..(k + 1) |-> IF i = 0 THEN << >> ELSE Goes(g[i - 1], i)]
    BY <2>3, <2>4
  <2>6. Keeps(g, chunk, k + 1)
    BY <2>5 DEF Keeps, Goes
  <2> QED BY <2>6
<1> HIDE DEF T
<1>3. n \in T
  BY <1>1, <1>2, Inductive
<1> QED BY <1>3 DEF T

\* So StripMarkers is what its definition says at every character.
LEMMA StripMarkersIs ==
    ASSUME NEW chunk, Len(chunk) \in Nat
    PROVE  \E f : /\ f[0] = << >> /\ StripMarkers(chunk) = f[Len(chunk)]
                  /\ \A n \in 1..Len(chunk) :
                        f[n] = IF InMarker(chunk, n) THEN f[n - 1] ELSE Append(f[n - 1], chunk[n])
<1> DEFINE f == CHOOSE g : Keeps(g, chunk, Len(chunk))
<1>1. StripMarkers(chunk) = f[Len(chunk)]
  BY DEF StripMarkers, Keeps
<1>2. Keeps(f, chunk, Len(chunk))
  BY KeptExists
<1> HIDE DEF f
<1>3. f = [i \in 0..Len(chunk) |->
             IF i = 0 THEN << >>
             ELSE IF InMarker(chunk, i) THEN f[i - 1] ELSE Append(f[i - 1], chunk[i])]
  BY <1>2 DEF Keeps
<1>4. 0 \in 0..Len(chunk) /\ \A n \in 1..Len(chunk) : n \in 0..Len(chunk) /\ n # 0
  OBVIOUS
<1>5. f[0] = << >> /\ \A n \in 1..Len(chunk) :
                        f[n] = IF InMarker(chunk, n) THEN f[n - 1] ELSE Append(f[n - 1], chunk[n])
  BY <1>3, <1>4
<1> QED BY <1>1, <1>5

\* One element between two sequences, position by position.
LEMMA ConsIs ==
    ASSUME NEW S, NEW x \in Seq(S), NEW c \in S, NEW y \in Seq(S)
    PROVE  LET s == x \o (<<c>> \o y)
           IN  /\ s \in Seq(S) /\ Len(s) = Len(x) + 1 + Len(y)
               /\ \A i \in 1..Len(x) : s[i] = x[i]
               /\ s[Len(x) + 1] = c
               /\ \A i \in 1..Len(y) : s[Len(x) + 1 + i] = y[i]
<1> DEFINE z == <<c>> \o y
<1>1. <<c>> \in Seq(S) /\ Len(<<c>>) = 1 /\ <<c>>[1] = c /\ 1 \in 1..Len(<<c>>)
  OBVIOUS
<1>2. Len(x) \in Nat /\ Len(y) \in Nat
  OBVIOUS
<1>3. /\ z \in Seq(S) /\ Len(z) = 1 + Len(y) /\ z[1] = c
      /\ \A i \in 1..Len(y) : z[1 + i] = y[i]
  BY <1>1, ConcatIs
<1> HIDE DEF z
<1>4. /\ x \o z \in Seq(S) /\ Len(x \o z) = Len(x) + Len(z)
      /\ \A i \in 1..Len(x) : (x \o z)[i] = x[i]
      /\ \A i \in 1..Len(z) : (x \o z)[Len(x) + i] = z[i]
  <2>1. z \in Seq(S)
    BY <1>3
  <2> QED BY <2>1, ConcatIs
<1>5. (x \o z)[Len(x) + 1] = c
  <2>1. 1 \in 1..Len(z)
    BY <1>2, <1>3
  <2> QED BY <1>3, <1>4, <2>1
<1>6. ASSUME NEW i \in 1..Len(y) PROVE (x \o z)[Len(x) + 1 + i] = y[i]
  <2>1. 1 + i \in 1..Len(z) /\ Len(x) + 1 + i = Len(x) + (1 + i)
    BY <1>2, <1>3
  <2> QED BY <1>3, <1>4, <2>1
<1>7. Len(x \o z) = Len(x) + 1 + Len(y)
  BY <1>2, <1>3, <1>4
<1> QED BY <1>4, <1>5, <1>6, <1>7 DEF z

\* Appending to the second of two sequences appends to both.
LEMMA AppendMoves ==
    ASSUME NEW S, NEW u \in Seq(S), NEW s \in Seq(S), NEW c \in S
    PROVE  u \o Append(s, c) = (u \o s) \o <<c>>
<1>1. <<c>> \in Seq(S)
  OBVIOUS
<1>2. Append(s, c) = s \o <<c>>
  BY AppendIsConcat
<1> DEFINE d == <<c>>
<1> HIDE DEF d
<1>3. d \in Seq(S)
  BY <1>1 DEF d
<1>4. (u \o s) \o d = u \o (s \o d)
  BY <1>3, ConcatAssociative
<1> QED BY <1>2, <1>4 DEF d

\* A character that begins no word may go: the words come no later.
LEMMA WordedWithout ==
    ASSUME NEW x \in Seq(Characters), NEW c \in Characters, NEW y \in Seq(Characters),
           c \notin {Key, Letter}, Worded(x \o (<<c>> \o y))
    PROVE  Worded(x \o y)
<1> DEFINE s == x \o (<<c>> \o y)
           t == x \o y
           n == Len(x)
<1>1. /\ s \in Seq(Characters) /\ Len(s) = n + 1 + Len(y)
      /\ \A i \in 1..n : s[i] = x[i]
      /\ s[n + 1] = c
      /\ \A i \in 1..Len(y) : s[n + 1 + i] = y[i]
  BY ConsIs
<1>2. /\ t \in Seq(Characters) /\ Len(t) = n + Len(y)
      /\ \A i \in 1..n : t[i] = x[i]
      /\ \A i \in 1..Len(y) : t[n + i] = y[i]
  BY ConcatIs
<1>3. n \in Nat /\ Len(y) \in Nat /\ Margin \in Nat
  BY RedactorAssumption
<1>4. Worded(s)
  OBVIOUS
<1> HIDE DEF s, t
<1>5. ASSUME NEW i \in 1..Len(y) PROVE t[n + i] = s[n + 1 + i]
  BY <1>1, <1>2
<1>6. \A i \in 1..Len(t) : t[i] = IF i <= n THEN s[i] ELSE s[i + 1]
  <2> TAKE i \in 1..Len(t)
  <2>1. CASE i <= n
    BY <1>1, <1>2, <1>3, <2>1
  <2>2. CASE ~(i <= n)
    <3>1. i - n \in 1..Len(y) /\ n + (i - n) = i /\ n + 1 + (i - n) = i + 1
      BY <1>2, <1>3, <2>2
    <3>2. t[n + (i - n)] = s[n + 1 + (i - n)]
      BY <1>5, <3>1
    <3> QED BY <2>2, <3>1, <3>2
  <2> QED BY <2>1, <2>2
<1> HIDE DEF n
<1>7. ASSUME NEW b \in 1..Len(t), t[b] = Space, b + Margin <= Len(t)
      PROVE  \E k \in (b + 1)..(b + Margin) : t[k] \in {Key, Letter}
  <2>1. CASE b <= n
    <3>1. s[b] = Space /\ b \in 1..Len(s) /\ b + Margin <= Len(s)
      BY <1>1, <1>2, <1>3, <1>6, <1>7, <2>1
    <3>2. PICK k \in (b + 1)..(b + Margin) : s[k] \in {Key, Letter}
      BY <1>4, <3>1 DEF Worded
    <3>3. k # n + 1
      BY <1>1, <3>2
    <3>4. CASE k <= n
      <4>1. k \in 1..Len(t)
        BY <1>2, <1>3, <3>4
      <4>2. t[k] = s[k]
        BY <1>6, <3>4, <4>1
      <4> QED BY <3>2, <4>2
    <3>5. CASE k > n + 1
      <4>1. /\ k - 1 \in 1..Len(t) /\ ~(k - 1 <= n) /\ (k - 1) + 1 = k
            /\ k - 1 \in (b + 1)..(b + Margin)
        BY <1>2, <1>3, <1>7, <2>1, <3>5
      <4>2. t[k - 1] = s[k]
        BY <1>6, <4>1
      <4> QED BY <3>2, <4>1, <4>2
    <3> QED BY <1>3, <3>3, <3>4, <3>5
  <2>2. CASE ~(b <= n)
    <3>1. s[b + 1] = Space /\ b + 1 \in 1..Len(s) /\ (b + 1) + Margin <= Len(s)
      BY <1>1, <1>2, <1>3, <1>6, <1>7, <2>2
    <3>2. PICK k \in ((b + 1) + 1)..((b + 1) + Margin) : s[k] \in {Key, Letter}
      BY <1>4, <3>1 DEF Worded
    <3>3. /\ k - 1 \in 1..Len(t) /\ ~(k - 1 <= n) /\ (k - 1) + 1 = k
          /\ k - 1 \in (b + 1)..(b + Margin)
      BY <1>2, <1>3, <1>7, <2>2
    <3>4. t[k - 1] = s[k]
      BY <1>6, <3>3
    <3> QED BY <3>2, <3>3, <3>4
  <2> QED BY <1>3, <2>1, <2>2
<1>8. Worded(t)
  BY <1>7 DEF Worded
<1> QED BY <1>8 DEF t

\* Stripping the markers of a chunk leaves a text of words one.
LEMMA StripIs ==
    ASSUME NEW chunk \in Seq(Characters)
    PROVE  /\ StripMarkers(chunk) \in Seq(Characters)
           /\ \A u, v \in Seq(Characters) :
                 Worded(u \o (chunk \o v)) => Worded((u \o StripMarkers(chunk)) \o v)
<1> DEFINE len == Len(chunk)
           Rest(n) == SubSeq(chunk, n + 1, len)
<1>1. len \in Nat
  OBVIOUS
<1>2. PICK f : /\ f[0] = << >> /\ StripMarkers(chunk) = f[len]
               /\ \A n \in 1..len : f[n] = IF InMarker(chunk, n) THEN f[n - 1] ELSE Append(f[n - 1], chunk[n])
  BY <1>1, StripMarkersIs
<1>3. ASSUME NEW n \in 0..len
      PROVE  /\ Rest(n) \in Seq(Characters) /\ Len(Rest(n)) = len - n
             /\ \A i \in 1..(len - n) : Rest(n)[i] = chunk[n + i]
  BY <1>1
<1>4. ASSUME NEW n \in 0..(len - 1) PROVE Rest(n) = <<chunk[n + 1]>> \o Rest(n + 1)
  <2> DEFINE c == chunk[n + 1]
             a == Rest(n)
             b == Rest(n + 1)
  <2>1. n \in 0..len /\ n + 1 \in 0..len /\ n + 1 \in 1..len
    BY <1>1
  <2>2. a \in Seq(Characters) /\ Len(a) = len - n /\ \A i \in 1..(len - n) : a[i] = chunk[n + i]
    BY <1>3, <2>1
  <2>3. b \in Seq(Characters) /\ Len(b) = len - (n + 1) /\ \A i \in 1..(len - (n + 1)) : b[i] = chunk[(n + 1) + i]
    BY <1>3, <2>1
  <2>4. c \in Characters
    BY <2>1
  <2> HIDE DEF a, b, c, Rest
  <2>5. <<c>> \in Seq(Characters) /\ Len(<<c>>) = 1 /\ <<c>>[1] = c /\ 1 \in 1..Len(<<c>>)
    BY <2>4
  <2>6. b \in Seq(Characters)
    BY <2>3
  <2> DEFINE d == <<c>> \o b
  <2>7. /\ d \in Seq(Characters) /\ Len(d) = Len(<<c>>) + Len(b)
        /\ \A i \in 1..Len(<<c>>) : d[i] = <<c>>[i]
        /\ \A i \in 1..Len(b) : d[Len(<<c>>) + i] = b[i]
    BY <2>5, <2>6, ConcatIs
  <2> HIDE DEF d
  <2>8. Len(d) = Len(a)
    BY <1>1, <2>1, <2>2, <2>3, <2>5, <2>7
  <2>9. ASSUME NEW i \in 1..Len(a) PROVE d[i] = a[i]
    <3>1. CASE i = 1
      BY <1>1, <2>1, <2>2, <2>5, <2>7, <3>1 DEF c
    <3>2. CASE i # 1
      <4>1. i - 1 \in 1..Len(b) /\ Len(<<c>>) + (i - 1) = i /\ (n + 1) + (i - 1) = n + i /\ i \in 1..(len - n)
            /\ i - 1 \in 1..(len - (n + 1))
        BY <1>1, <2>2, <2>3, <2>5, <3>2
      <4>2. d[Len(<<c>>) + (i - 1)] = b[i - 1]
        BY <2>7, <4>1
      <4>3. b[i - 1] = chunk[(n + 1) + (i - 1)] /\ a[i] = chunk[n + i]
        BY <2>2, <2>3, <4>1
      <4> QED BY <4>1, <4>2, <4>3
    <3> QED BY <3>1, <3>2
  <2>10. d = a
    BY <2>2, <2>7, <2>8, <2>9, SeqEqual
  <2> QED BY <2>10 DEF a, b, c, d
<1>5. Rest(0) = chunk /\ Rest(len) = << >>
  BY <1>1
<1>6. ASSUME NEW n \in 1..len PROVE chunk[n] \in Characters /\ (InMarker(chunk, n) => chunk[n] \notin {Key, Letter})
  BY DEF InMarker, Open, Close, Key, Letter
<1> HIDE DEF Rest
<1> DEFINE T == {n \in Nat : f[n] \in Seq(Characters)}
<1>7. 0 \in T
  <2>1. << >> \in Seq(Characters)
    OBVIOUS
  <2> QED BY <1>2, <2>1
<1>8. ASSUME NEW n \in 0..(len - 1), n \in T PROVE n + 1 \in T
  <2>1. n + 1 \in 1..len /\ (n + 1) - 1 = n /\ n + 1 \in Nat
    BY <1>1
  <2>2. f[n] \in Seq(Characters)
    BY <1>8
  <2>3. Append(f[n], chunk[n + 1]) \in Seq(Characters)
    BY <1>6, <2>1, <2>2, AppendIs
  <2>4. f[n + 1] = IF InMarker(chunk, n + 1) THEN f[n] ELSE Append(f[n], chunk[n + 1])
    BY <1>2, <2>1
  <2> QED BY <2>1, <2>2, <2>3, <2>4
<1> HIDE DEF T, len
<1>9. 0..len \subseteq T
  BY <1>1, <1>7, <1>8, InductiveUpTo
<1>10. ASSUME NEW n \in 0..len PROVE f[n] \in Seq(Characters)
  BY <1>9 DEF T
<1>11. ASSUME NEW u \in Seq(Characters), NEW v \in Seq(Characters), Worded(u \o (chunk \o v))
       PROVE  Worded((u \o StripMarkers(chunk)) \o v)
  <2> DEFINE W == {n \in Nat : Worded((u \o f[n]) \o (Rest(n) \o v))}
  <2>1. 0 \in W
    <3>1. u \o f[0] = u
      BY <1>2, ConcatEmptySeq
    <3> QED BY <1>5, <1>11, <3>1
  <2>2. ASSUME NEW n \in 0..(len - 1), n \in W PROVE n + 1 \in W
    <3> DEFINE c == chunk[n + 1]
               x == u \o f[n]
               y == Rest(n + 1) \o v
    <3>1. n + 1 \in 1..len /\ (n + 1) - 1 = n /\ n + 1 \in Nat /\ n \in 0..len /\ n + 1 \in 0..len
      BY <1>1
    <3>2. c \in Characters /\ f[n] \in Seq(Characters) /\ Rest(n + 1) \in Seq(Characters)
      BY <1>3, <1>6, <1>10, <3>1
    <3>3. <<c>> \in Seq(Characters)
      BY <3>2
    <3>4. x \in Seq(Characters) /\ y \in Seq(Characters)
      BY <3>2, ConcatIs
    <3>5. Rest(n) \o v = <<c>> \o y
      <4>1. Rest(n) = <<c>> \o Rest(n + 1)
        BY <1>4
      <4> HIDE DEF c
      <4> QED BY <3>2, <3>3, <4>1, ConcatAssociative
    <3>6. Worded(x \o (<<c>> \o y))
      BY <2>2, <3>5
    <3>7. f[n + 1] = IF InMarker(chunk, n + 1) THEN f[n] ELSE Append(f[n], c)
      BY <1>2, <3>1
    <3>8. CASE InMarker(chunk, n + 1)
      <4>1. c \notin {Key, Letter}
        BY <1>6, <3>1, <3>8
      <4>2. Worded(x \o y)
        <5> HIDE DEF x, y, c
        <5> QED BY <3>2, <3>4, <3>6, <4>1, WordedWithout
      <4> QED BY <3>1, <3>7, <3>8, <4>2
    <3>9. CASE ~InMarker(chunk, n + 1)
      <4>2. u \o f[n + 1] = x \o <<c>>
        <5>1. c \in Characters /\ f[n] \in Seq(Characters)
          BY <3>2
        <5>2. f[n + 1] = Append(f[n], c)
          BY <3>7, <3>9
        <5> HIDE DEF c
        <5>3. u \o Append(f[n], c) = (u \o f[n]) \o <<c>>
          BY <5>1, AppendMoves
        <5> QED BY <5>2, <5>3
      <4>3. (x \o <<c>>) \o y = x \o (<<c>> \o y)
        <5> HIDE DEF x, y, c
        <5> QED BY <3>3, <3>4, ConcatAssociative
      <4> QED BY <3>1, <3>6, <4>2, <4>3
    <3> QED BY <3>8, <3>9
  <2> HIDE DEF W
  <2>3. 0..len \subseteq W
    BY <1>1, <2>1, <2>2, InductiveUpTo
  <2>4. Worded((u \o f[len]) \o (Rest(len) \o v))
    BY <1>1, <2>3 DEF W
  <2>5. Rest(len) \o v = v
    BY <1>5, ConcatEmptySeq
  <2> QED BY <1>2, <2>4, <2>5
<1>12. StripMarkers(chunk) \in Seq(Characters)
  <2>1. len \in 0..len
    BY <1>1
  <2> QED BY <1>2, <1>10, <2>1
<1> QED BY <1>11, <1>12

-----------------------------------------------------------------------------
(***************************************************************************)
(* One redactor.                                                           *)
(***************************************************************************)
\* What was shown is the redaction of what was released.
Shows(r) ==
    /\ r \in Redactors /\ r.released \in 0..Len(r.raw)
    /\ r.emitted = RedactFinal(Prefix(r.raw, r.released))

\* What was shown no further text can change.
Firm(r) == IsPrefix(r.emitted, Scanned(r.raw)[Len(r.raw)].out)

\* The record of a redactor and its fields.
LEMMA RedactorsAre ==
    ASSUME NEW r \in Redactors
    PROVE  /\ r.raw \in Seq(Characters) /\ Len(r.raw) \in Nat
           /\ r.released \in Nat /\ r.emitted \in Seq(Shown)
           /\ r = [raw |-> r.raw, released |-> r.released, emitted |-> r.emitted]
BY DEF Redactors, Shown

LEMMA RedactorsHave ==
    ASSUME NEW raw \in Seq(Characters), NEW released \in Nat, NEW emitted \in Seq(Shown)
    PROVE  LET r == [raw |-> raw, released |-> released, emitted |-> emitted]
           IN  r \in Redactors /\ r.raw = raw /\ r.released = released /\ r.emitted = emitted
BY DEF Redactors, Shown

\* A new redactor has shown nothing.
LEMMA FreshIs == Shows(Fresh) /\ Firm(Fresh) /\ Fresh.raw = << >>
<1> DEFINE none == << >>
<1>1. none \in Seq(Characters) /\ none \in Seq(Shown) /\ Len(none) = 0
  OBVIOUS
<1>2. 0 \in 0..Len(none)
  BY <1>1
<1>3. Prefix(none, 0) = none
  BY DEF Prefix
<1>4. Scanned(none)[0] = Clean
  BY <1>1, ScannedIs
<1>5. Clean.out = << >> /\ Clean.held = << >>
  BY DEF Clean
<1>6. RedactFinal(none) = << >> \o << >>
  BY <1>1, <1>4, <1>5 DEF RedactFinal
<1>7. << >> \o << >> = << >>
  BY <1>1, ConcatEmptySeq
<1>8. Fresh \in Redactors /\ Fresh.raw = none /\ Fresh.released = 0 /\ Fresh.emitted = none
  BY <1>1, RedactorsHave DEF Fresh
<1>9. IsPrefix(none, Clean.out)
  BY <1>1, <1>5, PrefixSelf
<1> HIDE DEF none
<1>10. RedactFinal(none) = none
  BY <1>6, <1>7 DEF none
<1> QED BY <1>1, <1>2, <1>3, <1>4, <1>8, <1>9, <1>10 DEF Shows, Firm, none

\* The boundary is the old one or a settled one.
LEMMA SafeBoundaryIs ==
    ASSUME NEW r \in Redactors, r.released \in 0..Len(r.raw)
    PROVE  LET b == SafeBoundary(r)
           IN  /\ b \in 0..Len(r.raw)
               /\ b = r.released \/ (b \in 1..Len(r.raw) /\ Settled(r, b))
<1> DEFINE C == {c \in 1..Len(r.raw) : Settled(r, c)}
           Latest(b) == \A c \in 1..Len(r.raw) : Settled(r, c) => c <= b
<1>1. Len(r.raw) \in Nat
  BY RedactorsAre
<1>2. \E b \in {r.released} \cup C : Latest(b)
  <2>1. CASE C = {}
    BY <2>1
  <2>2. CASE C # {}
    <3>1. PICK b \in C : \A c \in C : c <= b
      <4> HIDE DEF C
      <4>1. C \subseteq 1..Len(r.raw)
        BY DEF C
      <4> QED BY <1>1, <2>2, <4>1, LastIs
    <3> QED BY <3>1
  <2> QED BY <2>1, <2>2
<1>3. SafeBoundary(r) \in {r.released} \cup C
  <2>1. SafeBoundary(r) = CHOOSE b \in {r.released} \cup C : Latest(b)
    BY DEF SafeBoundary
  <2> HIDE DEF C, Latest
  <2> QED BY <1>2, <2>1
<1>4. ASSUME NEW c \in C PROVE c \in 0..Len(r.raw) /\ c \in 1..Len(r.raw) /\ Settled(r, c)
  BY <1>1
<1> HIDE DEF C
<1> QED BY <1>3, <1>4

\* A release shows the redaction up to the boundary, or nothing.
LEMMA ReleaseIs ==
    ASSUME NEW r, Shows(r), NEW b \in 0..Len(r.raw)
    PROVE  /\ Shows(Release(r, b)) /\ Release(r, b).raw = r.raw
           /\ IF b > r.released /\ IsPrefix(r.emitted, RedactFinal(Prefix(r.raw, b)))
              THEN Release(r, b).emitted = RedactFinal(Prefix(r.raw, b))
              ELSE Release(r, b) = r
<1>1. r \in Redactors
  BY DEF Shows
<1> DEFINE raw == r.raw
           released == r.released
           emitted == r.emitted
           redacted == RedactFinal(Prefix(raw, b))
<1>2. /\ raw \in Seq(Characters) /\ Len(raw) \in Nat
      /\ r = [raw |-> raw, released |-> released, emitted |-> emitted]
  BY <1>1, RedactorsAre
<1>3. redacted \in Seq(Shown)
  <2> HIDE DEF raw
  <2>1. Prefix(raw, b) \in Seq(Characters)
    BY <1>2, PrefixOf DEF raw
  <2> QED BY <2>1, RedactsWhole
<1>4. b \in Nat
  BY <1>2
<1>5. CASE b > released /\ IsPrefix(emitted, redacted)
  <2>1. Release(r, b) = [r EXCEPT !.released = b, !.emitted = redacted]
    BY <1>5 DEF Release
  <2>2. Release(r, b) = [raw |-> raw, released |-> b, emitted |-> redacted]
    <3> HIDE DEF raw, released, emitted, redacted
    <3> QED BY <1>2, <2>1
  <2> HIDE DEF redacted
  <2>3. /\ Release(r, b) \in Redactors /\ Release(r, b).raw = raw
        /\ Release(r, b).released = b /\ Release(r, b).emitted = redacted
    BY <1>2, <1>3, <1>4, <2>2, RedactorsHave
  <2> QED BY <1>5, <2>3 DEF Shows, redacted
<1>6. CASE ~(b > released /\ IsPrefix(emitted, redacted))
  BY <1>6 DEF Release
<1> QED BY <1>5, <1>6

\* A chunk adds to the text what is left of it, and may release more.
LEMMA PushTextIs ==
    ASSUME NEW r, Shows(r), NEW chunk \in Seq(Characters)
    PROVE  /\ Shows(PushText(r, chunk))
           /\ PushText(r, chunk).raw = r.raw \o StripMarkers(chunk)
           /\ Firm(r) /\ Worded(PushText(r, chunk).raw) => Firm(PushText(r, chunk))
<1>1. r \in Redactors /\ r.released \in 0..Len(r.raw) /\ r.emitted = RedactFinal(Prefix(r.raw, r.released))
  BY DEF Shows
<1> DEFINE raw == r.raw
           released == r.released
           emitted == r.emitted
           extra == StripMarkers(chunk)
           more == raw \o extra
           longer == [r EXCEPT !.raw = more]
<1>2. /\ raw \in Seq(Characters) /\ Len(raw) \in Nat /\ released \in Nat /\ emitted \in Seq(Shown)
      /\ r = [raw |-> raw, released |-> released, emitted |-> emitted]
  BY <1>1, RedactorsAre
<1>3. extra \in Seq(Characters)
  BY StripIs
<1> HIDE DEF extra
<1>4. /\ more \in Seq(Characters) /\ Len(more) = Len(raw) + Len(extra)
      /\ \A i \in 1..Len(raw) : more[i] = raw[i]
  BY <1>2, <1>3, ConcatIs
<1>5. Len(extra) \in Nat
  BY <1>3
<1>6. longer = [raw |-> more, released |-> released, emitted |-> emitted]
  <2> HIDE DEF raw, released, emitted, more
  <2> QED BY <1>2
<1> HIDE DEF more
<1>7. longer \in Redactors /\ longer.raw = more /\ longer.released = released /\ longer.emitted = emitted
  BY <1>2, <1>4, <1>6, RedactorsHave
<1>8. \A n \in 0..Len(raw) : n \in 0..Len(more) /\ Scanned(more)[n] = Scanned(raw)[n]
  <2> TAKE n \in 0..Len(raw)
  <2>1. n \in Nat /\ n <= Len(raw) /\ n <= Len(more) /\ n \in 0..Len(more)
    BY <1>2, <1>4, <1>5
  <2>2. \A i \in 1..n : more[i] = raw[i]
    BY <1>2, <1>4, <2>1
  <2> HIDE DEF raw
  <2> QED BY <1>2, <1>4, <2>1, <2>2, ScannedAlike
<1>9. Shows(longer)
  <2>1. released \in 0..Len(raw) /\ released \in 0..Len(more)
    BY <1>1, <1>8
  <2>2. RedactFinal(Prefix(more, released)) = RedactFinal(Prefix(raw, released))
    <3> HIDE DEF raw, released
    <3>1. RedactFinal(Prefix(raw, released)) = Flushed(Scanned(raw)[released])
      BY <1>2, <2>1, RedactsPrefix
    <3>2. RedactFinal(Prefix(more, released)) = Flushed(Scanned(more)[released])
      BY <1>4, <2>1, RedactsPrefix
    <3> QED BY <1>8, <2>1, <3>1, <3>2
  <2> HIDE DEF longer
  <2> QED BY <1>1, <1>7, <2>1, <2>2 DEF Shows
<1> DEFINE b == SafeBoundary(longer)
<1>10. PushText(r, chunk) = Release(longer, b)
  BY DEF PushText, more, extra
<1> HIDE DEF longer
<1>11. b \in 0..Len(more) /\ (b = released \/ (b \in 1..Len(more) /\ Settled(longer, b)))
  <2>1. longer.released \in 0..Len(longer.raw)
    BY <1>9 DEF Shows
  <2> QED BY <1>7, <2>1, SafeBoundaryIs
<1> HIDE DEF b
<1> DEFINE after == Release(longer, b)
           redacted == RedactFinal(Prefix(more, b))
<1>12. /\ Shows(after) /\ after.raw = more
       /\ IF b > released /\ IsPrefix(emitted, redacted) THEN after.emitted = redacted ELSE after = longer
  BY <1>7, <1>9, <1>11, ReleaseIs
<1> HIDE DEF after
<1> DEFINE settled == Scanned(more)[Len(more)].out
<1>13. ASSUME Firm(r), Worded(more) PROVE IsPrefix(after.emitted, settled)
  <2>1. CASE after = longer
    <3> DEFINE s == Scanned(raw)[Len(raw)].out
    <3>1. IsPrefix(emitted, s)
      BY <1>13 DEF Firm
    <3>2. Len(raw) \in 0..Len(raw) /\ Len(more) \in 0..Len(more) /\ Len(raw) \in 0..Len(more)
          /\ Len(raw) \in 0..Len(more) /\ Len(more) \in Nat
      BY <1>2, <1>4, <1>5
    <3>3. s = Scanned(more)[Len(raw)].out
      BY <1>8, <3>2
    <3>4. IsPrefix(s, settled) /\ s \in Seq(Shown) /\ settled \in Seq(Shown)
      <4> HIDE DEF raw, s
      <4>1. IsPrefix(Scanned(more)[Len(raw)].out, Scanned(more)[Len(more)].out)
        BY <1>4, <3>2, ScanGrows
      <4>2. Scanned(more)[Len(raw)] \in Scanners /\ Scanned(more)[Len(more)] \in Scanners
        BY <1>4, <3>2, ScanTypes
      <4> QED BY <3>3, <4>1, <4>2, ScannersAre
    <3> HIDE DEF s, settled, emitted
    <3>5. IsPrefix(emitted, settled)
      BY <1>2, <3>1, <3>4, PrefixTrans
    <3> QED BY <1>7, <2>1, <3>5
  <2>2. CASE b > released /\ after.emitted = redacted
    <3> DEFINE m == b + Margin
    <3>1. b \in 1..Len(more) /\ Settled(longer, b)
      BY <1>2, <1>11, <2>2
    <3>2. /\ b <= Len(more) - Margin /\ more[b] = Space
          /\ IsPrefix(redacted, RedactFinal(Prefix(more, m)))
      BY <1>7, <3>1 DEF Settled
    <3>3. Len(more) \in Nat /\ Margin \in Nat
      BY <1>4, RedactorAssumption
    <3>4. b + Margin <= Len(more) /\ m \in b..Len(more) /\ m \in 0..Len(more) /\ Len(more) \in 0..Len(more)
      BY <3>1, <3>2, <3>3
    <3>5. \E k \in (b + 1)..m : more[k] \in {Key, Letter}
      BY <1>13, <3>1, <3>2, <3>4 DEF Worded
    <3> HIDE DEF m
    <3>6. IsPrefix(redacted, Scanned(more)[m].out)
      BY <1>4, <1>11, <3>2, <3>4, <3>5, SettledIsResolved
    <3>7. IsPrefix(Scanned(more)[m].out, settled)
      BY <1>4, <3>4, ScanGrows
    <3>8. Scanned(more)[m].out \in Seq(Shown) /\ settled \in Seq(Shown)
      <4>1. Scanned(more)[m] \in Scanners /\ Scanned(more)[Len(more)] \in Scanners
        BY <1>4, <3>4, ScanTypes
      <4> QED BY <4>1, ScannersAre
    <3>9. redacted \in Seq(Shown)
      <4>1. Prefix(more, b) \in Seq(Characters)
        BY <1>4, <1>11, PrefixOf
      <4> QED BY <4>1, RedactsWhole
    <3> DEFINE there == Scanned(more)[m].out
    <3> HIDE DEF there, redacted, settled
    <3>10. IsPrefix(redacted, there) /\ IsPrefix(there, settled) /\ there \in Seq(Shown) /\ settled \in Seq(Shown)
      BY <3>6, <3>7, <3>8 DEF there
    <3>11. IsPrefix(redacted, settled)
      BY <3>9, <3>10, PrefixTrans
    <3> QED BY <2>2, <3>11
  <2> QED BY <1>12, <2>1, <2>2
<1> QED BY <1>10, <1>12, <1>13 DEF Firm, more, extra, after

\* At the end all of the text is released.
LEMMA FinishTextIs ==
    ASSUME NEW r, Shows(r)
    PROVE  /\ Shows(FinishText(r)) /\ FinishText(r).raw = r.raw
           /\ Firm(r) => FinishText(r).emitted = RedactFinal(r.raw)
<1> DEFINE raw == r.raw
           n == Len(raw)
           after == Release(r, n)
<1>1. r \in Redactors /\ r.released \in 0..n /\ r.emitted = RedactFinal(Prefix(raw, r.released))
  BY DEF Shows
<1>2. raw \in Seq(Characters) /\ n \in Nat /\ r.emitted \in Seq(Shown) /\ n \in 0..n
  BY <1>1, RedactorsAre
<1>3. Prefix(raw, n) = raw
  BY <1>2 DEF Prefix
<1>4. /\ Shows(after) /\ after.raw = raw
      /\ IF n > r.released /\ IsPrefix(r.emitted, RedactFinal(raw))
         THEN after.emitted = RedactFinal(raw) ELSE after = r
  BY <1>2, <1>3, ReleaseIs
<1>5. ASSUME Firm(r) PROVE after.emitted = RedactFinal(raw)
  <2> HIDE DEF after
  <2>1. CASE n > r.released
    <3> DEFINE end == Scanned(raw)[n]
               w == Flushed(end)
               e == r.emitted
               o == end.out
    <3>1. IsPrefix(e, o)
      BY <1>5 DEF Firm
    <3>2. RedactFinal(raw) = w
      BY <1>2, RedactsWhole
    <3>3. end \in Scanners
      BY <1>2, ScanTypes
    <3> HIDE DEF end
    <3>4. IsPrefix(o, w) /\ w \in Seq(Shown) /\ o \in Seq(Shown)
      BY <3>3, FlushedIs, ScannersAre
    <3> HIDE DEF e, o, w
    <3>5. e \in Seq(Shown)
      BY <1>2 DEF e
    <3>6. IsPrefix(e, w)
      BY <3>1, <3>4, <3>5, PrefixTrans
    <3> QED BY <1>4, <2>1, <3>2, <3>6 DEF e
  <2>2. CASE ~(n > r.released)
    <3>1. r.released = n
      BY <1>1, <1>2, <2>2
    <3>2. after = r
      BY <1>4, <2>2
    <3> QED BY <1>1, <1>3, <3>1, <3>2
  <2> QED BY <2>1, <2>2
<1> QED BY <1>4, <1>5 DEF FinishText

-----------------------------------------------------------------------------
(***************************************************************************)
(* The requests.                                                           *)
(***************************************************************************)
RequestTypes ==
    /\ at \in [Executions -> {"unasked", "workflow", "synthesizing", "answered", "over"}]
    /\ status \in [Executions -> {"running", "completed", "failed"}]
    /\ traces \subseteq Executions /\ complete \subseteq Executions
    /\ stages \in [Executions -> 0..MaxStages]
    /\ round \in [Executions -> 0..MaxRounds]

LEMMA InitRequests == Init => RequestTypes
BY StreamAssumption DEF Init, RequestTypes

LEMMA NextRequests ==
    ASSUME RequestTypes, [Next]_vars
    PROVE  RequestTypes'
<1>1. MaxRounds \in Nat /\ MaxStages \in Nat
  BY StreamAssumption
<1>2. CASE UNCHANGED vars
  BY <1>2 DEF vars, request, stores, RequestTypes
<1>3. ASSUME NEW e \in Executions, Start(e) PROVE RequestTypes'
  BY <1>3 DEF Start, stores, RequestTypes
<1>4. ASSUME NEW e \in Executions, ReportStage(e) PROVE RequestTypes'
  <2>1. stages[e] + 1 \in 0..MaxStages
    BY <1>1, <1>4 DEF ReportStage, RequestTypes
  <2> QED BY <1>4, <2>1 DEF ReportStage, RequestTypes
<1>5. ASSUME NEW e \in Executions, StartRound(e) PROVE RequestTypes'
  <2>1. round[e] + 1 \in 0..MaxRounds
    BY <1>1, <1>5 DEF StartRound, RequestTypes
  <2> QED BY <1>5, <2>1 DEF StartRound, stores, RequestTypes
<1>6. ASSUME NEW e \in Executions, EndRound(e) PROVE RequestTypes'
  BY <1>6 DEF EndRound, stores, RequestTypes
<1>7. ASSUME NEW e \in Executions, EndWorkflow(e) PROVE RequestTypes'
  BY <1>7 DEF EndWorkflow, RequestTypes
<1>8. ASSUME NEW e \in Executions, NEW outcome \in {"completed", "failed"}, Conclude(e, outcome), RequestTypes
      PROVE  /\ at' \in [Executions -> {"unasked", "workflow", "synthesizing", "answered", "over"}]
             /\ status' \in [Executions -> {"running", "completed", "failed"}]
  BY <1>8 DEF Conclude, RequestTypes
<1>9. ASSUME NEW e \in Executions, Answer(e) PROVE RequestTypes'
  BY <1>8, <1>9 DEF Answer, stores, RequestTypes
<1>10. ASSUME NEW e \in Executions, Fail(e) PROVE RequestTypes'
  BY <1>8, <1>10 DEF Fail, RequestTypes
<1>11. ASSUME NEW e \in Executions, Cancel(e) PROVE RequestTypes'
  BY <1>11 DEF Cancel, RequestTypes
<1>12. ASSUME NEW e \in Executions, Cleanup(e) PROVE RequestTypes'
  BY <1>12 DEF Cleanup, stores, RequestTypes
\* A fragment may take a completion mark away, and nothing else of a request.
<1>13. ASSUME UNCHANGED request, complete' \subseteq complete PROVE RequestTypes'
  BY <1>13 DEF request, RequestTypes
<1>14. ASSUME NEW e, PublishFragment(e) PROVE complete' \subseteq complete
  BY <1>14 DEF PublishFragment
<1>15. ASSUME NEW e, NEW r, Push(e, r) \/ Finish(e, r) PROVE RequestTypes'
  <2>1. PICK before, after : PublishDelta(e, before, after) /\ UNCHANGED request
    BY <1>15 DEF Push, Finish
  <2>2. complete' \subseteq complete
    BY <1>14, <2>1 DEF PublishDelta
  <2> QED BY <1>13, <2>1, <2>2
<1>16. ASSUME NEW o, OtherEvent(o) \/ OtherFragment(o) PROVE RequestTypes'
  BY <1>13, <1>14, <1>16 DEF OtherEvent, OtherFragment
<1>17. ASSUME NEW e, Connect(e) \/ ReaderStep(e) \/ Disconnect(e) PROVE RequestTypes'
  BY <1>13, <1>17 DEF Connect, ReaderStep, LoseTrace, ReadEvents, ReadFragments, ReadStatus, Disconnect, stores
<1>18. ASSUME Ended PROVE RequestTypes'
  BY <1>2, <1>18 DEF Ended
<1>19. CASE Next
  BY <1>3, <1>4, <1>5, <1>6, <1>7, <1>9, <1>10, <1>11, <1>12, <1>15, <1>16, <1>17, <1>18, <1>19 DEF Next
<1> QED BY <1>2, <1>19

-----------------------------------------------------------------------------
(***************************************************************************)
(* The synthesizer's threads.                                              *)
(***************************************************************************)
Threads == [at : {"none", "streaming", "done"}, left : Seq(Characters), redactor : Redactors]

\* What a thread has shown is the redaction of what it has released.
Writes(t) == t \in Threads /\ Shows(t.redactor)

ThreadsWrite ==
    /\ DOMAIN threads = Executions
    /\ \A e \in Executions : threads[e] = [r \in Rounds |-> threads[e][r]]
    /\ \A e \in Executions, r \in Rounds : Writes(threads[e][r])

\* The text that a thread has, with what the model has yet to write, is one of
\* words; while it streams no further text changes what it has shown, and when
\* it is done it has shown all.
Settles(t) ==
    /\ Worded(t.redactor.raw \o t.left)
    /\ t.at = "done" => t.redactor.emitted = RedactFinal(t.redactor.raw)
    /\ t.at # "done" => Firm(t.redactor)

ThreadsSettle == \A e \in Executions, r \in Rounds : Settles(threads[e][r])

\* What a thread does next.
Started(text) == [at |-> "streaming", left |-> text, redactor |-> Fresh]

Pushed(t, n) ==
    [at |-> "streaming", left |-> SubSeq(t.left, n + 1, Len(t.left)),
     redactor |-> PushText(t.redactor, Prefix(t.left, n))]

Finished(t) == [at |-> "done", left |-> t.left, redactor |-> FinishText(t.redactor)]

Moves(t, next) ==
    \/ \E text \in Texts : next = Started(text)
    \/ t.at = "streaming" /\ \E n \in 1..Len(t.left) : next = Pushed(t, n)
    \/ t.at = "streaming" /\ next = Finished(t)

LEMMA ThreadsAre ==
    ASSUME NEW t \in Threads
    PROVE  /\ t.at \in {"none", "streaming", "done"} /\ t.left \in Seq(Characters) /\ t.redactor \in Redactors
           /\ t = [at |-> t.at, left |-> t.left, redactor |-> t.redactor]
BY DEF Threads

LEMMA ThreadsHave ==
    ASSUME NEW where \in {"none", "streaming", "done"}, NEW left \in Seq(Characters), NEW redactor \in Redactors
    PROVE  LET t == [at |-> where, left |-> left, redactor |-> redactor]
           IN  t \in Threads /\ t.at = where /\ t.left = left /\ t.redactor = redactor
BY DEF Threads

\* A text of words begins with one.
LEMMA WordedBefore ==
    ASSUME NEW x \in Seq(Characters), NEW y \in Seq(Characters), Worded(x \o y)
    PROVE  Worded(x)
<1> DEFINE s == x \o y
<1>1. /\ s \in Seq(Characters) /\ Len(s) = Len(x) + Len(y)
      /\ \A i \in 1..Len(x) : s[i] = x[i]
  BY ConcatIs
<1>2. Len(x) \in Nat /\ Len(y) \in Nat /\ Margin \in Nat /\ Worded(s)
  BY RedactorAssumption
<1> HIDE DEF s
<1>3. ASSUME NEW b \in 1..Len(x), x[b] = Space, b + Margin <= Len(x)
      PROVE  \E k \in (b + 1)..(b + Margin) : x[k] \in {Key, Letter}
  <2>1. b \in 1..Len(s) /\ s[b] = Space /\ b + Margin <= Len(s)
    BY <1>1, <1>2, <1>3
  <2>2. PICK k \in (b + 1)..(b + Margin) : s[k] \in {Key, Letter}
    BY <1>2, <2>1 DEF Worded
  <2>3. k \in 1..Len(x)
    BY <1>2, <1>3
  <2> QED BY <1>1, <2>2, <2>3
<1> QED BY <1>3 DEF Worded

\* What the model has begins and what is left goes on: together it is all.
LEMMA CutsApart ==
    ASSUME NEW S, NEW s \in Seq(S), NEW n \in 1..Len(s)
    PROVE  /\ Prefix(s, n) \in Seq(S) /\ SubSeq(s, n + 1, Len(s)) \in Seq(S)
           /\ Prefix(s, n) \o SubSeq(s, n + 1, Len(s)) = s
<1>1. Len(s) \in Nat /\ n \in Nat /\ 1 <= n /\ n <= Len(s)
  OBVIOUS
<1> DEFINE a == SubSeq(s, 1, n)
           b == SubSeq(s, n + 1, Len(s))
<1>2. a \in Seq(S) /\ Len(a) = n /\ \A i \in 1..n : a[i] = s[i]
  BY <1>1
<1>3. b \in Seq(S) /\ Len(b) = Len(s) - n /\ \A i \in 1..(Len(s) - n) : b[i] = s[n + i]
  BY <1>1
<1> HIDE DEF a, b
<1>4. a \in Seq(S) /\ b \in Seq(S)
  BY <1>2, <1>3
<1>5. /\ a \o b \in Seq(S) /\ Len(a \o b) = Len(a) + Len(b)
      /\ \A i \in 1..Len(a) : (a \o b)[i] = a[i]
      /\ \A i \in 1..Len(b) : (a \o b)[Len(a) + i] = b[i]
  BY <1>4, ConcatIs
<1>6. ASSUME NEW i \in 1..Len(s) PROVE (a \o b)[i] = s[i]
  <2>1. CASE i <= n
    BY <1>1, <1>2, <1>5, <2>1
  <2>2. CASE ~(i <= n)
    <3>1. i - n \in 1..Len(b) /\ i - n \in 1..(Len(s) - n) /\ n + (i - n) = i
      BY <1>1, <1>3, <2>2
    <3>2. (a \o b)[Len(a) + (i - n)] = b[i - n] /\ b[i - n] = s[n + (i - n)]
      BY <1>3, <1>5, <3>1
    <3> QED BY <1>2, <3>1, <3>2
  <2> QED BY <2>1, <2>2
<1>7. Len(a \o b) = Len(s)
  BY <1>1, <1>2, <1>3, <1>5
<1>8. a \o b = s
  BY <1>5, <1>6, <1>7, SeqEqual
<1> QED BY <1>4, <1>8 DEF a, b, Prefix

\* A move leaves a thread that has shown the redaction of what it released, and
\* if the texts are worded it leaves one that settles.
LEMMA MovesWrite ==
    ASSUME NEW t, Writes(t), NEW next, Moves(t, next)
    PROVE  Writes(next) /\ (WordedTexts /\ Settles(t) => Settles(next))
<1> DEFINE r == t.redactor
           left == t.left
<1>1. r \in Redactors /\ left \in Seq(Characters) /\ Shows(r) /\ r.raw \in Seq(Characters)
  BY ThreadsAre, RedactorsAre DEF Writes
<1>2. ASSUME NEW text \in Texts, next = Started(text)
      PROVE  Writes(next) /\ (WordedTexts => Settles(next))
  <2>1. text \in Seq(Characters)
    BY StreamAssumption
  <2>2. Fresh \in Redactors /\ Shows(Fresh) /\ Firm(Fresh) /\ Fresh.raw = << >>
    BY FreshIs DEF Shows
  <2>3. next \in Threads /\ next.at = "streaming" /\ next.left = text /\ next.redactor = Fresh
    BY <1>2, <2>1, <2>2, ThreadsHave DEF Started
  <2>4. << >> \o text = text
    BY <2>1, ConcatEmptySeq
  <2>5. WordedTexts => Worded(text)
    BY DEF WordedTexts
  <2> QED BY <2>2, <2>3, <2>4, <2>5 DEF Writes, Settles
<1>3. ASSUME t.at = "streaming", NEW n \in 1..Len(left), next = Pushed(t, n)
      PROVE  Writes(next) /\ (Settles(t) => Settles(next))
  <2> DEFINE chunk == Prefix(left, n)
             rest == SubSeq(left, n + 1, Len(left))
             after == PushText(r, chunk)
             raw == r.raw
             stripped == StripMarkers(chunk)
  <2>1. chunk \in Seq(Characters) /\ rest \in Seq(Characters) /\ chunk \o rest = left
    BY <1>1, CutsApart
  <2>2. next = [at |-> "streaming", left |-> rest, redactor |-> after]
    BY <1>3 DEF Pushed
  <2> HIDE DEF chunk, rest, stripped
  <2>3. /\ Shows(after) /\ after.raw = raw \o stripped
        /\ Firm(r) /\ Worded(after.raw) => Firm(after)
    BY <1>1, <2>1, PushTextIs DEF stripped
  <2>4. after \in Redactors
    BY <2>3 DEF Shows
  <2> HIDE DEF after
  <2>5. next \in Threads /\ next.at = "streaming" /\ next.left = rest /\ next.redactor = after
    BY <2>1, <2>2, <2>4, ThreadsHave
  <2>6. stripped \in Seq(Characters)
        /\ (Worded(raw \o (chunk \o rest)) => Worded((raw \o stripped) \o rest))
    BY <1>1, <2>1, StripIs DEF stripped
  <2>7. ASSUME Settles(t) PROVE Settles(next)
    <3>1. Worded(raw \o left) /\ Firm(r)
      BY <1>3, <2>7 DEF Settles
    <3>2. Worded((raw \o stripped) \o rest)
      BY <2>1, <2>6, <3>1
    <3>3. raw \o stripped \in Seq(Characters)
      <4> HIDE DEF raw
      <4>1. raw \in Seq(Characters)
        BY <1>1 DEF raw
      <4> QED BY <2>6, <4>1, ConcatProperties
    <3>4. Worded(raw \o stripped)
      <4> DEFINE more == raw \o stripped
      <4>1. more \in Seq(Characters) /\ Worded(more \o rest)
        BY <3>2, <3>3
      <4> HIDE DEF more
      <4>2. Worded(more)
        BY <2>1, <4>1, WordedBefore
      <4> QED BY <4>2 DEF more
    <3> QED BY <2>3, <2>5, <3>1, <3>2, <3>4 DEF Settles
  <2> QED BY <2>3, <2>5, <2>7 DEF Writes
<1>4. ASSUME t.at = "streaming", next = Finished(t)
      PROVE  Writes(next) /\ (Settles(t) => Settles(next))
  <2> DEFINE after == FinishText(r)
  <2>1. /\ Shows(after) /\ after.raw = r.raw
        /\ Firm(r) => after.emitted = RedactFinal(r.raw)
    BY <1>1, FinishTextIs
  <2>2. after \in Redactors
    BY <2>1 DEF Shows
  <2>3. next = [at |-> "done", left |-> left, redactor |-> after]
    BY <1>4 DEF Finished
  <2> HIDE DEF after
  <2>4. next \in Threads /\ next.at = "done" /\ next.left = left /\ next.redactor = after
    BY <1>1, <2>2, <2>3, ThreadsHave
  <2> QED BY <1>4, <2>1, <2>4 DEF Writes, Settles
<1> QED BY <1>2, <1>3, <1>4 DEF Moves

\* At most one thread moves in a step.
LEMMA ThreadStepIs ==
    ASSUME RequestTypes, ThreadsWrite, [Next]_vars
    PROVE  \/ UNCHANGED threads
           \/ \E e \in Executions, r \in Rounds : \E next :
                 /\ Moves(threads[e][r], next)
                 /\ threads' = [threads EXCEPT ![e] = [threads[e] EXCEPT ![r] = next]]
<1>1. CASE UNCHANGED vars
  BY <1>1 DEF vars
<1>2. ASSUME NEW e \in Executions, StartRound(e)
      PROVE  \E r \in Rounds : \E next :
                 /\ Moves(threads[e][r], next)
                 /\ threads' = [threads EXCEPT ![e] = [threads[e] EXCEPT ![r] = next]]
  <2> DEFINE r == round[e] + 1
  <2>1. PICK text \in Texts :
           threads' = [threads EXCEPT ![e][r] = [at |-> "streaming", left |-> text, redactor |-> Fresh]]
    BY <1>2 DEF StartRound
  <2>2. r \in Rounds
    BY <1>2, StreamAssumption DEF StartRound, RequestTypes, Rounds
  <2> HIDE DEF r
  <2>3. Moves(threads[e][r], Started(text))
    BY DEF Moves
  <2>4. threads' = [threads EXCEPT ![e] = [threads[e] EXCEPT ![r] = Started(text)]]
    BY <2>1 DEF Started
  <2> QED BY <2>2, <2>3, <2>4
<1>3. ASSUME NEW e \in Executions, NEW r \in Rounds, Push(e, r) \/ Finish(e, r)
      PROVE  \E next :
                 /\ Moves(threads[e][r], next)
                 /\ threads' = [threads EXCEPT ![e] = [threads[e] EXCEPT ![r] = next]]
  <2> DEFINE f == threads[e]
             t == f[r]
  <2>1. /\ f = [x \in Rounds |-> f[x]] /\ e \in DOMAIN threads
        /\ t \in Threads
    BY DEF ThreadsWrite, Writes
  <2>2. CASE Push(e, r)
    <3>1. PICK n \in 1..Len(t.left) :
             /\ t.at = "streaming"
             /\ threads' = [threads EXCEPT ![e][r].left = SubSeq(@, n + 1, Len(@)),
                                           ![e][r].redactor = PushText(t.redactor, Prefix(t.left, n))]
      BY <2>2 DEF Push
    <3> DEFINE rest == SubSeq(t.left, n + 1, Len(t.left))
               after == PushText(t.redactor, Prefix(t.left, n))
    <3>2. Pushed(t, n) = [at |-> "streaming", left |-> rest, redactor |-> after]
      BY DEF Pushed
    <3> HIDE DEF after
    <3>3. threads' = [threads EXCEPT ![e] =
                        [f EXCEPT ![r] = [t EXCEPT !.left = rest, !.redactor = after]]]
      BY <2>1, <3>1 DEF after
    <3> HIDE DEF rest
    <3>4. [t EXCEPT !.left = rest, !.redactor = after] = Pushed(t, n)
      <4>1. PICK left, redactor : t = [at |-> "streaming", left |-> left, redactor |-> redactor]
        BY <2>1, <3>1, ThreadsAre
      <4>2. PICK s : s = [at |-> "streaming", left |-> rest, redactor |-> redactor]
        OBVIOUS
      <4> HIDE DEF f, t
      <4>3. [t EXCEPT !.left = rest] = s
        BY <4>1, <4>2
      <4>4. [s EXCEPT !.redactor = after] = Pushed(t, n)
        BY <3>2, <4>1, <4>2
      <4>5. [t EXCEPT !.left = rest, !.redactor = after] = [[t EXCEPT !.left = rest] EXCEPT !.redactor = after]
        OBVIOUS
      <4> QED BY <4>3, <4>4, <4>5
    <3>5. Moves(t, Pushed(t, n))
      BY <3>1 DEF Moves
    <3> QED BY <3>3, <3>4, <3>5
  <2>3. CASE Finish(e, r)
    <3> DEFINE after == FinishText(t.redactor)
    <3>1. /\ t.at = "streaming"
          /\ threads' = [threads EXCEPT ![e][r].at = "done", ![e][r].redactor = after]
      BY <2>3 DEF Finish
    <3>2. Finished(t) = [at |-> "done", left |-> t.left, redactor |-> after]
      BY DEF Finished
    <3> HIDE DEF after
    <3>3. threads' = [threads EXCEPT ![e] =
                        [f EXCEPT ![r] = [t EXCEPT !.at = "done", !.redactor = after]]]
      BY <2>1, <3>1
    <3>4. [t EXCEPT !.at = "done", !.redactor = after] = Finished(t)
      <4>1. PICK left, redactor : t = [at |-> "streaming", left |-> left, redactor |-> redactor]
        BY <2>1, <3>1, ThreadsAre
      <4>2. PICK s : s = [at |-> "done", left |-> left, redactor |-> redactor]
        OBVIOUS
      <4> HIDE DEF f, t
      <4>3. [t EXCEPT !.at = "done"] = s
        BY <4>1, <4>2
      <4>4. [s EXCEPT !.redactor = after] = Finished(t)
        BY <3>2, <4>1, <4>2
      <4>5. [t EXCEPT !.at = "done", !.redactor = after] = [[t EXCEPT !.at = "done"] EXCEPT !.redactor = after]
        OBVIOUS
      <4> QED BY <4>3, <4>4, <4>5
    <3>5. Moves(t, Finished(t))
      BY <3>1 DEF Moves
    <3> QED BY <3>3, <3>4, <3>5
  <2> QED BY <1>3, <2>2, <2>3
<1>4. ASSUME NEW e, \/ Start(e) \/ ReportStage(e) \/ EndRound(e)
                    \/ EndWorkflow(e) \/ Answer(e) \/ Fail(e) \/ Cancel(e) \/ Cleanup(e)
      PROVE  UNCHANGED threads
  BY <1>4 DEF Start, ReportStage, EndRound, EndWorkflow, Answer, Fail, Cancel, Cleanup
<1>5. ASSUME NEW e, Connect(e) \/ ReaderStep(e) \/ Disconnect(e) PROVE UNCHANGED threads
  BY <1>5 DEF Connect, ReaderStep, LoseTrace, ReadEvents, ReadFragments, ReadStatus, Disconnect
<1>6. ASSUME NEW o, OtherEvent(o) \/ OtherFragment(o) PROVE UNCHANGED threads
  BY <1>6 DEF OtherEvent, OtherFragment
<1>7. ASSUME Ended PROVE UNCHANGED threads
  BY <1>7 DEF Ended, vars
<1>8. CASE Next
  BY <1>2, <1>3, <1>4, <1>5, <1>6, <1>7, <1>8 DEF Next
<1> QED BY <1>1, <1>8

LEMMA InitThreads == Init => ThreadsWrite /\ ThreadsSettle
<1> SUFFICES ASSUME Init PROVE ThreadsWrite /\ ThreadsSettle
  OBVIOUS
<1>1. \A e \in Executions : threads[e] = [r \in Rounds |-> NoThread]
  BY DEF Init
<1>2. DOMAIN threads = Executions
  BY DEF Init
<1> DEFINE none == << >>
<1>3. none \in Seq(Characters) /\ none \o none = none /\ Worded(none)
  BY ConcatEmptySeq DEF Worded
<1>4. Fresh \in Redactors /\ Shows(Fresh) /\ Firm(Fresh) /\ Fresh.raw = none
  BY FreshIs DEF Shows
<1>5. NoThread \in Threads /\ NoThread.at = "none" /\ NoThread.left = none /\ NoThread.redactor = Fresh
  BY <1>3, <1>4, ThreadsHave DEF NoThread
<1> HIDE DEF none
<1>6. Writes(NoThread) /\ Settles(NoThread)
  BY <1>3, <1>4, <1>5 DEF Writes, Settles
<1> QED BY <1>1, <1>2, <1>6 DEF ThreadsWrite, ThreadsSettle

LEMMA NextThreads ==
    ASSUME RequestTypes, ThreadsWrite, [Next]_vars
    PROVE  ThreadsWrite' /\ (WordedTexts /\ ThreadsSettle => ThreadsSettle')
<1>1. CASE UNCHANGED threads
  BY <1>1 DEF ThreadsWrite, ThreadsSettle
<1>2. ASSUME NEW e \in Executions, NEW r \in Rounds, NEW next, Moves(threads[e][r], next),
             threads' = [threads EXCEPT ![e] = [threads[e] EXCEPT ![r] = next]]
      PROVE  ThreadsWrite' /\ (WordedTexts /\ ThreadsSettle => ThreadsSettle')
  <2>1. Writes(next) /\ (WordedTexts /\ Settles(threads[e][r]) => Settles(next))
    BY <1>2, MovesWrite DEF ThreadsWrite
  <2>2. /\ DOMAIN threads' = Executions
        /\ \A x \in Executions : threads'[x] = [y \in Rounds |-> threads'[x][y]]
        /\ \A x \in Executions, y \in Rounds :
              threads'[x][y] = IF x = e /\ y = r THEN next ELSE threads[x][y]
    BY <1>2 DEF ThreadsWrite
  <2> QED BY <2>1, <2>2 DEF ThreadsWrite, ThreadsSettle
<1> QED BY <1>1, <1>2, ThreadStepIs

-----------------------------------------------------------------------------
(***************************************************************************)
(* The theorems.                                                           *)
(***************************************************************************)
\* However long the process runs and whoever publishes, neither store ever has
\* an execution twice, more executions than MaxExecutions, or more than
\* MaxItems publications of one: the trimming in publish keeps its bounds.
THEOREM StoresStayBounded == Spec => []StoresBounded
<1>1. IInv => StoresBounded
  BY DEF IInv
<1> QED BY <1>1, AlwaysIInv, PTL

\* Whatever the bounds and the traffic, a client of a request that was never
\* evicted is shown its stage events and the fragments of its draft from the
\* first on, with no gap and no repetition, although every read is by offset.
THEOREM ReadersSeeNoGaps == Spec => []NoGaps
<1>1. IInv => NoGaps
  BY DEF IInv, ReadersFollow, Follows, NoGaps
<1> QED BY <1>1, AlwaysIInv, PTL

\* A stream that ended with the terminal event had shown every fragment that
\* the store held when its last pass began, or the MaxItems it keeps: in
\* event_stream the slices are read before the status is.
THEOREM TheLastPassIsComplete == Spec => []LastPassShowsAll
<1>1. ASSUME IInv PROVE LastPassShowsAll
  <2> SUFFICES ASSUME NEW e \in Executions \ evicted, readers[e].at = "told",
                      NEW n \in 1..MaxItems, n <= readers[e].known
               PROVE  Contains(readers[e].fragments, n)
    BY DEF LastPassShowsAll
  <2>1. PICK rd : rd = readers[e]
    OBVIOUS
  <2>2. rd \in Readers
    BY <1>1, <2>1 DEF IInv, TypesOfHistory
  <2>3. Consecutive(rd.fragments) /\ (rd.known <= Len(rd.fragments) \/ MaxItems <= Len(rd.fragments))
    BY <1>1, <2>1 DEF IInv, ReadersFollow, Follows
  <2>4. n \in 1..Len(rd.fragments)
    BY <2>1, <2>2, <2>3, StreamAssumption DEF Readers
  <2>5. rd.fragments[n] = n
    BY <2>2, <2>3, <2>4 DEF Consecutive, Readers
  <2> QED BY <2>1, <2>4, <2>5 DEF Contains
<1> QED BY <1>1, AlwaysIInv, PTL

\* The executions behind the first of an order are as many as the order is
\* longer than one.
LEMMA Behind ==
    ASSUME NEW S, NEW order \in Seq(S), Distinct(order), NEW n \in Nat, Len(order) = n + 1,
           NEW T, IsFiniteSet(T), \A y : Before(order, order[1], y) => y \in T
    PROVE  Cardinality(T) \in Nat /\ n <= Cardinality(T)
<1> DEFINE f == [i \in 1..n |-> order[i + 1]]
<1>1. ASSUME NEW i \in 1..n PROVE f[i] = order[i + 1] /\ i + 1 \in 1..Len(order)
  OBVIOUS
<1>2. 1 \in 1..Len(order)
  OBVIOUS
<1>3. ASSUME NEW i \in 1..n PROVE f[i] \in T
  <2>1. 1 < i + 1
    OBVIOUS
  <2>2. Before(order, order[1], order[i + 1])
    BY <1>1, <1>2, <2>1 DEF Before
  <2> QED BY <1>1, <2>2
<1>4. ASSUME NEW i \in 1..n, NEW j \in 1..n, f[i] = f[j] PROVE i = j
  <2>1. i + 1 = j + 1
    BY <1>1, <1>4 DEF Distinct
  <2> QED BY <2>1
<1>5. f \in Injection(1..n, T)
  BY <1>3, <1>4 DEF Injection, IsInjective
<1> HIDE DEF f
<1>6. Cardinality(1..n) <= Cardinality(T)
  BY <1>5, FS_Injection
<1>7. Cardinality(1..n) = n
  <2>1. Cardinality(1..n) = IF 1 > n THEN 0 ELSE n - 1 + 1
    BY FS_Interval
  <2> QED BY <2>1
<1> QED BY <1>6, <1>7, FS_CardinalityType

\* Eviction takes the execution that has been silent for longest: by then at
\* least MaxExecutions others have published fragments since it did, whatever
\* the mix of requests that share the store.
THEOREM EvictionTakesTheStalest == Spec => EvictsTheStalest
<1>1. ASSUME IInv, [Next]_vars, NEW d \in Dropped(answers, answers')
      PROVE  Cardinality(idle'[d]) >= MaxExecutions
  <2>1. PICK s, t : s = answers /\ t = answers'
    OBVIOUS
  <2>2. s # t
    BY <1>1, <2>1 DEF Dropped
  <2>3. PICK e \in All : FragmentStep(e)
    BY <1>1, <2>1, <2>2, StepIs DEF Quiet, EventStep, ReaderMoves
  <2>4. PICK n : n = written[e].fragments + 1
    OBVIOUS
  <2>5. /\ Bounded(s) /\ n \in Nat \ {0} /\ t = Publish(s, e, n) /\ d \in Dropped(s, t)
        /\ idle' = [x \in All |-> IF x = e THEN {} ELSE idle[x] \cup {e}]
    BY <1>1, <2>1, <2>3, <2>4 DEF FragmentStep, PublishFragment, IInv, StoresBounded, TypesOfHistory, Counts
  <2>6. PICK order : order = Touched(s.order, e)
    OBVIOUS
  <2>7. s.order \in Seq(All) /\ Distinct(s.order)
    BY <2>5 DEF Bounded, Stores
  <2>8. order \in Seq(All) /\ Distinct(order)
    BY <2>6, <2>7, TouchedIs
  <2>9. d = order[1] /\ Len(order) = MaxExecutions + 1 /\ d # e /\ d \in All
    BY <2>5, <2>6, PublishIs DEF Dropped
  <2>10. IsFiniteSet(idle'[d])
    BY <2>5, <2>9, <1>1, FS_AddElement DEF IInv, Silence
  <2>11. ASSUME NEW y, Before(order, order[1], y) PROVE y \in idle'[d]
    <3>1. y \in All
      BY <2>8, <2>11 DEF Before
    <3>2. y = e \/ Before(s.order, d, y)
      BY <2>6, <2>7, <2>9, <2>11, TouchedIs
    <3>3. Before(s.order, d, y) => y \in idle[d]
      BY <1>1, <2>1, <2>9, <3>1 DEF IInv, Silence
    <3> QED BY <2>5, <2>9, <3>2, <3>3
  <2>12. PICK T : T = idle'[d]
    OBVIOUS
  <2>13. Cardinality(T) \in Nat /\ MaxExecutions <= Cardinality(T)
    BY <2>8, <2>9, <2>10, <2>11, <2>12, Behind, StreamAssumption
  <2> QED BY <2>12, <2>13, StreamAssumption
<1>2. IInv /\ [Next]_vars => [\A e \in Dropped(answers, answers') : Cardinality(idle'[e]) >= MaxExecutions]_vars
  BY <1>1
<1> QED BY <1>2, AlwaysIInv, PTL DEF Spec, EvictsTheStalest

\* Whatever the model writes, however it is cut and whoever else publishes, the
\* requests, threads, stores and readers keep their types and the stores their
\* bounds.
THEOREM TypeCorrect == Spec => []TypeOK
<1>1. Init => RequestTypes /\ ThreadsWrite
  BY InitRequests, InitThreads
<1>2. RequestTypes /\ ThreadsWrite /\ [Next]_vars => (RequestTypes /\ ThreadsWrite)'
  BY NextRequests, NextThreads
<1>3. ASSUME RequestTypes, ThreadsWrite, IInv PROVE TypeOK
  <2>1. \A e \in Executions : threads[e] \in [Rounds -> Threads]
    BY <1>3 DEF ThreadsWrite, Writes
  <2>2. /\ events \in Stores /\ answers \in Stores
        /\ \A store \in {events, answers} :
             /\ Len(store.order) <= MaxExecutions
             /\ \A e \in All : Len(store.items[e]) <= MaxItems
    BY <1>3 DEF IInv, StoresBounded, Bounded
  <2> QED BY <1>3, <2>1, <2>2 DEF TypeOK, RequestTypes, IInv, TypesOfHistory, Readers, Counts, Threads
<1> QED BY <1>1, <1>2, <1>3, AlwaysIInv, PTL DEF Spec

\* Whatever the model writes in worded texts, whatever the margin and however the
\* text is cut into chunks, no later text contradicts what was shown of a draft,
\* and when the round ends all of it was shown: a boundary that _safe_boundary
\* takes is one whose redaction redact_final gives on every longer text too.
THEOREM DraftsSettle == WordedTexts => (Spec => []DraftSettles)
<1> SUFFICES ASSUME WordedTexts PROVE Spec => []DraftSettles
  OBVIOUS
<1> DEFINE Inv == RequestTypes /\ ThreadsWrite /\ ThreadsSettle
<1>1. Init => Inv
  BY InitRequests, InitThreads
<1>2. Inv /\ [Next]_vars => Inv'
  BY NextRequests, NextThreads
<1>3. ASSUME Inv PROVE DraftSettles
  <2> SUFFICES ASSUME NEW e \in Executions, NEW r \in Rounds
               PROVE  LET t == threads[e][r]
                          redacted == RedactFinal(t.redactor.raw)
                      IN  /\ IsPrefix(t.redactor.emitted, redacted)
                          /\ t.at = "done" => t.redactor.emitted = redacted
    BY DEF DraftSettles
  <2> DEFINE t == threads[e][r]
             redactor == t.redactor
  <2>1. redactor \in Redactors /\ Settles(t)
    BY <1>3, ThreadsAre DEF ThreadsWrite, ThreadsSettle, Writes
  <2> DEFINE raw == redactor.raw
             emitted == redactor.emitted
             redacted == RedactFinal(raw)
             settled == Scanned(raw)[Len(raw)].out
  <2>2. raw \in Seq(Characters) /\ emitted \in Seq(Shown)
    BY <2>1, RedactorsAre
  <2>3. CASE t.at = "done"
    <3>1. emitted = redacted
      BY <2>1, <2>3 DEF Settles
    <3> QED BY <2>2, <3>1, PrefixSelf
  <2>4. CASE t.at # "done"
    <3>1. IsPrefix(emitted, settled)
      BY <2>1, <2>4 DEF Settles, Firm
    <3>2. redacted \in Seq(Shown) /\ settled \in Seq(Shown) /\ IsPrefix(settled, redacted)
      <4> HIDE DEF raw
      <4>1. Len(raw) \in 0..Len(raw)
        BY <2>2
      <4>2. Scanned(raw)[Len(raw)] \in Scanners
        BY <2>2, <4>1, ScanTypes
      <4>3. redacted = Flushed(Scanned(raw)[Len(raw)]) /\ redacted \in Seq(Shown)
        BY <2>2, RedactsWhole
      <4> QED BY <4>2, <4>3, FlushedIs, ScannersAre
    <3> HIDE DEF emitted, redacted, settled
    <3>3. IsPrefix(emitted, redacted)
      BY <2>2, <3>1, <3>2, PrefixTrans
    <3> QED BY <2>4, <3>3 DEF emitted, redacted
  <2> QED BY <2>3, <2>4
<1> QED BY <1>1, <1>2, <1>3, PTL DEF Spec

=============================================================================
