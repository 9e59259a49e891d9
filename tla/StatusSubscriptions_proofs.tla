--------------------- MODULE StatusSubscriptions_proofs ---------------------
(***************************************************************************)
(* Proofs about StatusSubscriptions: what subscribers are told, who holds  *)
(* the slots, and what the queue will send.                                *)
(*                                                                         *)
(* Sending goes over lists in folds (the sorted reports, the events of a   *)
(* subscription, the map of subscriptions).  No induction theorem that     *)
(* takes a predicate can be instantiated here: "Induct" obtains induction  *)
(* from the least element of a set of naturals, "FoldExists" the recursive *)
(* function of a fold, and one lemma per folded operator says that its     *)
(* fold goes through the list from the first element to the last.          *)
(*                                                                         *)
(* On these rests "Leads": whatever a queued event sends, every            *)
(* subscription is only told more, no time stamp of a distribution session *)
(* is changed, and a context is missing only if a subscription names a     *)
(* distribution session that does not exist.  The invariant Inv then says  *)
(* of each slot who holds it and of each due report which event sends it.  *)
(***************************************************************************)
EXTENDS StatusSubscriptions, FiniteSetTheorems, SequenceTheorems, WellFoundedInduction,
        TLAPS

-----------------------------------------------------------------------------
(* Induction, and folds of sequences.                                      *)

\* A set of naturals has a least element.
LEMMA Least ==
    ASSUME NEW T, T \subseteq Nat, T # {}
    PROVE \E n \in T : \A m \in T : n <= m
  <1>1. PICK R : R = OpToRel(<, Nat)
    OBVIOUS
  <1>2. IsWellFoundedOn(R, Nat)
    BY <1>1, NatLessThanWellFounded
  <1>3. \A x, y \in Nat : x < y => <<x, y>> \in R
    BY <1>1 DEF OpToRel
  <1>4. \E x \in T : \A y \in T : ~ (<<y, x>> \in R)
    BY <1>2, WFMin, Zenon
  <1>5. PICK n \in T : \A m \in T : <<m, n>> \notin R
    BY <1>4
  <1>6. ASSUME NEW m \in T PROVE n <= m
    <2>1. m \in Nat /\ n \in Nat
      OBVIOUS
    <2>2. <<m, n>> \notin R
      BY <1>5
    <2>3. QED BY <1>3, <2>1, <2>2
  <1>7. QED BY <1>6

\* Induction, in a form the provers can use: a set that has 0 and the successor
\* of each element has every natural number.
LEMMA Induct ==
    ASSUME NEW S \in SUBSET Nat, 0 \in S, \A n \in S : n + 1 \in S
    PROVE  S = Nat
  <1>1. SUFFICES ASSUME Nat \ S # {} PROVE FALSE
    OBVIOUS
  <1>2. PICK n \in Nat \ S : \A m \in Nat \ S : n <= m
    BY <1>1, Least
  <1>3. n # 0
    OBVIOUS
  <1>4. n - 1 \in Nat /\ ~(n <= n - 1)
    BY <1>3
  <1>5. n - 1 \in S
    BY <1>2, <1>4
  <1>6. (n - 1) + 1 = n
    OBVIOUS
  <1>7. QED BY <1>5, <1>6

LEMMA MaxIs ==
    ASSUME NEW k \in Nat, NEW s \in SUBSET (1..k), s # {}
    PROVE  /\ Max(s) \in s
           /\ \A y \in s : y <= Max(s)
  <1> DEFINE T == {m \in Nat : \A y \in s : y <= m}
  <1>1. k \in T
    OBVIOUS
  <1>2. PICK m \in T : \A j \in T : m <= j
    BY <1>1, Least
  <1>3. m \in s
    <2>1. SUFFICES ASSUME m \notin s PROVE FALSE
      OBVIOUS
    <2>2. PICK y \in s : TRUE
      OBVIOUS
    <2>3. y \in Nat /\ y >= 1 /\ y <= m
      OBVIOUS
    <2>4. m - 1 \in Nat
      BY <2>3
    <2>5. \A z \in s : z <= m - 1
      BY <2>1
    <2>6. m - 1 \in T
      BY <2>4, <2>5
    <2>7. QED BY <1>2, <2>6
  <1>4. \E x \in s : \A y \in s : x >= y
    BY <1>3
  <1>5. QED BY <1>4 DEF Max

\* The recursion of a fold over the first n elements of a sequence, F taking the
\* result so far and the next position: it goes over the sets of positions.
Recursion(g, n, base, F) ==
    \A p \in SUBSET (1..n) :
        g[p] = IF p = {} THEN base ELSE F[<<g[p \ {Max(p)}], Max(p)>>]

LEMMA FoldExists ==
    ASSUME NEW n \in Nat, NEW A, NEW base \in A, NEW F \in [A \X (1..n) -> A]
    PROVE  \E g \in [SUBSET (1..n) -> A] : Recursion(g, n, base, F)
  <1> DEFINE Is(g, k) == \A p \in SUBSET (1..k) :
                            g[p] = IF p = {} THEN base ELSE F[<<g[p \ {Max(p)}], Max(p)>>]
             K == {k \in Nat : k <= n => \E g \in [SUBSET (1..k) -> A] : Is(g, k)}
  <1>1. 0 \in K
    <2> DEFINE g == [p \in SUBSET (1..0) |-> base]
    <2>1. g \in [SUBSET (1..0) -> A] /\ \A p \in SUBSET (1..0) : p = {}
      OBVIOUS
    <2>2. Is(g, 0)
      BY <2>1
    <2>3. QED BY <2>1, <2>2
  <1>2. ASSUME NEW k \in K, k + 1 <= n PROVE \E g \in [SUBSET (1..(k + 1)) -> A] : Is(g, k + 1)
    <2>0. k \in Nat /\ k <= n
      BY <1>2
    <2>1. PICK g \in [SUBSET (1..k) -> A] : Is(g, k)
      BY <2>0
    <2> DEFINE h == [p \in SUBSET (1..(k + 1)) |->
                        IF p = {} THEN base ELSE F[<<g[p \ {Max(p)}], Max(p)>>]]
    <2>2. ASSUME NEW p \in SUBSET (1..(k + 1)), p # {}
          PROVE  Max(p) \in 1..n /\ p \ {Max(p)} \in SUBSET (1..k)
      <3>1. k + 1 \in Nat
        BY <2>0
      <3>2. PICK m \in 1..(k + 1) : m = Max(p) /\ \A y \in p : y <= m
        BY <2>2, <3>1, MaxIs
      <3>3. ASSUME NEW y \in p \ {m} PROVE y \in 1..k
        <4>1. y \in 1..(k + 1) /\ y <= m /\ y # m
          BY <3>2
        <4>2. QED BY <2>0, <3>2, <4>1
      <3>4. m \in 1..n
        BY <1>2, <2>0, <3>2
      <3>5. QED BY <3>2, <3>3, <3>4
    <2>3. h \in [SUBSET (1..(k + 1)) -> A]
      <3>1. ASSUME NEW p \in SUBSET (1..(k + 1))
            PROVE  (IF p = {} THEN base ELSE F[<<g[p \ {Max(p)}], Max(p)>>]) \in A
        BY <2>1, <2>2
      <3>2. QED BY <3>1
    <2>4. \A p \in SUBSET (1..k) : h[p] = g[p]
      BY <2>0, <2>1
    <2>5. Is(h, k + 1)
      <3>1. ASSUME NEW p \in SUBSET (1..(k + 1))
            PROVE  h[p] = IF p = {} THEN base ELSE F[<<h[p \ {Max(p)}], Max(p)>>]
        <4>1. h[p] = IF p = {} THEN base ELSE F[<<g[p \ {Max(p)}], Max(p)>>]
          OBVIOUS
        <4>2. p # {} => h[p \ {Max(p)}] = g[p \ {Max(p)}]
          BY <2>2, <2>4
        <4> HIDE DEF h
        <4>3. QED BY <4>1, <4>2
      <3> HIDE DEF h
      <3>2. QED BY <3>1
    <2>6. QED BY <2>3, <2>5
  <1>3. \A k \in K : k + 1 \in K
    <2>1. SUFFICES ASSUME NEW k \in K PROVE k + 1 \in K
      OBVIOUS
    <2>2. k \in Nat /\ k + 1 \in Nat
      OBVIOUS
    <2>3. k + 1 <= n => \E g \in [SUBSET (1..(k + 1)) -> A] : Is(g, k + 1)
      BY <1>2
    <2> HIDE DEF Is
    <2>4. QED BY <2>2, <2>3
  <1>4. K \in SUBSET Nat
    OBVIOUS
  <1> HIDE DEF K
  <1>5. n \in K
    BY <1>1, <1>3, <1>4, Induct
  <1> HIDE DEF Is
  <1>6. n <= n
    OBVIOUS
  <1>7. \E g \in [SUBSET (1..n) -> A] : Is(g, n)
    BY <1>5, <1>6 DEF K
  <1>8. QED BY <1>7 DEF Is, Recursion

LEMMA UpTo ==
    ASSUME NEW k \in Nat
    PROVE  /\ Max(1..(k + 1)) = k + 1 /\ 1..(k + 1) # {}
           /\ (1..(k + 1)) \ {k + 1} = 1..k
           /\ 1..0 = {}
  <1>1. PICK p : p = 1..(k + 1)
    OBVIOUS
  <1>2. p # {} /\ p \in SUBSET (1..(k + 1)) /\ k + 1 \in Nat /\ k + 1 \in p
    BY <1>1
  <1>3. Max(p) \in p /\ \A y \in p : y <= Max(p)
    BY <1>2, MaxIs
  <1>4. Max(p) = k + 1
    BY <1>1, <1>2, <1>3
  <1>5. (1..(k + 1)) \ {k + 1} = 1..k
    OBVIOUS
  <1>6. QED BY <1>1, <1>2, <1>4, <1>5

\* What holds of each result on the way from that of the empty fold on.
LEMMA FoldReaches ==
    ASSUME NEW n \in Nat, NEW f, NEW B,
           f[0] \in B[0], \A k \in 0..(n - 1) : f[k] \in B[k] => f[k + 1] \in B[k + 1]
    PROVE  \A k \in 0..n : f[k] \in B[k]
  <1> DEFINE K == {k \in Nat : k <= n => f[k] \in B[k]}
  <1>1. 0 \in K
    OBVIOUS
  <1>2. ASSUME NEW k \in K PROVE k + 1 \in K
    OBVIOUS
  <1>3. K = Nat
    BY <1>1, <1>2, Induct
  <1>4. QED BY <1>3

\* The folds of the model go through their sequence from the first element to the
\* last, within any set that each step stays in.
LEMMA ProcessEventsIs ==
    ASSUME NEW E, NEW l \in Seq(E), NEW A, NEW base \in A,
           \A a \in A, n \in DOMAIN l : ProcessEvent(a, l[n]) \in A
    PROVE  \E f : /\ f[0] = base
                  /\ \A k \in 0..(Len(l) - 1) : f[k + 1] = ProcessEvent(f[k], l[k + 1])
                  /\ ProcessEvents(base, l) = f[Len(l)]
  <1>1. DOMAIN l = 1..Len(l) /\ Len(l) \in Nat
    OBVIOUS
  <1> DEFINE F == [x \in A \X (1..Len(l)) |-> ProcessEvent(x[1], l[x[2]])]
             Is(g, p) == IF p = {} THEN base ELSE ProcessEvent(g[p \ {Max(p)}], l[Max(p)])
  <1>2. F \in [A \X (1..Len(l)) -> A]
    BY <1>1
  <1>3. PICK g \in [SUBSET (1..Len(l)) -> A] :
           \A p \in SUBSET (1..Len(l)) :
              g[p] = IF p = {} THEN base ELSE F[<<g[p \ {Max(p)}], Max(p)>>]
    <2> HIDE DEF F
    <2>1. \E g \in [SUBSET (1..Len(l)) -> A] : Recursion(g, Len(l), base, F)
      BY <1>1, <1>2, FoldExists
    <2>2. QED BY <2>1 DEF Recursion
  <1>4. ASSUME NEW p \in SUBSET (1..Len(l)) PROVE g[p] = Is(g, p)
    <2>1. CASE p = {}
      BY <1>3, <2>1
    <2>2. CASE p # {}
      <3>1. Max(p) \in p
        BY <1>1, <2>2, MaxIs
      <3>2. Max(p) \in 1..Len(l) /\ g[p \ {Max(p)}] \in A
        BY <3>1
      <3>3. F[<<g[p \ {Max(p)}], Max(p)>>] = ProcessEvent(g[p \ {Max(p)}], l[Max(p)])
        BY <3>2
      <3> HIDE DEF F
      <3>4. g[p] = F[<<g[p \ {Max(p)}], Max(p)>>]
        BY <1>3, <2>2
      <3>5. QED BY <2>2, <3>3, <3>4
    <2>3. QED BY <2>1, <2>2
  <1> HIDE DEF F
  <1>5. g = [p \in SUBSET (1..Len(l)) |-> Is(g, p)]
    BY <1>3, <1>4
  <1>6. PICK h : h = CHOOSE i : i = [p \in SUBSET (1..Len(l)) |-> Is(i, p)]
    OBVIOUS
  <1>7. h = [p \in SUBSET (1..Len(l)) |-> Is(h, p)]
    BY <1>5, <1>6
  <1>8. ProcessEvents(base, l) = h[1..Len(l)]
    BY <1>1, <1>6 DEF ProcessEvents, FoldLeft, MapThenFoldSet
  <1>9. h[{}] = base /\ 1..0 = {}
    BY <1>7
  <1>10. ASSUME NEW k \in 0..(Len(l) - 1) PROVE h[1..(k + 1)] = ProcessEvent(h[1..k], l[k + 1])
    <2>1. k \in Nat /\ 1..(k + 1) \in SUBSET (1..Len(l))
      BY <1>1
    <2>2. Max(1..(k + 1)) = k + 1 /\ 1..(k + 1) # {} /\ (1..(k + 1)) \ {k + 1} = 1..k
      BY <2>1, UpTo
    <2>3. h[1..(k + 1)] = Is(h, 1..(k + 1))
      BY <1>7, <2>1
    <2>4. QED BY <2>2, <2>3
  <1> DEFINE f == [k \in 0..Len(l) |-> h[1..k]]
  <1>11. f[0] = base /\ f[Len(l)] = h[1..Len(l)]
    BY <1>1, <1>9
  <1>12. \A k \in 0..(Len(l) - 1) : f[k + 1] = ProcessEvent(f[k], l[k + 1])
    BY <1>10
  <1> HIDE DEF f, Is
  <1>13. QED BY <1>8, <1>11, <1>12

LEMMA RegisterIs ==
    ASSUME NEW E, NEW l \in Seq(E), NEW A, NEW base \in A,
           \A a \in A, n \in DOMAIN l : RegisterEvent(a, l[n]) \in A
    PROVE  \E f : /\ f[0] = base
                  /\ \A k \in 0..(Len(l) - 1) : f[k + 1] = RegisterEvent(f[k], l[k + 1])
                  /\ Register(base, l) = f[Len(l)]
  <1>1. DOMAIN l = 1..Len(l) /\ Len(l) \in Nat
    OBVIOUS
  <1> DEFINE F == [x \in A \X (1..Len(l)) |-> RegisterEvent(x[1], l[x[2]])]
             Is(g, p) == IF p = {} THEN base ELSE RegisterEvent(g[p \ {Max(p)}], l[Max(p)])
  <1>2. F \in [A \X (1..Len(l)) -> A]
    BY <1>1
  <1>3. PICK g \in [SUBSET (1..Len(l)) -> A] :
           \A p \in SUBSET (1..Len(l)) :
              g[p] = IF p = {} THEN base ELSE F[<<g[p \ {Max(p)}], Max(p)>>]
    <2> HIDE DEF F
    <2>1. \E g \in [SUBSET (1..Len(l)) -> A] : Recursion(g, Len(l), base, F)
      BY <1>1, <1>2, FoldExists
    <2>2. QED BY <2>1 DEF Recursion
  <1>4. ASSUME NEW p \in SUBSET (1..Len(l)) PROVE g[p] = Is(g, p)
    <2>1. CASE p = {}
      BY <1>3, <2>1
    <2>2. CASE p # {}
      <3>1. Max(p) \in p
        BY <1>1, <2>2, MaxIs
      <3>2. Max(p) \in 1..Len(l) /\ g[p \ {Max(p)}] \in A
        BY <3>1
      <3>3. F[<<g[p \ {Max(p)}], Max(p)>>] = RegisterEvent(g[p \ {Max(p)}], l[Max(p)])
        BY <3>2
      <3> HIDE DEF F
      <3>4. g[p] = F[<<g[p \ {Max(p)}], Max(p)>>]
        BY <1>3, <2>2
      <3>5. QED BY <2>2, <3>3, <3>4
    <2>3. QED BY <2>1, <2>2
  <1> HIDE DEF F
  <1>5. g = [p \in SUBSET (1..Len(l)) |-> Is(g, p)]
    BY <1>3, <1>4
  <1>6. PICK h : h = CHOOSE i : i = [p \in SUBSET (1..Len(l)) |-> Is(i, p)]
    OBVIOUS
  <1>7. h = [p \in SUBSET (1..Len(l)) |-> Is(h, p)]
    BY <1>5, <1>6
  <1>8. Register(base, l) = h[1..Len(l)]
    BY <1>1, <1>6 DEF Register, FoldLeft, MapThenFoldSet
  <1>9. h[{}] = base /\ 1..0 = {}
    BY <1>7
  <1>10. ASSUME NEW k \in 0..(Len(l) - 1) PROVE h[1..(k + 1)] = RegisterEvent(h[1..k], l[k + 1])
    <2>1. k \in Nat /\ 1..(k + 1) \in SUBSET (1..Len(l))
      BY <1>1
    <2>2. Max(1..(k + 1)) = k + 1 /\ 1..(k + 1) # {} /\ (1..(k + 1)) \ {k + 1} = 1..k
      BY <2>1, UpTo
    <2>3. h[1..(k + 1)] = Is(h, 1..(k + 1))
      BY <1>7, <2>1
    <2>4. QED BY <2>2, <2>3
  <1> DEFINE f == [k \in 0..Len(l) |-> h[1..k]]
  <1>11. f[0] = base /\ f[Len(l)] = h[1..Len(l)]
    BY <1>1, <1>9
  <1>12. \A k \in 0..(Len(l) - 1) : f[k + 1] = RegisterEvent(f[k], l[k + 1])
    BY <1>10
  <1> HIDE DEF f, Is
  <1>13. QED BY <1>8, <1>11, <1>12

LEMMA SortedIs ==
    ASSUME NEW E, NEW l \in Seq(E), NEW A, << >> \in A,
           \A a \in A, n \in DOMAIN l : Emplace(a, l[n]) \in A
    PROVE  \E f : /\ f[0] = << >>
                  /\ \A k \in 0..(Len(l) - 1) : f[k + 1] = Emplace(f[k], l[k + 1])
                  /\ Sorted(l) = f[Len(l)]
  <1>1. DOMAIN l = 1..Len(l) /\ Len(l) \in Nat
    OBVIOUS
  <1> DEFINE F == [x \in A \X (1..Len(l)) |-> Emplace(x[1], l[x[2]])]
             Is(g, p) == IF p = {} THEN << >> ELSE Emplace(g[p \ {Max(p)}], l[Max(p)])
  <1>2. F \in [A \X (1..Len(l)) -> A]
    BY <1>1
  <1>3. PICK g \in [SUBSET (1..Len(l)) -> A] :
           \A p \in SUBSET (1..Len(l)) :
              g[p] = IF p = {} THEN << >> ELSE F[<<g[p \ {Max(p)}], Max(p)>>]
    <2> HIDE DEF F
    <2>1. \E g \in [SUBSET (1..Len(l)) -> A] : Recursion(g, Len(l), << >>, F)
      BY <1>1, <1>2, FoldExists
    <2>2. QED BY <2>1 DEF Recursion
  <1>4. ASSUME NEW p \in SUBSET (1..Len(l)) PROVE g[p] = Is(g, p)
    <2>1. CASE p = {}
      BY <1>3, <2>1
    <2>2. CASE p # {}
      <3>1. Max(p) \in p
        BY <1>1, <2>2, MaxIs
      <3>2. Max(p) \in 1..Len(l) /\ g[p \ {Max(p)}] \in A
        BY <3>1
      <3>3. F[<<g[p \ {Max(p)}], Max(p)>>] = Emplace(g[p \ {Max(p)}], l[Max(p)])
        BY <3>2
      <3> HIDE DEF F
      <3>4. g[p] = F[<<g[p \ {Max(p)}], Max(p)>>]
        BY <1>3, <2>2
      <3>5. QED BY <2>2, <3>3, <3>4
    <2>3. QED BY <2>1, <2>2
  <1> HIDE DEF F
  <1>5. g = [p \in SUBSET (1..Len(l)) |-> Is(g, p)]
    BY <1>3, <1>4
  <1>6. PICK h : h = CHOOSE i : i = [p \in SUBSET (1..Len(l)) |-> Is(i, p)]
    OBVIOUS
  <1>7. h = [p \in SUBSET (1..Len(l)) |-> Is(h, p)]
    BY <1>5, <1>6
  <1>8. Sorted(l) = h[1..Len(l)]
    BY <1>1, <1>6 DEF Sorted, FoldLeft, MapThenFoldSet
  <1>9. h[{}] = << >> /\ 1..0 = {}
    BY <1>7
  <1>10. ASSUME NEW k \in 0..(Len(l) - 1) PROVE h[1..(k + 1)] = Emplace(h[1..k], l[k + 1])
    <2>1. k \in Nat /\ 1..(k + 1) \in SUBSET (1..Len(l))
      BY <1>1
    <2>2. Max(1..(k + 1)) = k + 1 /\ 1..(k + 1) # {} /\ (1..(k + 1)) \ {k + 1} = 1..k
      BY <2>1, UpTo
    <2>3. h[1..(k + 1)] = Is(h, 1..(k + 1))
      BY <1>7, <2>1
    <2>4. QED BY <2>2, <2>3
  <1> DEFINE f == [k \in 0..Len(l) |-> h[1..k]]
  <1>11. f[0] = << >> /\ f[Len(l)] = h[1..Len(l)]
    BY <1>1, <1>9
  <1>12. \A k \in 0..(Len(l) - 1) : f[k + 1] = Emplace(f[k], l[k + 1])
    BY <1>10
  <1> HIDE DEF f, Is
  <1>13. QED BY <1>8, <1>11, <1>12

LEMMA TellAllIs ==
    ASSUME NEW i, NEW E, NEW l \in Seq(E), NEW A, NEW base \in A,
           \A a \in A, n \in DOMAIN l : TellEvent(i, a, l[n][1], l[n][2]) \in A
    PROVE  \E f : /\ f[0] = base
                  /\ \A k \in 0..(Len(l) - 1) :
                        f[k + 1] = TellEvent(i, f[k], l[k + 1][1], l[k + 1][2])
                  /\ TellAll(i, base, l) = f[Len(l)]
  <1>1. DOMAIN l = 1..Len(l) /\ Len(l) \in Nat
    OBVIOUS
  <1> DEFINE F == [x \in A \X (1..Len(l)) |-> TellEvent(i, x[1], l[x[2]][1], l[x[2]][2])]
             Is(g, p) == IF p = {} THEN base
                         ELSE TellEvent(i, g[p \ {Max(p)}], l[Max(p)][1], l[Max(p)][2])
  <1>2. F \in [A \X (1..Len(l)) -> A]
    BY <1>1
  <1>3. PICK g \in [SUBSET (1..Len(l)) -> A] :
           \A p \in SUBSET (1..Len(l)) :
              g[p] = IF p = {} THEN base ELSE F[<<g[p \ {Max(p)}], Max(p)>>]
    <2> HIDE DEF F
    <2>1. \E g \in [SUBSET (1..Len(l)) -> A] : Recursion(g, Len(l), base, F)
      BY <1>1, <1>2, FoldExists
    <2>2. QED BY <2>1 DEF Recursion
  <1>4. ASSUME NEW p \in SUBSET (1..Len(l)) PROVE g[p] = Is(g, p)
    <2>1. CASE p = {}
      BY <1>3, <2>1
    <2>2. CASE p # {}
      <3>1. Max(p) \in p
        BY <1>1, <2>2, MaxIs
      <3>2. Max(p) \in 1..Len(l) /\ g[p \ {Max(p)}] \in A
        BY <3>1
      <3>3. F[<<g[p \ {Max(p)}], Max(p)>>]
               = TellEvent(i, g[p \ {Max(p)}], l[Max(p)][1], l[Max(p)][2])
        BY <3>2
      <3> HIDE DEF F
      <3>4. g[p] = F[<<g[p \ {Max(p)}], Max(p)>>]
        BY <1>3, <2>2
      <3>5. QED BY <2>2, <3>3, <3>4
    <2>3. QED BY <2>1, <2>2
  <1> HIDE DEF F
  <1>5. g = [p \in SUBSET (1..Len(l)) |-> Is(g, p)]
    BY <1>3, <1>4
  <1>6. PICK h : h = CHOOSE j : j = [p \in SUBSET (1..Len(l)) |-> Is(j, p)]
    OBVIOUS
  <1>7. h = [p \in SUBSET (1..Len(l)) |-> Is(h, p)]
    BY <1>5, <1>6
  <1>8. TellAll(i, base, l) = h[1..Len(l)]
    BY <1>1, <1>6 DEF TellAll, FoldLeft, MapThenFoldSet
  <1>9. h[{}] = base /\ 1..0 = {}
    BY <1>7
  <1>10. ASSUME NEW k \in 0..(Len(l) - 1)
         PROVE  h[1..(k + 1)] = TellEvent(i, h[1..k], l[k + 1][1], l[k + 1][2])
    <2>1. k \in Nat /\ 1..(k + 1) \in SUBSET (1..Len(l))
      BY <1>1
    <2>2. Max(1..(k + 1)) = k + 1 /\ 1..(k + 1) # {} /\ (1..(k + 1)) \ {k + 1} = 1..k
      BY <2>1, UpTo
    <2>3. h[1..(k + 1)] = Is(h, 1..(k + 1))
      BY <1>7, <2>1
    <2>4. QED BY <2>2, <2>3
  <1> DEFINE f == [k \in 0..Len(l) |-> h[1..k]]
  <1>11. f[0] = base /\ f[Len(l)] = h[1..Len(l)]
    BY <1>1, <1>9
  <1>12. \A k \in 0..(Len(l) - 1) : f[k + 1] = TellEvent(i, f[k], l[k + 1][1], l[k + 1][2])
    BY <1>10
  <1> HIDE DEF f, Is
  <1>13. QED BY <1>8, <1>11, <1>12

LEMMA RoundsIs ==
    ASSUME NEW E, NEW l \in Seq(E), NEW A, NEW base \in A,
           \A a \in A, n \in DOMAIN l : Round(a, l[n]) \in A
    PROVE  \E f : /\ f[0] = base
                  /\ \A k \in 0..(Len(l) - 1) : f[k + 1] = Round(f[k], l[k + 1])
                  /\ FoldLeft(Round, base, l) = f[Len(l)]
  <1>1. DOMAIN l = 1..Len(l) /\ Len(l) \in Nat
    OBVIOUS
  <1> DEFINE F == [x \in A \X (1..Len(l)) |-> Round(x[1], l[x[2]])]
             Is(g, p) == IF p = {} THEN base ELSE Round(g[p \ {Max(p)}], l[Max(p)])
  <1>2. F \in [A \X (1..Len(l)) -> A]
    BY <1>1
  <1>3. PICK g \in [SUBSET (1..Len(l)) -> A] :
           \A p \in SUBSET (1..Len(l)) :
              g[p] = IF p = {} THEN base ELSE F[<<g[p \ {Max(p)}], Max(p)>>]
    <2> HIDE DEF F
    <2>1. \E g \in [SUBSET (1..Len(l)) -> A] : Recursion(g, Len(l), base, F)
      BY <1>1, <1>2, FoldExists
    <2>2. QED BY <2>1 DEF Recursion
  <1>4. ASSUME NEW p \in SUBSET (1..Len(l)) PROVE g[p] = Is(g, p)
    <2>1. CASE p = {}
      BY <1>3, <2>1
    <2>2. CASE p # {}
      <3>1. Max(p) \in p
        BY <1>1, <2>2, MaxIs
      <3>2. Max(p) \in 1..Len(l) /\ g[p \ {Max(p)}] \in A
        BY <3>1
      <3>3. F[<<g[p \ {Max(p)}], Max(p)>>] = Round(g[p \ {Max(p)}], l[Max(p)])
        BY <3>2
      <3> HIDE DEF F
      <3>4. g[p] = F[<<g[p \ {Max(p)}], Max(p)>>]
        BY <1>3, <2>2
      <3>5. QED BY <2>2, <3>3, <3>4
    <2>3. QED BY <2>1, <2>2
  <1> HIDE DEF F
  <1>5. g = [p \in SUBSET (1..Len(l)) |-> Is(g, p)]
    BY <1>3, <1>4
  <1>6. PICK h : h = CHOOSE i : i = [p \in SUBSET (1..Len(l)) |-> Is(i, p)]
    OBVIOUS
  <1>7. h = [p \in SUBSET (1..Len(l)) |-> Is(h, p)]
    BY <1>5, <1>6
  <1>8. FoldLeft(Round, base, l) = h[1..Len(l)]
    BY <1>1, <1>6 DEF FoldLeft, MapThenFoldSet
  <1>9. h[{}] = base /\ 1..0 = {}
    BY <1>7
  <1>10. ASSUME NEW k \in 0..(Len(l) - 1) PROVE h[1..(k + 1)] = Round(h[1..k], l[k + 1])
    <2>1. k \in Nat /\ 1..(k + 1) \in SUBSET (1..Len(l))
      BY <1>1
    <2>2. Max(1..(k + 1)) = k + 1 /\ 1..(k + 1) # {} /\ (1..(k + 1)) \ {k + 1} = 1..k
      BY <2>1, UpTo
    <2>3. h[1..(k + 1)] = Is(h, 1..(k + 1))
      BY <1>7, <2>1
    <2>4. QED BY <2>2, <2>3
  <1> DEFINE f == [k \in 0..Len(l) |-> h[1..k]]
  <1>11. f[0] = base /\ f[Len(l)] = h[1..Len(l)]
    BY <1>1, <1>9
  <1>12. \A k \in 0..(Len(l) - 1) : f[k + 1] = Round(f[k], l[k + 1])
    BY <1>10
  <1> HIDE DEF f, Is
  <1>13. QED BY <1>8, <1>11, <1>12

-----------------------------------------------------------------------------
(* What a subscription is told.                                            *)

ToldEvent == DistEvent \cup SessionEvent

\* Each event that was told has a later time than that before it, and none later
\* than the cached time of its last report.
News(x) ==
    /\ \A i, j \in DOMAIN x.told :
          i < j /\ x.told[i].event = x.told[j].event => x.told[i].time < x.told[j].time
    /\ \A i \in DOMAIN x.told : x.told[i].time <= x.last[x.told[i].event]

\* A subscription may be told more, and nothing else.
Grown(x, y) ==
    /\ y \in Subscription /\ News(y) /\ y.events = x.events
    /\ \A e \in ToldEvent : y.last[e] >= x.last[e]

LEMMA GrownSame == ASSUME NEW x \in Subscription, News(x) PROVE Grown(x, x)
  BY DEF Grown, Subscription, ToldEvent

LEMMA GrownMore ==
    ASSUME NEW x \in Subscription, NEW y, NEW z, Grown(x, y), Grown(y, z)
    PROVE  Grown(x, z)
  <1>1. y \in Subscription /\ z \in Subscription
    BY DEF Grown
  <1>2. ASSUME NEW e \in ToldEvent PROVE z.last[e] >= x.last[e]
    <2>1. x.last[e] \in Nat /\ y.last[e] \in Nat /\ z.last[e] \in Nat
      BY <1>1 DEF Subscription, ToldEvent
    <2>2. y.last[e] >= x.last[e] /\ z.last[e] >= y.last[e]
      BY DEF Grown
    <2>3. QED BY <2>1, <2>2
  <1>3. QED BY <1>2 DEF Grown

\* The subscription is told of an event if the time is later than that it knows.
LEMMA TellGrows ==
    ASSUME NEW x \in Subscription, News(x), NEW e \in ToldEvent, NEW d \in Dist \cup {NoDist},
           NEW time \in Nat
    PROVE  Grown(x, Tell(x, e, d, time)) /\ Tell(x, e, d, time).last[e] >= time
  <1>1. x.last \in [ToldEvent -> Nat] /\ x.last[e] \in Nat /\ x.told \in Seq(Told)
    BY DEF Subscription, ToldEvent
  <1>2. CASE ~IsUpdated(time, x.last[e])
    <2>1. Tell(x, e, d, time) = x
      BY <1>2 DEF Tell
    <2>2. x.last[e] >= time
      BY <1>1, <1>2 DEF IsUpdated, Never
    <2>3. QED BY <2>1, <2>2, GrownSame
  <1>3. CASE IsUpdated(time, x.last[e])
    <2>1. PICK r : r = [event |-> e, dist |-> d, time |-> time]
      OBVIOUS
    <2>2. r \in Told /\ r.event = e /\ r.time = time
      BY <2>1 DEF Told, ToldEvent
    <2>3. PICK t : t = Append(x.told, r)
      OBVIOUS
    <2>4. PICK last : last = [x.last EXCEPT ![e] = time]
      OBVIOUS
    <2>5. /\ last \in [ToldEvent -> Nat] /\ last[e] = time
          /\ \A f \in ToldEvent : f # e => last[f] = x.last[f]
      BY <1>1, <2>4
    <2>6. time > x.last[e]
      BY <1>3 DEF IsUpdated
    <2>7. \A f \in ToldEvent : last[f] >= x.last[f]
      BY <1>1, <2>5, <2>6
    <2>8. /\ t \in Seq(Told) /\ DOMAIN t = 1..(Len(x.told) + 1)
          /\ DOMAIN x.told = 1..Len(x.told) /\ Len(x.told) \in Nat
          /\ t[Len(x.told) + 1] = r /\ \A i \in DOMAIN x.told : t[i] = x.told[i]
      BY <1>1, <2>2, <2>3
    <2>9. Tell(x, e, d, time) = [x EXCEPT !.last = last, !.told = t]
      BY <1>3, <2>1, <2>3, <2>4 DEF Tell, Subscription
    <2> DEFINE y == [x EXCEPT !.last = last, !.told = t]
    <2>10. /\ y \in Subscription /\ y.events = x.events /\ y.last = last /\ y.told = t
      BY <2>5, <2>8 DEF Subscription, ToldEvent
    <2>11. ASSUME NEW i \in DOMAIN x.told
           PROVE  /\ x.told[i].event \in ToldEvent /\ x.told[i].time \in Nat
                  /\ x.told[i].time <= x.last[x.told[i].event]
      <3>1. x.told[i] \in Told
        BY <1>1
      <3>2. x.told[i].event \in ToldEvent /\ x.told[i].time \in Nat
        BY <3>1 DEF Told, ToldEvent
      <3>3. QED BY <3>2 DEF News
    <2>12. \A i \in DOMAIN t : t[i].time <= last[t[i].event]
      <3>1. ASSUME NEW i \in DOMAIN x.told PROVE t[i].time <= last[t[i].event]
        <4>1. PICK f \in ToldEvent : f = x.told[i].event
          BY <2>11
        <4>2. last[f] >= x.last[f] /\ last[f] \in Nat /\ x.last[f] \in Nat
          BY <1>1, <2>5, <2>7
        <4>3. x.told[i].time \in Nat /\ x.told[i].time <= x.last[f] /\ t[i] = x.told[i]
          BY <2>8, <2>11, <4>1
        <4>4. QED BY <4>1, <4>2, <4>3
      <3>2. t[Len(x.told) + 1].time <= last[t[Len(x.told) + 1].event]
        BY <2>2, <2>5, <2>8
      <3>3. QED BY <2>8, <3>1, <3>2
    <2>13. ASSUME NEW i \in DOMAIN t, NEW j \in DOMAIN t, i < j, t[i].event = t[j].event
           PROVE  t[i].time < t[j].time
      <3>1. i \in DOMAIN x.told /\ t[i] = x.told[i]
        BY <2>8, <2>13
      <3>2. CASE j \in DOMAIN x.told
        BY <2>8, <2>13, <3>1, <3>2 DEF News
      <3>3. CASE j = Len(x.told) + 1
        <4>1. t[i].event = e /\ t[j].time = time
          BY <2>2, <2>8, <2>13, <3>3
        <4>2. t[i].time \in Nat /\ t[i].time <= x.last[e]
          BY <2>11, <3>1, <4>1
        <4>3. QED BY <1>1, <2>6, <4>1, <4>2
      <3>4. QED BY <2>8, <3>2, <3>3
    <2> HIDE DEF y
    <2>14. News(y)
      BY <2>10, <2>12, <2>13 DEF News
    <2>15. Grown(x, y)
      BY <2>7, <2>10, <2>14 DEF Grown
    <2>16. y.last[e] >= time
      BY <2>5, <2>10
    <2>17. QED BY <2>9, <2>15, <2>16 DEF y
  <1>4. QED BY <1>2, <1>3

LEMMA TellEventGrows ==
    ASSUME NEW i \in [Dist -> Info], NEW x \in Subscription, News(x), NEW e, NEW d
    PROVE  /\ Grown(x, TellEvent(i, x, e, d))
           /\ d \in Dist /\ e \in DistEvent => TellEvent(i, x, e, d).last[e] >= i[d].stamp[e]
  <1>1. PICK y : y = IF e \in SessionEvent THEN Tell(x, e, NoDist, x.own[e]) ELSE x
    OBVIOUS
  <1>2. Grown(x, y)
    <2>1. CASE e \in SessionEvent
      <3>1. x.own[e] \in Nat /\ e \in ToldEvent
        BY <2>1 DEF Subscription, ToldEvent
      <3>2. QED BY <1>1, <2>1, <3>1, TellGrows
    <2>2. CASE e \notin SessionEvent
      BY <1>1, <2>2, GrownSame
    <2>3. QED BY <2>1, <2>2
  <1>3. CASE d \in Dist /\ e \in DistEvent
    <2>1. i[d].stamp[e] \in Nat /\ e \in ToldEvent
      BY <1>3 DEF Info, ToldEvent
    <2>2. y \in Subscription /\ News(y)
      BY <1>2 DEF Grown
    <2>3. TellEvent(i, x, e, d) = Tell(y, e, d, i[d].stamp[e])
      BY <1>1, <1>3 DEF TellEvent
    <2>4. /\ Grown(y, Tell(y, e, d, i[d].stamp[e]))
          /\ Tell(y, e, d, i[d].stamp[e]).last[e] >= i[d].stamp[e]
      BY <1>3, <2>1, <2>2, TellGrows
    <2>5. QED BY <1>2, <2>3, <2>4, GrownMore
  <1>4. CASE ~(d \in Dist /\ e \in DistEvent)
    BY <1>1, <1>2, <1>4 DEF TellEvent
  <1>5. QED BY <1>3, <1>4

\* Nothing newer is left untold of the event and the distribution session that
\* the n-th entry of the list names.
UpToDate(i, l, y, n) ==
    l[n][2] \in Dist /\ l[n][1] \in DistEvent => y.last[l[n][1]] >= i[l[n][2]].stamp[l[n][1]]

LEMMA UpToDateStays ==
    ASSUME NEW i \in [Dist -> Info], NEW x \in Subscription, NEW y, Grown(x, y),
           NEW l, NEW n, UpToDate(i, l, x, n)
    PROVE  UpToDate(i, l, y, n)
  <1>1. SUFFICES ASSUME l[n][2] \in Dist, l[n][1] \in DistEvent
                 PROVE  y.last[l[n][1]] >= i[l[n][2]].stamp[l[n][1]]
    BY DEF UpToDate
  <1>2. PICK e \in ToldEvent : e = l[n][1]
    BY <1>1 DEF ToldEvent
  <1>3. y.last[e] >= x.last[e] /\ x.last[e] >= i[l[n][2]].stamp[e]
    BY <1>1, <1>2 DEF Grown, UpToDate
  <1>4. y.last[e] \in Nat /\ x.last[e] \in Nat
    BY DEF Grown, Subscription, ToldEvent
  <1>5. i[l[n][2]].stamp[e] \in Nat
    BY <1>1, <1>2 DEF Info
  <1>6. QED BY <1>2, <1>3, <1>4, <1>5

\* All events of the list are told of.
LEMMA TellAllGrows ==
    ASSUME NEW i \in [Dist -> Info], NEW x \in Subscription, News(x), NEW E, NEW l \in Seq(E)
    PROVE  /\ Grown(x, TellAll(i, x, l))
           /\ \A n \in DOMAIN l : UpToDate(i, l, TellAll(i, x, l), n)
  <1>0. Len(l) \in Nat /\ DOMAIN l = 1..Len(l)
    OBVIOUS
  <1> DEFINE A == {z \in Subscription : Grown(x, z)}
             B == [k \in 0..Len(l) |-> {z \in A : \A n \in 1..k : UpToDate(i, l, z, n)}]
  <1>1. x \in A
    BY GrownSame
  <1>2. ASSUME NEW z \in A, NEW n \in DOMAIN l, NEW v, v = TellEvent(i, z, l[n][1], l[n][2])
        PROVE  v \in A /\ Grown(z, v) /\ UpToDate(i, l, v, n)
    <2>1. z \in Subscription /\ News(z) /\ Grown(x, z)
      BY DEF Grown
    <2>2. Grown(z, v) /\ UpToDate(i, l, v, n)
      BY <1>2, <2>1, TellEventGrows DEF UpToDate
    <2>3. Grown(x, v)
      BY <2>1, <2>2, GrownMore
    <2>4. QED BY <2>2, <2>3 DEF Grown
  <1>3. \A z \in A : z \in Subscription
    OBVIOUS
  <1>4. ASSUME NEW k \in 0..Len(l), NEW z
        PROVE  z \in B[k] <=> z \in A /\ \A n \in 1..k : UpToDate(i, l, z, n)
    OBVIOUS
  <1> HIDE DEF A, B
  <1>5. \A z \in A, n \in DOMAIN l : TellEvent(i, z, l[n][1], l[n][2]) \in A
    BY <1>2
  <1>6. PICK f : /\ f[0] = x
                 /\ \A k \in 0..(Len(l) - 1) :
                       f[k + 1] = TellEvent(i, f[k], l[k + 1][1], l[k + 1][2])
                 /\ TellAll(i, x, l) = f[Len(l)]
    BY <1>1, <1>5, TellAllIs
  <1>7. f[0] \in B[0]
    <2>1. 0 \in 0..Len(l) /\ \A n \in 1..0 : FALSE
      BY <1>0
    <2>2. QED BY <1>1, <1>4, <1>6, <2>1
  <1>8. ASSUME NEW k \in 0..(Len(l) - 1), f[k] \in B[k] PROVE f[k + 1] \in B[k + 1]
    <2>1. k \in Nat /\ k + 1 \in DOMAIN l /\ k + 1 \in 0..Len(l) /\ k \in 0..Len(l)
      BY <1>0
    <2>2. PICK z \in A : z = f[k] /\ \A n \in 1..k : UpToDate(i, l, z, n)
      BY <1>4, <1>8, <2>1
    <2>3. PICK v : v = TellEvent(i, z, l[k + 1][1], l[k + 1][2])
      OBVIOUS
    <2>4. v \in A /\ Grown(z, v) /\ UpToDate(i, l, v, k + 1)
      BY <1>2, <2>1, <2>3
    <2>5. f[k + 1] = v
      BY <1>6, <2>2, <2>3
    <2>6. \A n \in 1..k : UpToDate(i, l, v, n)
      BY <1>3, <2>2, <2>4, UpToDateStays
    <2>7. \A n \in 1..(k + 1) : n \in 1..k \/ n = k + 1
      BY <2>1
    <2>8. \A n \in 1..(k + 1) : UpToDate(i, l, v, n)
      BY <2>4, <2>6, <2>7
    <2>9. QED BY <1>4, <2>1, <2>4, <2>5, <2>8
  <1>9. \A k \in 0..Len(l) : f[k] \in B[k]
    BY <1>0, <1>7, <1>8, FoldReaches
  <1>10. Len(l) \in 0..Len(l)
    BY <1>0
  <1>11. f[Len(l)] \in A /\ \A n \in 1..Len(l) : UpToDate(i, l, f[Len(l)], n)
    BY <1>4, <1>9, <1>10
  <1>12. QED BY <1>0, <1>6, <1>11 DEF A

-----------------------------------------------------------------------------
(* Reports, and what is registered of them.                                *)

KnownReport == {r \in Report : r.type # UnknownType}

LEMMA EventOfIs == ASSUME NEW r \in KnownReport PROVE EventOf(r.type) \in DistEvent
  BY DEF EventOf, KnownReport, Report, ReportType, Failure, DistEvent

LEMMA RegisterEventIs ==
    ASSUME NEW i \in Info, NEW r \in KnownReport
    PROVE  RegisterEvent(i, r) \in Info
  <1>1. EventOf(r.type) \in DistEvent /\ r.time \in Nat
    BY EventOfIs DEF KnownReport, Report
  <1>2. QED BY <1>1 DEF RegisterEvent, Info

LEMMA ProcessEventIs ==
    ASSUME NEW i \in Info, NEW r \in KnownReport
    PROVE  ProcessEvent(i, r) \in Info
  <1>1. "DIST_SESS_TERMINATED" \in DistEvent /\ r.time \in Nat
    BY DEF DistEvent, KnownReport, Report
  <1>2. QED BY <1>1 DEF ProcessEvent, Info

LEMMA RegisteredIs ==
    ASSUME NEW i \in Info, NEW s \in Seq(KnownReport)
    PROVE  Register(ProcessEvents(i, s), s) \in Info
  <1>0. DOMAIN s = 1..Len(s) /\ Len(s) \in Nat /\ \A n \in DOMAIN s : s[n] \in KnownReport
    OBVIOUS
  <1> DEFINE B == [k \in 0..Len(s) |-> Info]
  <1>1. ProcessEvents(i, s) \in Info
    <2>1. \A a \in Info, n \in DOMAIN s : ProcessEvent(a, s[n]) \in Info
      BY <1>0, ProcessEventIs
    <2>2. PICK f : /\ f[0] = i
                   /\ \A k \in 0..(Len(s) - 1) : f[k + 1] = ProcessEvent(f[k], s[k + 1])
                   /\ ProcessEvents(i, s) = f[Len(s)]
      BY <2>1, ProcessEventsIs
    <2>3. f[0] \in B[0]
      BY <1>0, <2>2
    <2>4. ASSUME NEW k \in 0..(Len(s) - 1), f[k] \in B[k] PROVE f[k + 1] \in B[k + 1]
      <3>1. k \in 0..Len(s) /\ k + 1 \in 0..Len(s) /\ k + 1 \in DOMAIN s
        BY <1>0
      <3>2. QED BY <2>1, <2>2, <2>4, <3>1
    <2> HIDE DEF B
    <2>5. \A k \in 0..Len(s) : f[k] \in B[k]
      BY <1>0, <2>3, <2>4, FoldReaches
    <2>6. Len(s) \in 0..Len(s)
      BY <1>0
    <2>7. QED BY <2>2, <2>5, <2>6 DEF B
  <1>2. PICK j \in Info : j = ProcessEvents(i, s)
    BY <1>1
  <1>3. Register(j, s) \in Info
    <2>1. \A a \in Info, n \in DOMAIN s : RegisterEvent(a, s[n]) \in Info
      BY <1>0, RegisterEventIs
    <2>2. PICK f : /\ f[0] = j
                   /\ \A k \in 0..(Len(s) - 1) : f[k + 1] = RegisterEvent(f[k], s[k + 1])
                   /\ Register(j, s) = f[Len(s)]
      BY <2>1, RegisterIs
    <2>3. f[0] \in B[0]
      BY <1>0, <2>2
    <2>4. ASSUME NEW k \in 0..(Len(s) - 1), f[k] \in B[k] PROVE f[k + 1] \in B[k + 1]
      <3>1. k \in 0..Len(s) /\ k + 1 \in 0..Len(s) /\ k + 1 \in DOMAIN s
        BY <1>0
      <3>2. QED BY <2>1, <2>2, <2>4, <3>1
    <2> HIDE DEF B
    <2>5. \A k \in 0..Len(s) : f[k] \in B[k]
      BY <1>0, <2>3, <2>4, FoldReaches
    <2>6. Len(s) \in 0..Len(s)
      BY <1>0
    <2>7. QED BY <2>2, <2>5, <2>6 DEF B
  <1>4. QED BY <1>2, <1>3

LEMMA EmplaceIs ==
    ASSUME NEW s \in Seq(Report), NEW r \in Report
    PROVE  Emplace(s, r) \in Seq(Report)
  <1>1. PICK p : p = {n \in DOMAIN s : s[n].time <= r.time}
    OBVIOUS
  <1>2. DOMAIN s = 1..Len(s) /\ Len(s) \in Nat /\ p \in SUBSET (1..Len(s))
    BY <1>1
  <1>3. PICK all : all = 1..Len(s)
    OBVIOUS
  <1>4. IsFiniteSet(p) /\ Cardinality(p) <= Len(s)
    <2>1. 1 \in Int /\ Len(s) \in Int
      BY <1>2
    <2>2. IsFiniteSet(all) /\ Cardinality(all) = IF 1 > Len(s) THEN 0 ELSE Len(s) - 1 + 1
      BY <1>3, <2>1, FS_Interval
    <2>3. Cardinality(all) = Len(s)
      BY <1>2, <2>2
    <2>4. p \in SUBSET all
      BY <1>2, <1>3
    <2>5. IsFiniteSet(p) /\ Cardinality(p) <= Cardinality(all)
      BY <2>2, <2>4, FS_Subset
    <2>6. QED BY <2>3, <2>5
  <1>5. PICK c \in 0..Len(s) : c = Cardinality(p)
    BY <1>2, <1>4, FS_CardinalityType
  <1>6. SubSeq(s, 1, (c + 1) - 1) \in Seq(Report)
    <2>1. 1 \in Int /\ (c + 1) - 1 \in Int /\ \A i \in 1..((c + 1) - 1) : s[i] \in Report
      BY <1>2
    <2>2. QED BY <2>1, SubSeqProperties
  <1>7. SubSeq(s, c + 1, Len(s)) \in Seq(Report)
    <2>1. c + 1 \in Int /\ Len(s) \in Int /\ \A i \in (c + 1)..Len(s) : s[i] \in Report
      BY <1>2
    <2>2. QED BY <2>1, SubSeqProperties
  <1>8. <<r>> \in Seq(Report)
    OBVIOUS
  <1>9. InsertAt(s, c + 1, r) \in Seq(Report)
    <2>1. SubSeq(s, 1, (c + 1) - 1) \o <<r>> \in Seq(Report)
      BY <1>6, <1>8, ConcatProperties
    <2>2. QED BY <1>7, <2>1, ConcatProperties DEF InsertAt
  <1>10. QED BY <1>1, <1>5, <1>9 DEF Emplace

LEMMA SortedReports == ASSUME NEW l \in Seq(Report) PROVE Sorted(l) \in Seq(Report)
  <1>0. DOMAIN l = 1..Len(l) /\ Len(l) \in Nat /\ \A n \in DOMAIN l : l[n] \in Report
    OBVIOUS
  <1> DEFINE B == [k \in 0..Len(l) |-> Seq(Report)]
  <1>1. \A a \in Seq(Report), n \in DOMAIN l : Emplace(a, l[n]) \in Seq(Report)
    BY <1>0, EmplaceIs
  <1>2. PICK f : /\ f[0] = << >>
                 /\ \A k \in 0..(Len(l) - 1) : f[k + 1] = Emplace(f[k], l[k + 1])
                 /\ Sorted(l) = f[Len(l)]
    <2>1. << >> \in Seq(Report)
      OBVIOUS
    <2>2. QED BY <1>1, <2>1, SortedIs
  <1>3. f[0] \in B[0]
    BY <1>0, <1>2
  <1>4. ASSUME NEW k \in 0..(Len(l) - 1), f[k] \in B[k] PROVE f[k + 1] \in B[k + 1]
    <2>1. k \in 0..Len(l) /\ k + 1 \in 0..Len(l) /\ k + 1 \in DOMAIN l
      BY <1>0
    <2>2. QED BY <1>1, <1>2, <1>4, <2>1
  <1> HIDE DEF B
  <1>5. \A k \in 0..Len(l) : f[k] \in B[k]
    BY <1>0, <1>3, <1>4, FoldReaches
  <1>6. Len(l) \in 0..Len(l)
    BY <1>0
  <1>7. QED BY <1>2, <1>5, <1>6 DEF B

-----------------------------------------------------------------------------
(* Sending: what it does to the subscriptions and to what is known of the  *)
(* distribution sessions.                                                  *)

Worlds == [sub: [Sub -> Subscription \cup {NoSubscription}], info: [Dist -> Info],
           sent: BOOLEAN, stop: BOOLEAN,
           ends: {"no", "nullContext", "unknownEvent"}]

Fine(w) == w \in Worlds /\ \A s \in Exists(w.sub) : News(w.sub[s])

\* A subscription names a distribution session that the ingest session has not.
Stray(subs) == \E s \in Exists(subs) : ~(NamedDists(subs[s].events) \subseteq Dist)

\* A subscription names a distribution session with an unknown event.
UnheardOf(subs) == \E s \in Exists(subs) : Unheard(subs[s].events)

\* From w, sending comes to v: each subscription was told more, and the process
\* ended only for a subscription that gives it a reason to.
Leads(w, v) ==
    /\ Fine(v)
    /\ Exists(v.sub) = Exists(w.sub)
    /\ \A s \in Exists(w.sub) : Grown(w.sub[s], v.sub[s])
    /\ \A d \in Dist : v.info[d].stamp = w.info[d].stamp
    /\ \/ v.ends = w.ends
       \/ v.ends = "nullContext" /\ Stray(w.sub)
       \/ v.ends = "unknownEvent" /\ UnheardOf(w.sub)

LEMMA NoneIsNot == NoSubscription \notin Subscription
  BY SubscriptionsAssumption DEF NoSubscription, Subscription

LEMMA ExistsIs ==
    ASSUME NEW f \in [Sub -> Subscription \cup {NoSubscription}]
    PROVE  /\ Exists(f) \in SUBSET Sub
           /\ \A s \in Sub : s \in Exists(f) <=> f[s] \in Subscription
  BY NoneIsNot DEF Exists

LEMMA LeadsSame == ASSUME NEW w, Fine(w) PROVE Leads(w, w)
  <1>1. \A s \in Exists(w.sub) : w.sub[s] \in Subscription /\ News(w.sub[s])
    BY ExistsIs DEF Fine, Worlds
  <1>2. QED BY <1>1, GrownSame DEF Leads

LEMMA LeadsMore ==
    ASSUME NEW u, NEW v, NEW w, Fine(u), Leads(u, v), Leads(v, w)
    PROVE  Leads(u, w)
  <1>1. \A s \in Exists(u.sub) : u.sub[s] \in Subscription
    BY ExistsIs DEF Fine, Worlds
  <1>2. \A s \in Exists(u.sub) : Grown(u.sub[s], w.sub[s]) /\ v.sub[s].events = u.sub[s].events
    BY <1>1, GrownMore DEF Leads, Grown
  <1>3. (Stray(v.sub) => Stray(u.sub)) /\ (UnheardOf(v.sub) => UnheardOf(u.sub))
    BY <1>2 DEF Leads, Stray, UnheardOf
  <1>4. QED BY <1>2, <1>3 DEF Leads

\* One subscription is told more.
LEMMA OneLeads ==
    ASSUME NEW w, Fine(w), NEW s \in Exists(w.sub), NEW y, Grown(w.sub[s], y),
           NEW i \in [Dist -> Info], \A d \in Dist : i[d].stamp = w.info[d].stamp,
           NEW v \in Worlds, v.sub = [w.sub EXCEPT ![s] = y], v.info = i, v.ends = w.ends
    PROVE  Leads(w, v)
  <1>1. w.sub \in [Sub -> Subscription \cup {NoSubscription}] /\ s \in Sub
    BY ExistsIs DEF Fine, Worlds
  <1>2. y \in Subscription /\ News(y)
    BY DEF Grown
  <1>3. \A x \in Sub : v.sub[x] = IF x = s THEN y ELSE w.sub[x]
    BY <1>1
  <1>4. v.sub \in [Sub -> Subscription \cup {NoSubscription}]
    BY DEF Worlds
  <1>5. Exists(v.sub) = Exists(w.sub)
    <2>1. \A x \in Sub : x \in Exists(v.sub) <=> x \in Exists(w.sub)
      BY <1>1, <1>2, <1>3, <1>4, ExistsIs
    <2>2. Exists(v.sub) \in SUBSET Sub /\ Exists(w.sub) \in SUBSET Sub
      BY <1>1, <1>4, ExistsIs
    <2>3. QED BY <2>1, <2>2
  <1>6. \A x \in Exists(w.sub) : x \in Sub /\ w.sub[x] \in Subscription /\ News(w.sub[x])
    BY <1>1, ExistsIs DEF Fine
  <1>7. \A x \in Exists(w.sub) : Grown(w.sub[x], v.sub[x])
    BY <1>3, <1>6, GrownSame
  <1>8. \A x \in Exists(v.sub) : News(v.sub[x])
    BY <1>5, <1>7 DEF Grown
  <1>9. QED BY <1>5, <1>7, <1>8 DEF Leads, Fine

\* A non-empty set of naturals with a bound has its maximum.
LEMMA MaxOf ==
    ASSUME NEW S \in SUBSET Nat, S # {}, NEW b \in Nat, \A y \in S : y <= b
    PROVE  Max(S) \in S
  <1> DEFINE T == {m \in Nat : \A y \in S : y <= m}
  <1>1. T # {} /\ T \subseteq Nat
    OBVIOUS
  <1>2. PICK m \in T : \A j \in T : m <= j
    BY <1>1, Least
  <1>3. m \in S
    <2>1. SUFFICES ASSUME m \notin S PROVE FALSE
      OBVIOUS
    <2>2. PICK y \in S : TRUE
      OBVIOUS
    <2>3. y \in Nat /\ m \in Nat /\ y <= m /\ y # m
      BY <2>1
    <2>4. m - 1 \in Nat
      BY <2>3
    <2>5. ASSUME NEW z \in S PROVE z <= m - 1
      <3>1. z \in Nat /\ m \in Nat /\ z <= m /\ z # m
        BY <2>1
      <3>2. QED BY <3>1
    <2>6. m - 1 \in T
      BY <2>4, <2>5
    <2>7. QED BY <1>2, <2>3, <2>6
  <1>4. \E x \in S : \A y \in S : x >= y
    BY <1>3
  <1>5. QED BY <1>4 DEF Max

LEMMA LatestIs ==
    ASSUME NEW i \in [Dist -> Info], NEW e \in DistEvent
    PROVE  Latest(i, e) \in Nat
  <1>1. PICK n \in Nat : \E f \in [1..n -> Dist] : \A d \in Dist : \E k \in 1..n : f[k] = d
    <2>1. IsFiniteSet(Dist)
      BY SubscriptionsAssumption
    <2>2. \E n \in Nat : ExistsSurjection(1..n, Dist)
      BY <2>1, FS_NatSurjection
    <2>3. QED BY <2>2 DEF ExistsSurjection, Surjection
  <1>0. PICK f \in [1..n -> Dist] : \A d \in Dist : \E k \in 1..n : f[k] = d
    BY <1>1
  <1>2. \A d \in Dist : i[d].stamp[e] \in Nat
    BY DEF Info
  <1> DEFINE Bounded(k) == k <= n => \E m \in Nat : \A j \in 1..k : i[f[j]].stamp[e] <= m
             K == {k \in Nat : Bounded(k)}
  <1>3. 0 \in K
    OBVIOUS
  <1>4. ASSUME NEW k \in K PROVE k + 1 \in K
    <2>1. SUFFICES ASSUME k + 1 <= n
                   PROVE  \E m \in Nat : \A j \in 1..(k + 1) : i[f[j]].stamp[e] <= m
      OBVIOUS
    <2>2. k \in Nat /\ k <= n
      BY <2>1
    <2>3. PICK m \in Nat : \A j \in 1..k : i[f[j]].stamp[e] <= m
      BY <2>2
    <2>4. PICK t \in Nat : t = i[f[k + 1]].stamp[e]
      <3>1. k + 1 \in 1..n
        BY <2>1, <2>2
      <3>2. f[k + 1] \in Dist
        BY <3>1
      <3>3. QED BY <1>2, <3>2
    <2>5. \A j \in 1..k : i[f[j]].stamp[e] <= m + t
      <3>1. SUFFICES ASSUME NEW j \in 1..k PROVE i[f[j]].stamp[e] <= m + t
        OBVIOUS
      <3>2. j \in 1..n
        BY <2>2
      <3>3. i[f[j]].stamp[e] \in Nat /\ i[f[j]].stamp[e] <= m
        BY <1>2, <2>3, <3>2
      <3>4. QED BY <3>3
    <2>6. \A j \in 1..(k + 1) : j \in 1..k \/ j = k + 1
      BY <2>2
    <2>7. i[f[k + 1]].stamp[e] <= m + t /\ m + t \in Nat
      BY <2>4
    <2>8. QED BY <2>5, <2>6, <2>7
  <1>5. K \in SUBSET Nat
    OBVIOUS
  <1> HIDE DEF K
  <1>6. n \in K
    BY <1>3, <1>4, <1>5, Induct
  <1>7. PICK m \in Nat : \A j \in 1..n : i[f[j]].stamp[e] <= m
    <2>1. n <= n /\ Bounded(n)
      BY <1>6 DEF K
    <2>2. QED BY <2>1
  <1>8. PICK S : S = {i[d].stamp[e] : d \in Dist}
    OBVIOUS
  <1>9. S \in SUBSET Nat /\ S # {} /\ \A y \in S : y <= m
    BY <1>0, <1>2, <1>7, <1>8, SubscriptionsAssumption
  <1>10. Max(S) \in Nat
    BY <1>9, MaxOf
  <1>11. QED BY <1>8, <1>10 DEF Latest

LEMMA LeastOf ==
    ASSUME NEW S \in SUBSET Nat, S # {}
    PROVE  Min(S) \in S
  <1>1. \E x \in S : \A y \in S : x <= y
    BY Least
  <1>2. QED BY <1>1 DEF Min

LEMMA FirstIs ==
    ASSUME NEW S \in SUBSET Sub, S # {}
    PROVE  Min(S) \in S
  <1>1. S \in SUBSET Nat
    BY SubscriptionsAssumption DEF Sub
  <1>2. QED BY <1>1, LeastOf

\* STARTED and TERMINATED: the first subscription in the map is given the time.
LEMMA SetSessionEventLeads ==
    ASSUME NEW w, Fine(w), Exists(w.sub) # {}, NEW event \in SessionEvent,
           NEW flag \in {"established", "terminated"}, NEW source \in DistEvent
    PROVE  Leads(w, SetSessionEvent(w, event, flag, source))
  <1>1. w.sub \in [Sub -> Subscription \cup {NoSubscription}] /\ w.info \in [Dist -> Info]
    BY DEF Fine, Worlds
  <1>2. PICK s : s = Min(Exists(w.sub))
    OBVIOUS
  <1>3. s \in Exists(w.sub) /\ s \in Sub
    BY <1>1, <1>2, ExistsIs, FirstIs
  <1>4. w.sub[s] \in Subscription /\ News(w.sub[s])
    BY <1>1, <1>3, ExistsIs DEF Fine
  <1>5. PICK t \in Nat : t = Latest(w.info, source)
    BY <1>1, LatestIs
  <1>6. PICK y : y = [w.sub[s] EXCEPT !.own[event] = t]
    OBVIOUS
  <1>7. PICK i : i = [d \in Dist |-> [w.info[d] EXCEPT ![flag] = FALSE]]
    OBVIOUS
  <1>8. i \in [Dist -> Info] /\ \A d \in Dist : i[d].stamp = w.info[d].stamp
    <2>1. ASSUME NEW d \in Dist PROVE i[d] \in Info /\ i[d].stamp = w.info[d].stamp
      <3>1. w.info[d] \in Info /\ i[d] = [w.info[d] EXCEPT ![flag] = FALSE]
        BY <1>1, <1>7
      <3>2. CASE flag = "established"
        BY <3>1, <3>2 DEF Info
      <3>3. CASE flag = "terminated"
        BY <3>1, <3>3 DEF Info
      <3>4. QED BY <3>2, <3>3
    <2>2. QED BY <1>7, <2>1
  <1>9. y \in Subscription /\ y.events = w.sub[s].events /\ y.told = w.sub[s].told
        /\ y.last = w.sub[s].last
    BY <1>4, <1>5, <1>6 DEF Subscription
  <1>10. Grown(w.sub[s], y)
    <2>1. News(y)
      BY <1>4, <1>9 DEF News
    <2>2. \A e \in ToldEvent : y.last[e] >= w.sub[s].last[e]
      BY <1>4, <1>9 DEF Subscription, ToldEvent
    <2>3. QED BY <1>9, <2>1, <2>2 DEF Grown
  <1>11. PICK v : v = [w EXCEPT !.sub = [w.sub EXCEPT ![s] = y], !.info = i]
    OBVIOUS
  <1>12. v \in Worlds /\ v.sub = [w.sub EXCEPT ![s] = y] /\ v.info = i /\ v.ends = w.ends
    BY <1>1, <1>3, <1>8, <1>9, <1>11 DEF Fine, Worlds
  <1>13. Leads(w, v)
    <2>1. i \in [Dist -> Info]
      BY <1>8
    <2>2. \A d \in Dist : i[d].stamp = w.info[d].stamp
      BY <1>8
    <2>3. v \in Worlds /\ v.sub = [w.sub EXCEPT ![s] = y] /\ v.info = i /\ v.ends = w.ends
      BY <1>12
    <2>4. s \in Exists(w.sub)
      BY <1>3
    <2>5. QED BY <1>10, <2>1, <2>2, <2>3, <2>4, OneLeads
  <1>14. SetSessionEvent(w, event, flag, source) \in {w, v}
    BY <1>2, <1>5, <1>6, <1>7, <1>11 DEF SetSessionEvent
  <1>15. QED BY <1>13, <1>14, LeadsSame

LEMMA CheckLeads ==
    ASSUME NEW w, Fine(w), Exists(w.sub) # {}
    PROVE  Leads(w, CheckStartedTerminated(w))
  <1>1. PICK v : v = SetSessionEvent(w, "USER_DATA_ING_SESS_STARTED", "established",
                                     "DIST_SESS_STARTING")
    OBVIOUS
  <1>2. /\ {"USER_DATA_ING_SESS_STARTED", "USER_DATA_ING_SESS_TERMINATED"} \subseteq SessionEvent
        /\ {"DIST_SESS_STARTING", "DIST_SESS_TERMINATED"} \subseteq DistEvent
    BY DEF SessionEvent, StimulatedByMbsf, StampedNow, DistEvent
  <1>3. Leads(w, v)
    BY <1>1, <1>2, SetSessionEventLeads
  <1>4. Fine(v) /\ Exists(v.sub) # {}
    BY <1>3 DEF Leads
  <1>5. PICK u : u = SetSessionEvent(v, "USER_DATA_ING_SESS_TERMINATED", "terminated",
                                     "DIST_SESS_TERMINATED")
    OBVIOUS
  <1>6. Leads(v, u)
    BY <1>2, <1>4, <1>5, SetSessionEventLeads
  <1>7. u = CheckStartedTerminated(w)
    BY <1>1, <1>5 DEF CheckStartedTerminated
  <1>8. QED BY <1>3, <1>6, <1>7, LeadsMore

LEMMA ListIs == ASSUME NEW l \in EventLists PROVE \E E : l \in Seq(E)
  BY SubscriptionsAssumption

\* A subscription that is sent its notifications knows what is the latest.
LEMMA SendLeads ==
    ASSUME NEW w, Fine(w), NEW s \in Exists(w.sub), NEW fresh,
           NEW v, v = SendNotifications(w, s, fresh)
    PROVE  /\ Leads(w, v)
           /\ v.ends = "no" => \A n \in DOMAIN w.sub[s].events :
                            UpToDate(w.info, w.sub[s].events, v.sub[s], n)
  <1>1. PICK u : u = CheckStartedTerminated(w)
    OBVIOUS
  <1>2. Leads(w, u) /\ Fine(u)
    BY <1>1, CheckLeads DEF Leads
  <1>3. /\ u \in Worlds /\ u.info \in [Dist -> Info]
        /\ u.sub \in [Sub -> Subscription \cup {NoSubscription}]
    BY <1>2 DEF Fine, Worlds
  <1>4. s \in Exists(u.sub) /\ s \in Sub /\ u.sub[s].events = w.sub[s].events
    BY <1>2, <1>3, ExistsIs DEF Leads, Grown
  <1>5. u.sub[s] \in Subscription /\ News(u.sub[s])
    BY <1>2, <1>3, <1>4, ExistsIs DEF Fine
  <1>6. PICK l \in EventLists : l = u.sub[s].events
    BY <1>5 DEF Subscription
  <1>7. PICK x : x = TellAll(u.info, u.sub[s], l)
    OBVIOUS
  <1>8. Grown(u.sub[s], x) /\ \A n \in DOMAIN l : UpToDate(u.info, l, x, n)
    <2>1. PICK E : l \in Seq(E)
      BY ListIs
    <2>2. QED BY <1>3, <1>5, <1>7, <2>1, TellAllGrows
  <1>9. x \in Subscription /\ News(x)
    BY <1>8 DEF Grown
  <1>10. PICK some : some = (x.told # u.sub[s].told \/ \E e \in fresh : Subscribes(l, e))
    OBVIOUS
  <1>11. some \in BOOLEAN
    BY <1>10
  <1>12. PICK y : y = [x EXCEPT !.waits = @ \/ some]
    OBVIOUS
  <1>13. /\ y \in Subscription /\ y.events = x.events /\ y.told = x.told /\ y.last = x.last
    BY <1>9, <1>11, <1>12 DEF Subscription
  <1>14. Grown(u.sub[s], y)
    BY <1>8, <1>13 DEF Grown, News
  <1>15. PICK v1 : v1 = [u EXCEPT !.sub = [u.sub EXCEPT ![s] = y]]
    OBVIOUS
  <1>16. /\ v1 \in Worlds /\ v1.sub = [u.sub EXCEPT ![s] = y] /\ v1.info = u.info
         /\ v1.ends = u.ends
    BY <1>3, <1>4, <1>13, <1>15 DEF Worlds
  <1>17. Leads(u, v1)
    BY <1>2, <1>3, <1>4, <1>14, <1>16, OneLeads
  <1>18. CASE Pitfalls(l) = {}
    <2>1. v = v1
      BY <1>1, <1>6, <1>7, <1>10, <1>12, <1>15, <1>18 DEF SendNotifications
    <2>2. Leads(w, v)
      BY <1>2, <1>17, <2>1, LeadsMore
    <2>3. v.sub[s] = y
      BY <1>3, <1>4, <1>16, <2>1
    <2>4. ASSUME NEW n \in DOMAIN l PROVE UpToDate(w.info, l, v.sub[s], n)
      BY <1>2, <1>8, <1>13, <2>3 DEF UpToDate, Leads
    <2>5. QED BY <1>4, <1>6, <2>2, <2>4
  <1>19. CASE Pitfalls(l) # {}
    <2>1. PICK n : n = Min(Pitfalls(l))
      OBVIOUS
    <2>2. n \in DOMAIN l /\ n \in Pitfalls(l)
      <3>1. PICK E : l \in Seq(E)
        BY ListIs
      <3>2. Pitfalls(l) \in SUBSET Nat
        BY <3>1 DEF Pitfalls
      <3>3. QED BY <1>19, <2>1, <3>2, LeastOf DEF Pitfalls
    <2>3. PICK e \in {"nullContext", "unknownEvent"} :
             /\ v = [w EXCEPT !.ends = e]
             /\ e = "unknownEvent" <=> IsUnheardOf(l[n])
      BY <1>1, <1>6, <1>19, <2>1 DEF SendNotifications
    <2>4. v \in Worlds /\ v.ends = e /\ v.sub = w.sub /\ v.info = w.info
      BY <2>3 DEF Fine, Worlds
    <2>5. CASE e = "unknownEvent"
      <3>1. Unheard(w.sub[s].events)
        BY <1>4, <1>6, <2>2, <2>3, <2>5 DEF Unheard
      <3>2. UnheardOf(w.sub)
        BY <3>1 DEF UnheardOf
      <3>3. QED BY <2>4, <2>5, <3>2, LeadsSame DEF Leads, Fine
    <2>6. CASE e = "nullContext"
      <3>1. ~IsUnheardOf(l[n])
        BY <2>3, <2>6
      <3>2. l[n][2] \notin Dist \cup {NoDist}
        BY <2>2, <3>1 DEF Pitfalls
      <3>3. ~(NamedDists(w.sub[s].events) \subseteq Dist)
        BY <1>4, <1>6, <2>2, <3>2 DEF NamedDists
      <3>4. Stray(w.sub)
        BY <3>3 DEF Stray
      <3>5. QED BY <2>4, <2>6, <3>4, LeadsSame DEF Leads, Fine
    <2>7. QED BY <2>3, <2>5, <2>6
  <1>20. QED BY <1>18, <1>19

LEMMA FlagLeads ==
    ASSUME NEW w, NEW v, Leads(w, v), NEW u,
           u \in {[v EXCEPT !.stop = TRUE], [v EXCEPT !.sent = TRUE]}
    PROVE  Leads(w, u)
  <1>1. v \in Worlds
    BY DEF Leads, Fine
  <1>2. u \in Worlds /\ u.sub = v.sub /\ u.info = v.info /\ u.ends = v.ends
    BY <1>1 DEF Worlds
  <1>3. QED BY <1>2 DEF Leads, Fine

LEMMA NotifyLeads ==
    ASSUME NEW w, Fine(w), NEW s \in Exists(w.sub)
    PROVE  Leads(w, NotifySession(w, s))
  <1>1. PICK l : l = w.sub[s].events
    OBVIOUS
  <1>2. PICK v : v = IF Subscribes(l, "USER_DATA_ING_SESS_STARTING")
                     THEN SendNotifications(w, s, {"USER_DATA_ING_SESS_STARTING"}) ELSE w
    OBVIOUS
  <1>3. Leads(w, v)
    BY <1>2, SendLeads, LeadsSame
  <1>4. Fine(v) /\ s \in Exists(v.sub)
    BY <1>3 DEF Leads
  <1>5. PICK u : u = IF ad.object THEN SendNotifications(v, s, {"USER_SER_AD"}) ELSE v
    OBVIOUS
  <1>6. Leads(v, u)
    BY <1>4, <1>5, SendLeads, LeadsSame
  <1>7. Leads(w, u)
    BY <1>3, <1>6, LeadsMore
  <1>8. NotifySession(w, s) \in {v, [v EXCEPT !.stop = TRUE], [u EXCEPT !.sent = TRUE]}
    BY <1>1, <1>2, <1>5 DEF NotifySession
  <1>9. QED BY <1>3, <1>7, <1>8, FlagLeads

LEMMA RoundLeads ==
    ASSUME NEW w, Fine(w), NEW s \in Sub
    PROVE  Leads(w, Round(w, s))
  <1>1. CASE w.stop \/ w.ends # "no" \/ w.sub[s] = NoSubscription
    BY <1>1, LeadsSame DEF Round
  <1>2. CASE ~(w.stop \/ w.ends # "no" \/ w.sub[s] = NoSubscription)
    BY <1>2, NotifyLeads DEF Round, Exists
  <1>3. QED BY <1>1, <1>2

\* The loop over all subscriptions
LEMMA AllRoundsLead ==
    ASSUME NEW w, Fine(w), NEW q, DOMAIN q = Sub
    PROVE  Leads(w, FoldLeftDomain(Round, w, q))
  <1>1. PICK l : l = [i \in DOMAIN q |-> i]
    OBVIOUS
  <1>2. NumSubs \in Nat /\ Sub = 1..NumSubs
    BY SubscriptionsAssumption DEF Sub
  <1>3. /\ l \in Seq(Sub) /\ Len(l) = NumSubs /\ DOMAIN l = 1..Len(l)
        /\ \A n \in DOMAIN l : l[n] \in Sub
    BY <1>1, <1>2
  <1> DEFINE A == {v \in Worlds : Leads(w, v)}
             B == [k \in 0..Len(l) |-> A]
  <1>4. w \in A
    BY LeadsSame DEF Fine
  <1>5. ASSUME NEW v \in A, NEW n \in DOMAIN l PROVE Round(v, l[n]) \in A
    <2>1. Leads(w, v) /\ Fine(v)
      BY DEF Leads
    <2>2. Leads(v, Round(v, l[n]))
      BY <1>3, <2>1, RoundLeads
    <2>3. Leads(w, Round(v, l[n]))
      BY <2>1, <2>2, LeadsMore
    <2>4. QED BY <2>3 DEF Leads, Fine
  <1> HIDE DEF A
  <1>6. \A v \in A, n \in DOMAIN l : Round(v, l[n]) \in A
    BY <1>5
  <1>7. PICK f : /\ f[0] = w
                 /\ \A k \in 0..(Len(l) - 1) : f[k + 1] = Round(f[k], l[k + 1])
                 /\ FoldLeft(Round, w, l) = f[Len(l)]
    BY <1>3, <1>4, <1>6, RoundsIs
  <1>8. f[0] \in B[0]
    BY <1>2, <1>3, <1>4, <1>7
  <1>9. ASSUME NEW k \in 0..(Len(l) - 1), f[k] \in B[k] PROVE f[k + 1] \in B[k + 1]
    <2>1. k \in 0..Len(l) /\ k + 1 \in 0..Len(l) /\ k + 1 \in DOMAIN l
      BY <1>2, <1>3
    <2>2. QED BY <1>6, <1>7, <1>9, <2>1
  <1> HIDE DEF B
  <1>10. Len(l) \in Nat
    BY <1>2, <1>3
  <1>11. \A k \in 0..Len(l) : f[k] \in B[k]
    BY <1>8, <1>9, <1>10, FoldReaches
  <1>12. f[Len(l)] \in A
    BY <1>10, <1>11 DEF B
  <1>13. Leads(w, FoldLeft(Round, w, l))
    BY <1>7, <1>12 DEF A
  <1>14. QED BY <1>1, <1>13 DEF FoldLeftDomain

-----------------------------------------------------------------------------
(* The inductive invariant.                                                *)

Types == TypeOK /\ sub \in [Sub -> Subscription \cup {NoSubscription}]

\* What was told is news, to each subscription.
NewsIs == \A s \in Exists(sub) : News(sub[s])

\* A slot is held as SlotHolder says, and there is none without the ingest session.
SlotIs ==
    \A d \in Dist : slot[d] # NoSub =>
        /\ ing
        /\ slot[d] \in relisted \/ (/\ slot[d] \in Exists(sub)
                                    /\ d \in NamedDists(sub[slot[d]].events))

\* While nothing was deleted or replaced, nothing refers to what is gone.
CalmIs ==
    quiet => /\ ing /\ ~orphan
             /\ \A i \in DOMAIN queue : queue[i].live
             /\ ~Stray(sub)
             /\ \/ abort \in {"no", "noReports", "unknownType"}
                \/ abort = "unknownEvent" /\ UnheardOf(sub)

\* The i-th event of the queue will send what is due for d.
Sends(q, i, d) == q[i].kind = "SEND_NOTIFICATION" /\ q[i].live /\ q[i].dist = d

\* What is due is due to the holder of the slot, which asked for it.
Owed(t) ==
    /\ ing /\ t[1] \in Exists(sub) /\ Names(sub[t[1]].events, t[2], t[3])
    /\ slot[t[3]] = t[1]
    /\ \E i \in DOMAIN queue : Sends(queue, i, t[3])

DueIs == abort = "no" => \A t \in due : Owed(t)

Inv == Types /\ NewsIs /\ SlotIs /\ CalmIs /\ DueIs

LEMMA InvImplies == Inv => TypeOK /\ NewsOnly /\ SlotHolder /\ CalmIsSafe /\ DueIsQueued
  <1> SUFFICES ASSUME Inv PROVE TypeOK /\ NewsOnly /\ SlotHolder /\ CalmIsSafe /\ DueIsQueued
    OBVIOUS
  <1>1. TypeOK
    BY DEF Inv, Types
  <1>2. NewsOnly
    BY DEF Inv, NewsIs, News, NewsOnly
  <1>3. SlotHolder
    BY DEF Inv, SlotIs, SlotHolder
  <1>4. CalmIsSafe
    BY DEF Inv, CalmIs, CalmIsSafe, UnheardOf
  <1>5. DueIsQueued
    BY DEF Inv, DueIs, Owed, DueIsQueued, Sends
  <1>6. QED BY <1>1, <1>2, <1>3, <1>4, <1>5

LEMMA InitInv == Init => Inv
  <1> SUFFICES ASSUME Init PROVE Inv
    OBVIOUS
  <1>1. Exists(sub) = {}
    BY DEF Init, Exists
  <1>2. TypeOK
    <2>1. /\ ing \in BOOLEAN /\ orphan \in BOOLEAN /\ quiet \in BOOLEAN
          /\ slot \in [Dist -> Sub \cup {NoSub}] /\ DOMAIN sub = Sub
          /\ ad \in [object: BOOLEAN, sent: BOOLEAN]
          /\ relisted \subseteq Sub /\ abort = "no"
      BY DEF Init
    <2>2. queue \in Seq(QueueEvent) /\ due \subseteq Sub \X DistEvent \X Dist
      BY DEF Init
    <2>3. info \in [Dist -> Info]
      BY DEF Init, Info, Never
    <2>4. used \in [reports: 0..MaxReports, changes: 0..MaxChanges, pushes: 0..MaxPushes]
      <3>1. 0 \in 0..MaxReports /\ 0 \in 0..MaxChanges /\ 0 \in 0..MaxPushes
        BY SubscriptionsAssumption
      <3>2. QED BY <3>1 DEF Init
    <2>5. QED BY <1>1, <2>1, <2>2, <2>3, <2>4 DEF TypeOK
  <1>3. sub \in [Sub -> Subscription \cup {NoSubscription}]
    BY DEF Init
  <1>4. QED BY <1>1, <1>2, <1>3 DEF Init, Inv, Types, NewsIs, SlotIs, CalmIs, DueIs, Stray

-----------------------------------------------------------------------------
(* Each step preserves the invariant.                                      *)

LEMMA QueueTail ==
    ASSUME NEW q \in Seq(QueueEvent), q # << >>
    PROVE  /\ Tail(q) \in Seq(QueueEvent)
           /\ \A i \in DOMAIN Tail(q) : i + 1 \in DOMAIN q /\ Tail(q)[i] = q[i + 1]
           /\ \A i \in DOMAIN q : i # 1 => i - 1 \in DOMAIN Tail(q) /\ Tail(q)[i - 1] = q[i]
           /\ Head(q) = q[1] /\ 1 \in DOMAIN q
  <1>1. /\ Tail(q) \in Seq(QueueEvent) /\ Len(Tail(q)) = Len(q) - 1
        /\ \A i \in 1..Len(Tail(q)) : Tail(q)[i] = q[i + 1]
    BY HeadTailProperties
  <1>2. /\ Len(q) \in Nat /\ DOMAIN q = 1..Len(q) /\ Len(q) # 0
        /\ DOMAIN Tail(q) = 1..(Len(q) - 1)
    BY <1>1
  <1>3. ASSUME NEW i \in DOMAIN q, i # 1
        PROVE  i - 1 \in DOMAIN Tail(q) /\ Tail(q)[i - 1] = q[i]
    <2>1. i - 1 \in 1..(Len(q) - 1) /\ (i - 1) + 1 = i
      BY <1>2, <1>3
    <2>2. QED BY <1>1, <1>2, <2>1
  <1>4. Head(q) = q[1]
    OBVIOUS
  <1>5. QED BY <1>1, <1>2, <1>3, <1>4

LEMMA QueueAppend ==
    ASSUME NEW q \in Seq(QueueEvent), NEW r \in QueueEvent
    PROVE  /\ Append(q, r) \in Seq(QueueEvent)
           /\ \A i \in DOMAIN q : i \in DOMAIN Append(q, r) /\ Append(q, r)[i] = q[i]
           /\ \E i \in DOMAIN Append(q, r) : Append(q, r)[i] = r
           /\ \A i \in DOMAIN Append(q, r) : i \in DOMAIN q \/ Append(q, r)[i] = r
  <1>1. Len(q) \in Nat /\ DOMAIN q = 1..Len(q)
    OBVIOUS
  <1>2. /\ Append(q, r) \in Seq(QueueEvent) /\ DOMAIN Append(q, r) = 1..(Len(q) + 1)
        /\ \A i \in 1..Len(q) : Append(q, r)[i] = q[i]
        /\ Append(q, r)[Len(q) + 1] = r
    OBVIOUS
  <1>3. /\ Len(q) + 1 \in 1..(Len(q) + 1) /\ \A i \in 1..Len(q) : i \in 1..(Len(q) + 1)
        /\ \A i \in 1..(Len(q) + 1) : i \in 1..Len(q) \/ i = Len(q) + 1
    BY <1>1
  <1>4. QED BY <1>1, <1>2, <1>3

\* A subscription of the map is replaced, or added.
LEMMA SubPut ==
    ASSUME NEW f \in [Sub -> Subscription \cup {NoSubscription}], NEW s \in Sub,
           NEW y \in Subscription, NEW g, g = [f EXCEPT ![s] = y]
    PROVE  /\ g \in [Sub -> Subscription \cup {NoSubscription}]
           /\ Exists(g) = Exists(f) \cup {s} /\ g[s] = y
           /\ \A x \in Sub : x # s => g[x] = f[x]
  <1>1. /\ g \in [Sub -> Subscription \cup {NoSubscription}] /\ g[s] = y
        /\ \A x \in Sub : x # s => g[x] = f[x]
    OBVIOUS
  <1>2. \A x \in Sub : x \in Exists(g) <=> x \in Exists(f) \cup {s}
    BY <1>1, ExistsIs
  <1>3. Exists(g) \in SUBSET Sub /\ Exists(f) \in SUBSET Sub
    BY <1>1, ExistsIs
  <1>4. QED BY <1>1, <1>2, <1>3

LEMMA SubRemoved ==
    ASSUME NEW f \in [Sub -> Subscription \cup {NoSubscription}], NEW s \in Sub,
           NEW g, g = [f EXCEPT ![s] = NoSubscription]
    PROVE  /\ g \in [Sub -> Subscription \cup {NoSubscription}]
           /\ Exists(g) = Exists(f) \ {s}
           /\ \A x \in Sub : x # s => g[x] = f[x]
  <1>1. /\ g \in [Sub -> Subscription \cup {NoSubscription}] /\ g[s] = NoSubscription
        /\ \A x \in Sub : x # s => g[x] = f[x]
    OBVIOUS
  <1>2. \A x \in Sub : x \in Exists(g) <=> x \in Exists(f) \ {s}
    BY <1>1 DEF Exists
  <1>3. Exists(g) \in SUBSET Sub /\ Exists(f) \in SUBSET Sub
    BY <1>1, ExistsIs
  <1>4. QED BY <1>1, <1>2, <1>3

\* The types of the variables, of a map of subscriptions in the form the steps
\* below prove it.
SubTyped(f) ==
    /\ f \in [Sub -> Subscription \cup {NoSubscription}]
    /\ DOMAIN f = Sub /\ \A s \in Exists(f) : s \in Sub /\ f[s] \in Subscription

LEMMA SubTypes ==
    ASSUME NEW f \in [Sub -> Subscription \cup {NoSubscription}]
    PROVE  SubTyped(f)
  BY ExistsIs DEF SubTyped

LEMMA WorldIs ==
    Inv => Fine(World) /\ World.sub = sub /\ World.info = info /\ World.ends = "no"
  <1> SUFFICES ASSUME Inv PROVE Fine(World) /\ World.sub = sub /\ World.info = info
                                /\ World.ends = "no"
    OBVIOUS
  <1>1. /\ sub \in [Sub -> Subscription \cup {NoSubscription}] /\ info \in [Dist -> Info]
        /\ ad.sent \in BOOLEAN
    BY DEF Inv, Types, TypeOK
  <1>2. World \in Worlds /\ World.sub = sub /\ World.info = info /\ World.ends = "no"
    BY <1>1 DEF World, Worlds
  <1>3. QED BY <1>2 DEF Fine, Inv, NewsIs

\* Sending keeps the invariant, if what the handled event owed is sent with it.
LEMMA SentInv ==
    ASSUME Inv, abort = "no", queue # << >>, queue' = Tail(queue),
           UNCHANGED <<ing, slot, orphan, relisted, quiet, used>>,
           NEW w, Leads(World, w), Sent(w),
           w.ends = "no" => \A t \in StillDue(w) : ~Sends(queue, 1, t[3])
    PROVE  Inv'
  <1>0. /\ Fine(World) /\ World.sub = sub /\ World.info = info /\ World.ends = "no"
        /\ sub \in [Sub -> Subscription \cup {NoSubscription}] /\ SubTyped(sub)
        /\ TypeOK
    BY WorldIs, SubTypes DEF Inv, Types
  <1>1. /\ w.sub \in [Sub -> Subscription \cup {NoSubscription}] /\ w.info \in [Dist -> Info]
        /\ w.sent \in BOOLEAN /\ \A s \in Exists(w.sub) : News(w.sub[s])
    BY DEF Leads, Fine, Worlds
  <1>2. Exists(w.sub) = Exists(sub) /\ \A s \in Exists(sub) : w.sub[s].events = sub[s].events
    BY <1>0 DEF Leads, Grown
  <1>3. /\ sub' \in [Sub -> Subscription \cup {NoSubscription}] /\ SubTyped(sub')
        /\ \A s \in Exists(sub') : News(sub'[s])
        /\ Exists(sub') = Exists(sub)
        /\ \A s \in Exists(sub) : sub'[s].events = sub[s].events
        /\ info' \in [Dist -> Info] /\ ad' \in [object: BOOLEAN, sent: BOOLEAN]
        /\ due' \subseteq due
    <2>1. CASE w.ends # "no"
      BY <1>0, <2>1 DEF Sent, Inv, Types, TypeOK, NewsIs
    <2>2. CASE w.ends = "no"
      <3>1. sub' = w.sub /\ info' = w.info /\ ad' = [ad EXCEPT !.sent = w.sent]
            /\ due' = StillDue(w)
        BY <2>2 DEF Sent
      <3>2. ad' \in [object: BOOLEAN, sent: BOOLEAN]
        BY <1>0, <1>1, <3>1 DEF TypeOK
      <3>3. due' \subseteq due
        BY <3>1 DEF StillDue
      <3>4. SubTyped(sub')
        BY <1>1, <3>1, SubTypes
      <3>5. QED BY <1>1, <1>2, <3>1, <3>2, <3>3, <3>4
    <2>3. QED BY <2>1, <2>2
  <1>4. /\ queue \in Seq(QueueEvent) /\ queue' \in Seq(QueueEvent)
        /\ \A i \in DOMAIN queue' : i + 1 \in DOMAIN queue /\ queue'[i] = queue[i + 1]
        /\ \A i \in DOMAIN queue : i # 1 => i - 1 \in DOMAIN queue' /\ queue'[i - 1] = queue[i]
    BY <1>0, QueueTail DEF TypeOK
  <1>5. abort' = w.ends /\ w.ends \in {"no", "nullContext", "unknownEvent"}
    BY DEF Sent, Leads, Fine, Worlds
  <1>6. Types'
    <2>1. TypeOK'
      BY <1>0, <1>3, <1>4, <1>5 DEF TypeOK, SubTyped
    <2>2. QED BY <1>3, <2>1 DEF Types
  <1>7. NewsIs'
    BY <1>3 DEF NewsIs
  <1>8. SlotIs'
    BY <1>3 DEF Inv, SlotIs
  <1>9. CalmIs'
    <2>1. SUFFICES ASSUME quiet' PROVE CalmIs'
      BY DEF CalmIs
    <2>2. /\ ing /\ ~orphan /\ ~Stray(sub) /\ \A i \in DOMAIN queue : queue[i].live
      BY <2>1 DEF Inv, CalmIs
    <2>3. ~Stray(sub') /\ (UnheardOf(sub) => UnheardOf(sub'))
      BY <1>3, <2>2 DEF Stray, UnheardOf
    <2>4. w.ends = "no" \/ (w.ends = "unknownEvent" /\ UnheardOf(sub))
      BY <1>0, <2>2 DEF Leads
    <2>5. \A i \in DOMAIN queue' : queue'[i].live
      BY <1>4, <2>2
    <2>6. QED BY <1>5, <2>2, <2>3, <2>4, <2>5 DEF CalmIs
  <1>10. DueIs'
    <2>1. SUFFICES ASSUME w.ends = "no", NEW t \in due' PROVE Owed(t)'
      BY <1>5 DEF DueIs
    <2>2. t \in due /\ Owed(t) /\ ~Sends(queue, 1, t[3])
      BY <1>3, <2>1 DEF Inv, DueIs, Sent
    <2>3. PICK i \in DOMAIN queue : Sends(queue, i, t[3])
      BY <2>2 DEF Owed
    <2>4. i - 1 \in DOMAIN queue' /\ Sends(queue', i - 1, t[3])
      BY <1>4, <2>2, <2>3 DEF Sends
    <2>5. QED BY <1>3, <2>2, <2>4 DEF Owed
  <1>11. QED BY <1>6, <1>7, <1>8, <1>9, <1>10 DEF Inv

\* The same, of an event that sends nothing or brings the process down.
LEMMA PassedInv ==
    ASSUME Inv, abort = "no", queue # << >>, queue' = Tail(queue),
           UNCHANGED <<ing, slot, orphan, relisted, quiet, used, sub, info, ad, due>>,
           abort' \in {abort, "dangling"}, abort' # abort => ~queue[1].live,
           \A t \in due : ~Sends(queue, 1, t[3])
    PROVE  Inv'
  <1>1. /\ queue \in Seq(QueueEvent) /\ queue' \in Seq(QueueEvent)
        /\ \A i \in DOMAIN queue' : i + 1 \in DOMAIN queue /\ queue'[i] = queue[i + 1]
        /\ \A i \in DOMAIN queue : i # 1 => i - 1 \in DOMAIN queue' /\ queue'[i - 1] = queue[i]
        /\ 1 \in DOMAIN queue
    BY QueueTail DEF Inv, Types, TypeOK
  <1>2. Types'
    BY <1>1 DEF Inv, Types, TypeOK
  <1>3. NewsIs' /\ SlotIs'
    BY DEF Inv, NewsIs, SlotIs
  <1>4. CalmIs'
    BY <1>1 DEF Inv, CalmIs
  <1>5. DueIs'
    <2>1. SUFFICES ASSUME NEW t \in due PROVE Owed(t)'
      BY DEF DueIs
    <2>2. Owed(t) /\ ~Sends(queue, 1, t[3])
      BY DEF Inv, DueIs
    <2>3. PICK i \in DOMAIN queue : Sends(queue, i, t[3])
      BY <2>2 DEF Owed
    <2>4. i - 1 \in DOMAIN queue' /\ Sends(queue', i - 1, t[3])
      BY <1>1, <2>2, <2>3 DEF Sends
    <2>5. QED BY <2>2, <2>4 DEF Owed
  <1>6. QED BY <1>2, <1>3, <1>4, <1>5 DEF Inv

\* Once its subscriber was sent the notifications, nothing of the head of the
\* queue is still due.
LEMMA HeadIsServed ==
    ASSUME Inv, abort = "no", queue # << >>, NEW s, s = slot[Head(queue).dist],
           s \in Exists(sub), NEW w, w = SendNotifications(World, s, {}), w.ends = "no",
           NEW t \in StillDue(w)
    PROVE  ~Sends(queue, 1, t[3])
  <1>1. SUFFICES ASSUME Sends(queue, 1, t[3]) PROVE FALSE
    OBVIOUS
  <1>2. /\ Fine(World) /\ World.sub = sub /\ World.info = info
        /\ due \subseteq Sub \X DistEvent \X Dist /\ info \in [Dist -> Info]
        /\ queue \in Seq(QueueEvent)
    BY WorldIs DEF Inv, Types, TypeOK
  <1>3. /\ Leads(World, w)
        /\ \A n \in DOMAIN sub[s].events : UpToDate(info, sub[s].events, w.sub[s], n)
    BY <1>2, SendLeads
  <1>4. t \in due /\ w.info[t[3]].stamp[t[2]] > w.sub[t[1]].last[t[2]]
    BY DEF StillDue
  <1>5. t[2] \in DistEvent /\ t[3] \in Dist
    BY <1>2, <1>4
  <1>6. slot[t[3]] = t[1] /\ Names(sub[t[1]].events, t[2], t[3])
    BY <1>4 DEF Inv, DueIs, Owed
  <1>7. Head(queue).dist = t[3]
    BY <1>1, <1>2, QueueTail DEF Sends
  <1>8. s = t[1]
    BY <1>6, <1>7
  <1>9. PICK n \in DOMAIN sub[s].events : sub[s].events[n] = <<t[2], t[3]>>
    BY <1>6, <1>8 DEF Names
  <1>10. w.sub[s].last[t[2]] >= info[t[3]].stamp[t[2]]
    <2>1. sub[s].events[n][1] = t[2] /\ sub[s].events[n][2] = t[3]
      BY <1>9
    <2>2. UpToDate(info, sub[s].events, w.sub[s], n)
      BY <1>3
    <2>3. QED BY <1>5, <2>1, <2>2 DEF UpToDate
  <1>11. w.info[t[3]].stamp = info[t[3]].stamp /\ Grown(sub[s], w.sub[s])
    BY <1>2, <1>3, <1>5 DEF Leads
  <1>12. w.sub[s].last[t[2]] \in Nat /\ info[t[3]].stamp[t[2]] \in Nat
    BY <1>2, <1>5, <1>11 DEF Grown, Subscription, Info
  <1>13. QED BY <1>4, <1>8, <1>10, <1>11, <1>12

LEMMA SendNotificationInv ==
    ASSUME Inv, abort = "no", HandleSendNotification PROVE Inv'
  <1>1. /\ queue # << >> /\ Head(queue).kind = "SEND_NOTIFICATION" /\ queue' = Tail(queue)
        /\ UNCHANGED <<ing, slot, orphan, relisted, quiet, used>>
    BY DEF HandleSendNotification
  <1>2. queue \in Seq(QueueEvent) /\ Head(queue) = queue[1] /\ 1 \in DOMAIN queue
    BY <1>1, QueueTail DEF Inv, Types, TypeOK
  <1>3. PICK s : s = slot[Head(queue).dist]
    OBVIOUS
  <1>4. Fine(World) /\ World.sub = sub
    BY WorldIs
  <1>5. CASE /\ Head(queue).live /\ s \in Exists(sub) /\ ing
             /\ Sent(SendNotifications(World, s, {}))
    <2>1. PICK w : w = SendNotifications(World, s, {})
      OBVIOUS
    <2>2. Leads(World, w) /\ Sent(w)
      BY <1>4, <1>5, <2>1, SendLeads
    <2>3. w.ends = "no" => \A t \in StillDue(w) : ~Sends(queue, 1, t[3])
      BY <1>1, <1>3, <1>5, <2>1, HeadIsServed
    <2>4. QED BY <1>1, <2>2, <2>3, SentInv
  <1>6. CASE /\ (Head(queue).live => s \notin Exists(sub) \/ ~ing)
             /\ UNCHANGED <<sub, info, ad, due, abort>>
    <2>1. ASSUME NEW t \in due, Sends(queue, 1, t[3]) PROVE FALSE
      <3>1. Owed(t)
        BY DEF Inv, DueIs
      <3>2. queue[1].live /\ slot[queue[1].dist] \in Exists(sub) /\ ing
        BY <2>1, <3>1 DEF Sends, Owed
      <3>3. QED BY <1>2, <1>3, <1>6, <3>2
    <2>2. \A t \in due : ~Sends(queue, 1, t[3])
      BY <2>1
    <2>3. QED BY <1>1, <1>6, <2>2, PassedInv
  <1>7. CASE /\ ~Head(queue).live
             /\ abort' = "dangling" /\ UNCHANGED <<sub, info, ad, due>>
    <2>1. \A t \in due : ~Sends(queue, 1, t[3])
      BY <1>2, <1>7 DEF Sends
    <2>2. QED BY <1>1, <1>2, <1>7, <2>1, PassedInv
  <1>8. CASE /\ ~Head(queue).live /\ ing
             /\ \E x \in Exists(sub) : Sent(SendNotifications(World, x, {}))
    <2>1. PICK x \in Exists(sub) : Sent(SendNotifications(World, x, {}))
      BY <1>8
    <2>2. PICK w : w = SendNotifications(World, x, {})
      OBVIOUS
    <2>3. Leads(World, w) /\ Sent(w)
      BY <1>4, <2>1, <2>2, SendLeads
    <2>4. \A t \in StillDue(w) : ~Sends(queue, 1, t[3])
      BY <1>2, <1>8 DEF Sends
    <2>5. QED BY <1>1, <2>3, <2>4, SentInv
  <1>9. QED BY <1>3, <1>5, <1>6, <1>7, <1>8 DEF HandleSendNotification

LEMMA SessionNotificationInv ==
    ASSUME Inv, abort = "no", HandleSessionNotification PROVE Inv'
  <1>1. /\ queue # << >> /\ Head(queue).kind = "SEND_USER_DATA_ING_SESS_NOTIFICATION"
        /\ queue' = Tail(queue)
        /\ UNCHANGED <<ing, slot, orphan, relisted, quiet, used>>
    BY DEF HandleSessionNotification
  <1>2. /\ queue \in Seq(QueueEvent) /\ Head(queue) = queue[1] /\ 1 \in DOMAIN queue
        /\ DOMAIN sub = Sub
    BY <1>1, QueueTail DEF Inv, Types, TypeOK
  <1>3. \A t : ~Sends(queue, 1, t)
    BY <1>1, <1>2 DEF Sends
  <1>4. CASE Sent(FoldLeftDomain(Round, World, sub))
    <2>1. PICK w : w = FoldLeftDomain(Round, World, sub)
      OBVIOUS
    <2>2. Leads(World, w)
      BY <1>2, <2>1, WorldIs, AllRoundsLead
    <2>3. Sent(w)
      BY <1>4, <2>1
    <2>4. QED BY <1>1, <1>3, <2>2, <2>3, SentInv
  <1>5. CASE /\ UNCHANGED <<sub, info, ad, due>>
             /\ abort' = abort \/ (abort' = "dangling" /\ ~Head(queue).live)
    BY <1>1, <1>2, <1>3, <1>5, PassedInv
  <1>6. QED BY <1>4, <1>5 DEF HandleSessionNotification

\* What the exploration has used up stays within its bounds.
LEMMA Counted ==
    ASSUME NEW u \in [reports: 0..MaxReports, changes: 0..MaxChanges, pushes: 0..MaxPushes]
    PROVE  LET T == [reports: 0..MaxReports, changes: 0..MaxChanges, pushes: 0..MaxPushes]
           IN  /\ u.reports < MaxReports => [u EXCEPT !.reports = @ + 1] \in T
               /\ u.changes < MaxChanges => [u EXCEPT !.changes = @ + 1] \in T
               /\ u.pushes < MaxPushes => [u EXCEPT !.pushes = @ + 1] \in T
  <1>1. {MaxReports, MaxChanges, MaxPushes} \subseteq Nat
    BY SubscriptionsAssumption
  <1>2. u.reports < MaxReports => u.reports + 1 \in 0..MaxReports
    BY <1>1
  <1>3. u.changes < MaxChanges => u.changes + 1 \in 0..MaxChanges
    BY <1>1
  <1>4. u.pushes < MaxPushes => u.pushes + 1 \in 0..MaxPushes
    BY <1>1
  <1>5. QED BY <1>2, <1>3, <1>4

\* A report is registered, and the holder of the slot is due what it asked for.
LEMMA StatusNotifyInv ==
    ASSUME Inv, abort = "no", NEW d \in Dist, NEW l \in ReportLists, StatusNotify(d, l)
    PROVE  Inv'
  <1>1. PICK s : s = Sorted(l)
    OBVIOUS
  <1>2. PICK i : i = Register(ProcessEvents(info[d], s), s)
    OBVIOUS
  <1>3. s \in Seq(Report)
    BY <1>1, SortedReports, SubscriptionsAssumption
  <1>4. /\ ing /\ used.reports < MaxReports /\ used' = [used EXCEPT !.reports = @ + 1]
        /\ UNCHANGED <<ing, slot, sub, ad, orphan, relisted, quiet>>
    BY DEF StatusNotify
  <1>5. TypeOK /\ sub \in [Sub -> Subscription \cup {NoSubscription}]
    BY DEF Inv, Types
  <1>6. used' \in [reports: 0..MaxReports, changes: 0..MaxChanges, pushes: 0..MaxPushes]
    BY <1>4, <1>5, Counted DEF TypeOK
  <1>7. CASE s = << >> \/ \E k \in DOMAIN s : s[k].type = UnknownType
    <2>1. abort' \in {"noReports", "unknownType"} /\ UNCHANGED <<info, queue, due>>
      BY <1>1, <1>7 DEF StatusNotify
    <2>2. Types'
      BY <1>4, <1>5, <1>6, <2>1 DEF Types, TypeOK
    <2>3. NewsIs' /\ SlotIs' /\ CalmIs' /\ DueIs'
      BY <1>4, <2>1 DEF Inv, NewsIs, SlotIs, CalmIs, DueIs
    <2>4. QED BY <2>2, <2>3 DEF Inv
  <1>8. CASE ~(s = << >> \/ \E k \in DOMAIN s : s[k].type = UnknownType)
    <2>1. /\ info' = [info EXCEPT ![d] = i] /\ queue' = Notified(d)
          /\ due' = {t \in due : t[3] # d} \cup Dues(sub, d, i) /\ abort' = abort
      BY <1>1, <1>2, <1>8 DEF StatusNotify
    <2>2. s \in Seq(KnownReport)
      <3>1. DOMAIN s = 1..Len(s) /\ Len(s) \in Nat
        BY <1>3
      <3>2. \A k \in 1..Len(s) : s[k] \in KnownReport
        BY <1>3, <1>8, <3>1 DEF KnownReport
      <3>3. QED BY <1>3, <3>1, <3>2
    <2>3. i \in Info
      BY <1>2, <1>5, <2>2, RegisteredIs DEF TypeOK
    <2>4. PICK r : r = [kind |-> "SEND_NOTIFICATION", dist |-> d, live |-> TRUE]
      OBVIOUS
    <2>5. r \in QueueEvent
      BY <2>4 DEF QueueEvent
    <2>6. queue' = (IF slot[d] = NoSub THEN queue ELSE Append(queue, r))
      BY <2>1, <2>4 DEF Notified
    <2>7. /\ queue' \in Seq(QueueEvent)
          /\ \A k \in DOMAIN queue : k \in DOMAIN queue' /\ queue'[k] = queue[k]
          /\ \A k \in DOMAIN queue' : \/ k \in DOMAIN queue /\ queue'[k] = queue[k]
                                      \/ queue'[k] = r
          /\ slot[d] # NoSub => \E k \in DOMAIN queue' : queue'[k] = r
      BY <1>5, <2>5, <2>6, QueueAppend DEF TypeOK
    <2>8. Exists(sub) \in SUBSET Sub /\ NoSub \notin Sub
      BY <1>5, ExistsIs, SubscriptionsAssumption DEF Sub, NoSub
    <2>9. \A t \in Dues(sub, d, i) : /\ t \in Sub \X DistEvent \X Dist /\ t[3] = d
                                     /\ t[1] = slot[d] /\ slot[d] \in Exists(sub)
                                     /\ Names(sub[slot[d]].events, t[2], t[3])
      BY <2>8 DEF Dues
    <2>10. Types'
      <3>1. info' \in [Dist -> Info]
        BY <1>5, <2>1, <2>3 DEF TypeOK
      <3>2. due' \subseteq Sub \X DistEvent \X Dist
        BY <1>5, <2>1, <2>9 DEF TypeOK
      <3>3. QED BY <1>4, <1>5, <1>6, <2>1, <2>7, <3>1, <3>2 DEF Types, TypeOK
    <2>11. NewsIs' /\ SlotIs'
      BY <1>4 DEF Inv, NewsIs, SlotIs
    <2>12. CalmIs'
      BY <1>4, <2>1, <2>4, <2>7 DEF Inv, CalmIs
    <2>13. DueIs'
      <3>1. SUFFICES ASSUME NEW t \in due' PROVE Owed(t)'
        BY DEF DueIs
      <3>2. CASE t \in Dues(sub, d, i)
        <4>1. slot[d] # NoSub
          BY <2>8, <2>9, <3>2
        <4>2. PICK k \in DOMAIN queue' : queue'[k] = r
          BY <2>7, <4>1
        <4>3. Sends(queue', k, d)
          BY <2>4, <4>2 DEF Sends
        <4>4. QED BY <1>4, <2>9, <3>2, <4>3 DEF Owed
      <3>3. CASE t \in due
        <4>1. Owed(t)
          BY <3>3 DEF Inv, DueIs
        <4>2. PICK k \in DOMAIN queue : Sends(queue, k, t[3])
          BY <4>1 DEF Owed
        <4>3. k \in DOMAIN queue' /\ Sends(queue', k, t[3])
          BY <2>7, <4>2 DEF Sends
        <4>4. QED BY <1>4, <4>1, <4>3 DEF Owed
      <3>4. QED BY <2>1, <3>1, <3>2, <3>3
    <2>14. QED BY <2>10, <2>11, <2>12, <2>13 DEF Inv
  <1>9. QED BY <1>7, <1>8

\* Events of the ingest session are queued: SessionEstablished, Bundled and
\* Rebundle.
LEMMA QueuedInv ==
    ASSUME Inv, queue' = SessionEventQueued \/ queue' = queue,
           UNCHANGED <<ing, info, slot, sub, orphan, due, relisted, quiet, abort>>,
           ad' \in [object: BOOLEAN, sent: BOOLEAN],
           used' \in [reports: 0..MaxReports, changes: 0..MaxChanges, pushes: 0..MaxPushes]
    PROVE  Inv'
  <1>1. /\ queue' \in Seq(QueueEvent)
        /\ \A i \in DOMAIN queue : i \in DOMAIN queue' /\ queue'[i] = queue[i]
        /\ \A i \in DOMAIN queue' : \/ i \in DOMAIN queue /\ queue'[i] = queue[i]
                                    \/ queue'[i].live
    <2>1. queue \in Seq(QueueEvent)
      BY DEF Inv, Types, TypeOK
    <2>2. PICK r : r = [kind |-> "SEND_USER_DATA_ING_SESS_NOTIFICATION", live |-> TRUE]
      OBVIOUS
    <2>3. r \in QueueEvent /\ r.live
      BY <2>2 DEF QueueEvent
    <2>4. CASE queue' = queue
      BY <2>1, <2>4
    <2>5. CASE queue' = Append(queue, r)
      BY <2>1, <2>3, <2>5, QueueAppend
    <2>6. QED BY <2>2, <2>4, <2>5 DEF SessionEventQueued
  <1>2. Types'
    BY <1>1 DEF Inv, Types, TypeOK
  <1>3. NewsIs' /\ SlotIs'
    BY DEF Inv, NewsIs, SlotIs
  <1>4. CalmIs'
    BY <1>1 DEF Inv, CalmIs
  <1>5. DueIs'
    <2>1. SUFFICES ASSUME abort = "no", NEW t \in due PROVE Owed(t)'
      BY DEF DueIs
    <2>2. Owed(t)
      BY <2>1 DEF Inv, DueIs
    <2>3. PICK i \in DOMAIN queue : Sends(queue, i, t[3])
      BY <2>2 DEF Owed
    <2>4. i \in DOMAIN queue' /\ Sends(queue', i, t[3])
      BY <1>1, <2>3 DEF Sends
    <2>5. QED BY <2>2, <2>4 DEF Owed
  <1>6. QED BY <1>2, <1>3, <1>4, <1>5 DEF Inv

LEMMA AnnouncementInv ==
    ASSUME Inv, SessionEstablished \/ Bundled \/ Rebundle PROVE Inv'
  <1>1. /\ used \in [reports: 0..MaxReports, changes: 0..MaxChanges, pushes: 0..MaxPushes]
        /\ ad \in [object: BOOLEAN, sent: BOOLEAN]
    BY DEF Inv, Types, TypeOK
  <1>2. CASE SessionEstablished
    <2>1. used' \in [reports: 0..MaxReports, changes: 0..MaxChanges, pushes: 0..MaxPushes]
      BY <1>1, <1>2, Counted DEF SessionEstablished
    <2>2. QED BY <1>1, <1>2, <2>1, QueuedInv DEF SessionEstablished
  <1>3. CASE Bundled
    <2>1. used' \in [reports: 0..MaxReports, changes: 0..MaxChanges, pushes: 0..MaxPushes]
      BY <1>1, <1>3, Counted DEF Bundled
    <2>2. ad' \in [object: BOOLEAN, sent: BOOLEAN]
      BY <1>1, <1>3 DEF Bundled
    <2>3. QED BY <1>3, <2>1, <2>2, QueuedInv DEF Bundled
  <1>4. CASE Rebundle
    <2>1. ad' \in [object: BOOLEAN, sent: BOOLEAN]
      BY <1>4 DEF Rebundle
    <2>2. QED BY <1>1, <1>4, <2>1, QueuedInv DEF Rebundle
  <1>5. QED BY <1>2, <1>3, <1>4

\* A slot that is claimed was free.
LEMMA ClaimedIs ==
    ASSUME Types, NEW s \in Sub, NEW l
    PROVE  /\ Claimed(s, l) \in [Dist -> Sub \cup {NoSub}]
           /\ \A d \in Dist : slot[d] # NoSub => Claimed(s, l)[d] = slot[d]
           /\ \A d \in Dist : Claimed(s, l)[d] # slot[d]
                                 => Claimed(s, l)[d] = s /\ d \in NamedDists(l)
  BY DEF Claimed, Types, TypeOK

LEMMA NewIs ==
    ASSUME NEW l \in EventLists
    PROVE  /\ NewSubscription(l) \in Subscription /\ News(NewSubscription(l))
           /\ NewSubscription(l).events = l
  <1>1. NewSubscription(l) \in Subscription
    BY DEF NewSubscription, Subscription, Never
  <1>2. NewSubscription(l).told = << >> /\ NewSubscription(l).events = l
    BY DEF NewSubscription
  <1>3. News(NewSubscription(l))
    BY <1>2 DEF News
  <1>4. QED BY <1>1, <1>2, <1>3

LEMMA SubscribeInv ==
    ASSUME Inv, abort = "no", NEW s \in Sub, NEW l \in EventLists, Subscribe(s, l)
    PROVE  Inv'
  <1>1. /\ ing /\ sub[s] = NoSubscription /\ (\A d \in Dist : slot[d] # s)
        /\ NamedDists(l) \subseteq Dist
        /\ sub' = [sub EXCEPT ![s] = NewSubscription(l)] /\ slot' = Claimed(s, l)
        /\ queue' = SessionEventQueued /\ relisted' = relisted \ {s}
        /\ UNCHANGED <<ing, info, ad, orphan, due, quiet, abort>>
    BY DEF Subscribe, ListIsKnown
  <1>2. Types /\ TypeOK /\ sub \in [Sub -> Subscription \cup {NoSubscription}]
    BY DEF Inv, Types
  <1>3. used' \in [reports: 0..MaxReports, changes: 0..MaxChanges, pushes: 0..MaxPushes]
    BY <1>2, Counted DEF Subscribe, Change, TypeOK
  <1>4. /\ sub' \in [Sub -> Subscription \cup {NoSubscription}]
        /\ Exists(sub') = Exists(sub) \cup {s}
        /\ sub'[s].events = l /\ News(sub'[s])
        /\ \A x \in Sub : x # s => sub'[x] = sub[x]
    <2>1. PICK y : y = NewSubscription(l)
      OBVIOUS
    <2>2. y \in Subscription /\ News(y) /\ y.events = l /\ sub' = [sub EXCEPT ![s] = y]
      BY <1>1, <2>1, NewIs
    <2>3. QED BY <1>2, <2>2, SubPut
  <1>5. Exists(sub) \in SUBSET Sub /\ s \notin Exists(sub) /\ SubTyped(sub')
    BY <1>1, <1>2, <1>4, ExistsIs, SubTypes DEF Exists
  <1>6. /\ slot' \in [Dist -> Sub \cup {NoSub}]
        /\ \A d \in Dist : slot[d] # NoSub => slot'[d] = slot[d]
        /\ \A d \in Dist : slot'[d] # slot[d] => slot'[d] = s /\ d \in NamedDists(l)
    BY <1>1, <1>2, ClaimedIs
  <1>7. /\ queue' \in Seq(QueueEvent)
        /\ \A i \in DOMAIN queue : i \in DOMAIN queue' /\ queue'[i] = queue[i]
        /\ \A i \in DOMAIN queue' : \/ i \in DOMAIN queue /\ queue'[i] = queue[i]
                                    \/ queue'[i].live
    <2>1. queue \in Seq(QueueEvent)
      BY <1>2 DEF TypeOK
    <2>2. PICK r : r = [kind |-> "SEND_USER_DATA_ING_SESS_NOTIFICATION", live |-> TRUE]
      OBVIOUS
    <2>3. r \in QueueEvent /\ r.live
      BY <2>2 DEF QueueEvent
    <2>4. queue' = Append(queue, r)
      BY <1>1, <2>2 DEF SessionEventQueued
    <2>5. QED BY <2>1, <2>3, <2>4, QueueAppend
  <1>8. Types'
    <2>1. TypeOK'
      BY <1>1, <1>2, <1>3, <1>5, <1>6, <1>7 DEF TypeOK, SubTyped
    <2>2. QED BY <1>4, <2>1 DEF Types
  <1>9. NewsIs'
    BY <1>4, <1>5 DEF Inv, NewsIs
  <1>10. SlotIs'
    <2>1. SUFFICES ASSUME NEW d \in Dist, slot'[d] # NoSub
                   PROVE  /\ ing
                          /\ slot'[d] \in relisted' \/ (/\ slot'[d] \in Exists(sub')
                                                        /\ d \in NamedDists(sub'[slot'[d]].events))
      BY <1>1 DEF SlotIs
    <2>2. CASE slot'[d] = slot[d]
      <3>1. slot[d] \in Sub /\ slot[d] # s
        BY <1>1, <1>2, <2>1, <2>2 DEF TypeOK
      <3>2. slot[d] \in relisted \/ (/\ slot[d] \in Exists(sub)
                                     /\ d \in NamedDists(sub[slot[d]].events))
        BY <2>1, <2>2 DEF Inv, SlotIs
      <3>3. QED BY <1>1, <1>4, <2>2, <3>1, <3>2
    <2>3. CASE slot'[d] # slot[d]
      BY <1>1, <1>4, <1>6, <2>3
    <2>4. QED BY <2>2, <2>3
  <1>11. CalmIs'
    <2>1. SUFFICES ASSUME quiet PROVE CalmIs'
      BY <1>1 DEF CalmIs
    <2>2. ~orphan /\ ~Stray(sub) /\ \A i \in DOMAIN queue : queue[i].live
      BY <2>1 DEF Inv, CalmIs
    <2>3. ~Stray(sub')
      BY <1>1, <1>4, <1>5, <2>2 DEF Stray
    <2>4. \A i \in DOMAIN queue' : queue'[i].live
      BY <1>7, <2>2
    <2>5. QED BY <1>1, <2>2, <2>3, <2>4 DEF CalmIs
  <1>12. DueIs'
    <2>1. SUFFICES ASSUME NEW t \in due PROVE Owed(t)'
      BY <1>1 DEF DueIs
    <2>2. Owed(t) /\ t[3] \in Dist
      BY <1>2 DEF Inv, DueIs, TypeOK
    <2>3. PICK i \in DOMAIN queue : Sends(queue, i, t[3])
      BY <2>2 DEF Owed
    <2>4. i \in DOMAIN queue' /\ Sends(queue', i, t[3])
      BY <1>7, <2>3 DEF Sends
    <2>5. /\ t[1] \in Exists(sub) /\ Names(sub[t[1]].events, t[2], t[3])
          /\ slot[t[3]] = t[1] /\ t[1] \in Sub /\ t[1] # s
      BY <1>5, <2>2 DEF Owed
    <2>6. slot'[t[3]] = t[1]
      <3>1. t[1] # NoSub
        BY <2>5, SubscriptionsAssumption DEF Sub, NoSub
      <3>2. QED BY <1>6, <2>2, <2>5, <3>1
    <2>7. QED BY <1>1, <1>4, <2>4, <2>5, <2>6 DEF Owed
  <1>13. QED BY <1>8, <1>9, <1>10, <1>11, <1>12 DEF Inv

LEMMA RelistInv ==
    ASSUME Inv, abort = "no", NEW s \in Sub, NEW l \in EventLists, Relist(s, l)
    PROVE  Inv'
  <1>1. /\ ing /\ s \in Exists(sub) /\ sub' = [sub EXCEPT ![s].events = l]
        /\ slot' = Claimed(s, l) /\ due' = {t \in due : t[1] # s}
        /\ relisted' = relisted \cup {s} /\ quiet' = FALSE
        /\ UNCHANGED <<ing, info, ad, queue, orphan, abort>>
    BY DEF Relist
  <1>2. Types /\ TypeOK /\ sub \in [Sub -> Subscription \cup {NoSubscription}]
    BY DEF Inv, Types
  <1>3. used' \in [reports: 0..MaxReports, changes: 0..MaxChanges, pushes: 0..MaxPushes]
    BY <1>2, Counted DEF Relist, Change, TypeOK
  <1>4. PICK y : y = [sub[s] EXCEPT !.events = l]
    OBVIOUS
  <1>5. sub[s] \in Subscription /\ News(sub[s])
    BY <1>1, <1>2, ExistsIs DEF Inv, NewsIs
  <1>6. y \in Subscription /\ y.told = sub[s].told /\ y.last = sub[s].last
    BY <1>4, <1>5 DEF Subscription
  <1>7. News(y)
    BY <1>5, <1>6 DEF News
  <1>8. sub' = [sub EXCEPT ![s] = y]
    BY <1>1, <1>4
  <1>9. /\ sub' \in [Sub -> Subscription \cup {NoSubscription}]
        /\ Exists(sub') = Exists(sub) \cup {s} /\ sub'[s] = y
        /\ \A x \in Sub : x # s => sub'[x] = sub[x]
    BY <1>2, <1>6, <1>8, SubPut
  <1>10. Exists(sub) \in SUBSET Sub /\ SubTyped(sub')
    BY <1>2, <1>9, ExistsIs, SubTypes
  <1>11. /\ slot' \in [Dist -> Sub \cup {NoSub}]
         /\ \A d \in Dist : slot[d] # NoSub => slot'[d] = slot[d]
         /\ \A d \in Dist : slot'[d] # slot[d] => slot'[d] = s /\ d \in NamedDists(l)
    BY <1>1, <1>2, ClaimedIs
  <1>12. Types'
    <2>1. TypeOK'
      BY <1>1, <1>2, <1>3, <1>10, <1>11 DEF TypeOK, SubTyped
    <2>2. QED BY <1>9, <2>1 DEF Types
  <1>13. NewsIs'
    BY <1>7, <1>9, <1>10 DEF Inv, NewsIs
  <1>14. SlotIs'
    <2>1. SUFFICES ASSUME NEW d \in Dist, slot'[d] # NoSub, slot'[d] # s
                   PROVE  slot'[d] \in relisted' \/ (/\ slot'[d] \in Exists(sub')
                                                     /\ d \in NamedDists(sub'[slot'[d]].events))
      BY <1>1 DEF SlotIs
    <2>2. slot'[d] = slot[d] /\ slot[d] \in Sub
      BY <1>2, <1>11, <2>1 DEF TypeOK
    <2>3. slot[d] \in relisted \/ (/\ slot[d] \in Exists(sub)
                                   /\ d \in NamedDists(sub[slot[d]].events))
      BY <2>1, <2>2 DEF Inv, SlotIs
    <2>4. QED BY <1>1, <1>9, <2>1, <2>2, <2>3
  <1>15. CalmIs'
    BY <1>1 DEF CalmIs
  <1>16. DueIs'
    <2>1. SUFFICES ASSUME NEW t \in due, t[1] # s PROVE Owed(t)'
      BY <1>1 DEF DueIs
    <2>2. Owed(t) /\ t[3] \in Dist
      BY <1>2 DEF Inv, DueIs, TypeOK
    <2>3. t[1] \in Sub /\ t[1] # NoSub /\ slot[t[3]] = t[1]
      BY <1>10, <2>2, SubscriptionsAssumption DEF Owed, Sub, NoSub
    <2>4. slot'[t[3]] = t[1] /\ sub'[t[1]] = sub[t[1]]
      BY <1>9, <1>11, <2>1, <2>2, <2>3
    <2>5. QED BY <1>1, <1>9, <2>2, <2>4 DEF Owed
  <1>17. QED BY <1>12, <1>13, <1>14, <1>15, <1>16 DEF Inv

\* A subscription is deleted: nothing of it is due, and the events that refer to
\* a slot that went with it are not live.
LEMMA UnsubscribeInv ==
    ASSUME Inv, abort = "no", NEW s \in Sub, Unsubscribe(s) PROVE Inv'
  <1>1. /\ ing /\ s \in Exists(sub) /\ sub' = [sub EXCEPT ![s] = NoSubscription]
        /\ slot' = Vacated(sub[s].events) /\ queue' = Stale(slot')
        /\ orphan' = (orphan \/ sub[s].waits)
        /\ due' = {t \in due : t[1] # s /\ t[3] \notin NamedDists(sub[s].events)}
        /\ quiet' = FALSE
        /\ UNCHANGED <<ing, info, ad, relisted, abort>>
    BY DEF Unsubscribe
  <1>2. /\ Types /\ TypeOK /\ sub \in [Sub -> Subscription \cup {NoSubscription}]
        /\ queue \in Seq(QueueEvent) /\ slot \in [Dist -> Sub \cup {NoSub}]
    BY DEF Inv, Types, TypeOK
  <1>3. used' \in [reports: 0..MaxReports, changes: 0..MaxChanges, pushes: 0..MaxPushes]
    BY <1>2, Counted DEF Unsubscribe, Change, TypeOK
  <1>4. /\ sub' \in [Sub -> Subscription \cup {NoSubscription}]
        /\ Exists(sub') = Exists(sub) \ {s}
        /\ \A x \in Sub : x # s => sub'[x] = sub[x]
    BY <1>1, <1>2, SubRemoved
  <1>5. Exists(sub) \in SUBSET Sub /\ SubTyped(sub')
    BY <1>2, <1>4, ExistsIs, SubTypes
  <1>6. /\ slot' \in [Dist -> Sub \cup {NoSub}]
        /\ \A d \in Dist : slot'[d] = IF d \in NamedDists(sub[s].events) THEN NoSub ELSE slot[d]
    BY <1>1, <1>2 DEF Vacated
  <1>7. /\ queue' \in Seq(QueueEvent)
        /\ \A i \in DOMAIN queue : /\ i \in DOMAIN queue'
                                   /\ \/ queue'[i] = queue[i]
                                      \/ /\ queue[i].kind = "SEND_NOTIFICATION"
                                         /\ slot'[queue[i].dist] = NoSub
    <2>1. DOMAIN queue = 1..Len(queue) /\ Len(queue) \in Nat
      BY <1>2
    <2>2. /\ DOMAIN queue' = DOMAIN queue
          /\ \A i \in DOMAIN queue :
                queue'[i] = IF queue[i].kind = "SEND_NOTIFICATION" /\ slot'[queue[i].dist] = NoSub
                            THEN [queue[i] EXCEPT !.live = FALSE] ELSE queue[i]
      BY <1>1 DEF Stale
    <2>3. ASSUME NEW i \in DOMAIN queue PROVE queue'[i] \in QueueEvent
      <3>1. queue[i] \in QueueEvent
        BY <1>2, <2>1
      <3>2. [queue[i] EXCEPT !.live = FALSE] \in QueueEvent
        BY <3>1 DEF QueueEvent
      <3>3. QED BY <2>2, <3>1, <3>2
    <2>4. queue' \in [1..Len(queue) -> QueueEvent]
      BY <1>1, <2>1, <2>2, <2>3 DEF Stale
    <2>5. queue' \in Seq(QueueEvent)
      BY <2>1, <2>4
    <2>6. QED BY <2>2, <2>5
  <1>8. orphan' \in BOOLEAN
    BY <1>1
  <1>9. Types'
    <2>1. TypeOK'
      BY <1>1, <1>2, <1>3, <1>5, <1>6, <1>7, <1>8 DEF TypeOK, SubTyped
    <2>2. QED BY <1>4, <2>1 DEF Types
  <1>10. NewsIs'
    BY <1>4, <1>5 DEF Inv, NewsIs
  <1>11. SlotIs'
    <2>1. SUFFICES ASSUME NEW d \in Dist, slot'[d] # NoSub
                   PROVE  slot'[d] \in relisted' \/ (/\ slot'[d] \in Exists(sub')
                                                     /\ d \in NamedDists(sub'[slot'[d]].events))
      BY <1>1 DEF SlotIs
    <2>2. slot'[d] = slot[d] /\ d \notin NamedDists(sub[s].events)
      BY <1>6, <2>1
    <2>3. slot[d] \in relisted \/ (/\ slot[d] \in Exists(sub)
                                   /\ d \in NamedDists(sub[slot[d]].events))
      BY <2>1, <2>2 DEF Inv, SlotIs
    <2>4. QED BY <1>1, <1>4, <1>5, <2>2, <2>3
  <1>12. CalmIs'
    BY <1>1 DEF CalmIs
  <1>13. DueIs'
    <2>1. SUFFICES ASSUME NEW t \in due, t[1] # s, t[3] \notin NamedDists(sub[s].events)
                   PROVE  Owed(t)'
      BY <1>1 DEF DueIs
    <2>2. Owed(t) /\ t[3] \in Dist
      BY <1>2 DEF Inv, DueIs, TypeOK
    <2>3. t[1] \in Sub /\ t[1] # NoSub /\ slot[t[3]] = t[1]
      BY <1>5, <2>2, SubscriptionsAssumption DEF Owed, Sub, NoSub
    <2>4. slot'[t[3]] = t[1] /\ sub'[t[1]] = sub[t[1]]
      BY <1>4, <1>6, <2>1, <2>2, <2>3
    <2>5. PICK i \in DOMAIN queue : Sends(queue, i, t[3])
      BY <2>2 DEF Owed
    <2>6. i \in DOMAIN queue' /\ Sends(queue', i, t[3])
      BY <1>7, <2>3, <2>4, <2>5 DEF Sends
    <2>7. QED BY <1>1, <1>4, <2>1, <2>2, <2>4, <2>6 DEF Owed
  <1>14. QED BY <1>9, <1>10, <1>11, <1>12, <1>13 DEF Inv

LEMMA LocateGoneInv ==
    ASSUME Inv, abort = "no", NEW s \in Sub, LocateGone(s) PROVE Inv'
  <1>1. /\ ~ing /\ s \in Exists(sub)
        /\ UNCHANGED <<ing, info, slot, ad, queue, due, relisted, quiet, used>>
    BY DEF LocateGone
  <1>2. Types /\ TypeOK /\ sub \in [Sub -> Subscription \cup {NoSubscription}]
    BY DEF Inv, Types
  <1>3. ~quiet /\ due = {} /\ \A d \in Dist : slot[d] = NoSub
    <2>1. \A t \in due : FALSE
      BY <1>1 DEF Inv, DueIs, Owed
    <2>2. QED BY <1>1, <2>1 DEF Inv, CalmIs, SlotIs
  <1>4. SlotIs' /\ CalmIs' /\ DueIs'
    BY <1>1, <1>3 DEF SlotIs, CalmIs, DueIs
  <1>5. CASE abort' = "nullSession" /\ UNCHANGED <<sub, orphan>>
    <2>1. Types'
      BY <1>1, <1>2, <1>5 DEF Types, TypeOK
    <2>2. NewsIs'
      BY <1>5 DEF Inv, NewsIs
    <2>3. QED BY <1>4, <2>1, <2>2 DEF Inv
  <1>6. CASE /\ sub' = [sub EXCEPT ![s] = NoSubscription]
             /\ orphan' = (orphan \/ sub[s].waits) /\ UNCHANGED abort
    <2>1. /\ sub' \in [Sub -> Subscription \cup {NoSubscription}]
          /\ Exists(sub') = Exists(sub) \ {s}
          /\ \A x \in Sub : x # s => sub'[x] = sub[x]
      BY <1>2, <1>6, SubRemoved
    <2>2. Exists(sub) \in SUBSET Sub /\ SubTyped(sub') /\ orphan' \in BOOLEAN
      BY <1>2, <1>6, <2>1, ExistsIs, SubTypes
    <2>3. TypeOK'
      BY <1>1, <1>2, <1>6, <2>2 DEF TypeOK, SubTyped
    <2>4. NewsIs'
      BY <2>1, <2>2 DEF Inv, NewsIs
    <2>5. QED BY <1>4, <2>1, <2>3, <2>4 DEF Inv, Types
  <1>7. QED BY <1>5, <1>6 DEF LocateGone

LEMMA AnsweredInv ==
    ASSUME Inv, NEW s \in Sub, Answered(s) PROVE Inv'
  <1>1. /\ s \in Exists(sub) /\ sub' = [sub EXCEPT ![s].waits = FALSE]
        /\ UNCHANGED <<ing, info, slot, ad, queue, orphan, due, relisted, quiet, used, abort>>
    BY DEF Answered
  <1>2. Types /\ TypeOK /\ sub \in [Sub -> Subscription \cup {NoSubscription}]
    BY DEF Inv, Types
  <1>3. PICK y : y = [sub[s] EXCEPT !.waits = FALSE]
    OBVIOUS
  <1>4. sub[s] \in Subscription /\ News(sub[s])
    BY <1>1, <1>2, ExistsIs DEF Inv, NewsIs
  <1>5. /\ y \in Subscription /\ y.told = sub[s].told /\ y.last = sub[s].last
        /\ y.events = sub[s].events
    BY <1>3, <1>4 DEF Subscription
  <1>6. News(y)
    BY <1>4, <1>5 DEF News
  <1>7. sub' = [sub EXCEPT ![s] = y]
    BY <1>1, <1>3
  <1>8. /\ sub' \in [Sub -> Subscription \cup {NoSubscription}]
        /\ Exists(sub') = Exists(sub) \cup {s} /\ sub'[s] = y
        /\ \A x \in Sub : x # s => sub'[x] = sub[x]
    BY <1>2, <1>5, <1>7, SubPut
  <1>9. Exists(sub) \in SUBSET Sub /\ SubTyped(sub')
    BY <1>2, <1>8, ExistsIs, SubTypes
  <1>10. Exists(sub') = Exists(sub) /\ \A x \in Exists(sub) : sub'[x].events = sub[x].events
    BY <1>1, <1>5, <1>8, <1>9
  <1>11. Types'
    <2>1. TypeOK'
      BY <1>1, <1>2, <1>9 DEF TypeOK, SubTyped
    <2>2. QED BY <1>8, <2>1 DEF Types
  <1>12. NewsIs'
    BY <1>6, <1>8, <1>9 DEF Inv, NewsIs
  <1>13. SlotIs'
    BY <1>1, <1>10 DEF Inv, SlotIs
  <1>14. CalmIs'
    BY <1>1, <1>10 DEF Inv, CalmIs, Stray, UnheardOf
  <1>15. DueIs'
    BY <1>1, <1>10 DEF Inv, DueIs, Owed
  <1>16. QED BY <1>11, <1>12, <1>13, <1>14, <1>15 DEF Inv

LEMMA DeleteIngSessionInv == ASSUME Inv, abort = "no", DeleteIngSession PROVE Inv'
  <1>1. /\ ing' = FALSE /\ slot' = [d \in Dist |-> NoSub]
        /\ queue' = [i \in DOMAIN queue |-> [queue[i] EXCEPT !.live = FALSE]]
        /\ due' = {} /\ quiet' = FALSE
        /\ UNCHANGED <<info, sub, ad, orphan, relisted, used, abort>>
    BY DEF DeleteIngSession
  <1>2. queue' \in Seq(QueueEvent)
    <2>1. queue \in Seq(QueueEvent)
      BY DEF Inv, Types, TypeOK
    <2>2. DOMAIN queue = 1..Len(queue) /\ Len(queue) \in Nat
      BY <2>1
    <2>3. ASSUME NEW i \in DOMAIN queue PROVE [queue[i] EXCEPT !.live = FALSE] \in QueueEvent
      <3>1. queue[i] \in QueueEvent
        BY <2>1, <2>2
      <3>2. QED BY <3>1 DEF QueueEvent
    <2>4. queue' \in [1..Len(queue) -> QueueEvent]
      BY <1>1, <2>2, <2>3
    <2>5. QED BY <2>2, <2>4
  <1>3. Types'
    BY <1>1, <1>2 DEF Inv, Types, TypeOK
  <1>4. NewsIs' /\ SlotIs' /\ CalmIs' /\ DueIs'
    BY <1>1 DEF Inv, NewsIs, SlotIs, CalmIs, DueIs
  <1>5. QED BY <1>3, <1>4 DEF Inv

LEMMA AnsweredTooLateInv == ASSUME Inv, abort = "no", AnsweredTooLate PROVE Inv'
  <1>1. /\ orphan /\ orphan' = FALSE /\ abort' \in {abort, "unclaimed"}
        /\ UNCHANGED <<ing, info, slot, sub, ad, queue, due, relisted, quiet, used>>
    BY DEF AnsweredTooLate
  <1>2. Types'
    BY <1>1 DEF Inv, Types, TypeOK
  <1>3. NewsIs' /\ SlotIs' /\ CalmIs'
    BY <1>1 DEF Inv, NewsIs, SlotIs, CalmIs
  <1>4. DueIs'
    BY <1>1 DEF Inv, DueIs, Owed
  <1>5. QED BY <1>2, <1>3, <1>4 DEF Inv

LEMMA SameInv == ASSUME Inv, UNCHANGED vars PROVE Inv'
  BY DEF Inv, Types, TypeOK, NewsIs, SlotIs, CalmIs, DueIs, Owed, vars

-----------------------------------------------------------------------------
\* The invariant holds of every reachable state.
THEOREM InvHolds == Spec => []Inv
  <1>1. Inv /\ [Next]_vars => Inv'
    <2>1. SUFFICES ASSUME Inv, Next PROVE Inv'
      BY SameInv
    <2>2. abort = "no"
      BY <2>1 DEF Next
    <2>3. CASE HandleSendNotification
      BY <2>1, <2>2, <2>3, SendNotificationInv
    <2>4. CASE HandleSessionNotification
      BY <2>1, <2>2, <2>4, SessionNotificationInv
    <2>5. CASE \E d \in Dist, r \in ReportLists : StatusNotify(d, r)
      BY <2>1, <2>2, <2>5, StatusNotifyInv
    <2>6. CASE SessionEstablished \/ Bundled \/ Rebundle
      BY <2>1, <2>6, AnnouncementInv
    <2>7. CASE \E s \in Sub, l \in EventLists : Subscribe(s, l) \/ Relist(s, l)
      BY <2>1, <2>2, <2>7, SubscribeInv, RelistInv
    <2>8. CASE \E s \in Sub : Unsubscribe(s) \/ LocateGone(s) \/ Answered(s)
      BY <2>1, <2>2, <2>8, UnsubscribeInv, LocateGoneInv, AnsweredInv
    <2>9. CASE DeleteIngSession \/ AnsweredTooLate
      BY <2>1, <2>2, <2>9, DeleteIngSessionInv, AnsweredTooLateInv
    <2>10. QED BY <2>1, <2>3, <2>4, <2>5, <2>6, <2>7, <2>8, <2>9 DEF Next
  <1>2. QED BY InitInv, <1>1, PTL DEF Spec

\* The variables have their types.
THEOREM TypesHold == Spec => []TypeOK
  <1>1. Inv => TypeOK
    BY InvImplies
  <1>2. QED BY InvHolds, <1>1, PTL

\* What a subscriber is told of an event is always newer than what it was told of
\* it before, in whatever order the reports arrive and however many queued events
\* send them.
THEOREM NothingIsToldTwice == Spec => []NewsOnly
  <1>1. Inv => NewsOnly
    BY InvImplies
  <1>2. QED BY InvHolds, <1>1, PTL

\* The slot of a distribution session is held by a subscription that exists and
\* names it, unless the holder's list was replaced.
THEOREM SlotsAreHeld == Spec => []SlotHolder
  <1>1. Inv => SlotHolder
    BY InvImplies
  <1>2. QED BY InvHolds, <1>1, PTL

\* Without deletions and replacements only a subscription that was made with an
\* unknown event for one of the distribution sessions brings the MBSF down when
\* it is notified.
THEOREM CalmStaysUp == Spec => []CalmIsSafe
  <1>1. Inv => CalmIsSafe
    BY InvImplies
  <1>2. QED BY InvHolds, <1>1, PTL

\* A report that is due to the holder of a slot has an event in the queue that
\* will send it.
THEOREM DuesAreQueued == Spec => []DueIsQueued
  <1>1. Inv => DueIsQueued
    BY InvImplies
  <1>2. QED BY InvHolds, <1>1, PTL
=============================================================================
