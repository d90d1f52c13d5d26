-------------------------- MODULE TransactionsProofs --------------------------
(* Proofs about Transactions, for every set of rows, sessions and requests    *)
(* and every bound.                                                           *)
EXTENDS TransactionsShop, FiniteSetTheorems, WellFoundedInduction, TLAPS

-----------------------------------------------------------------------------
(* Amounts *)

\* Rounding a quotient that is not negative gives no negative amount.
LEMMA HalfEvenNat ==
  ASSUME NEW n \in Nat PROVE HalfEven(n, 10000) \in Nat
BY DEF HalfEven

\* Rounding half to even gives an integer.
LEMMA HalfEvenInt ==
  ASSUME NEW n \in Int PROVE HalfEven(n, 10000) \in Int
BY DEF HalfEven

\* No discount makes a price negative.
LEMMA ReducedNat ==
  ASSUME NEW c \in Nat, NEW p \in Promos \cup {Null}
  PROVE  Reduced(c, p) \in Nat
<1>1. CASE p = Null
  BY <1>1 DEF Reduced
<1>2. CASE p # Null /\ Type[p] = "percent"
  <2>1. Worth[p] \in Nat /\ Worth[p] <= 10000
    BY <1>2, PromoAssumption
  <2>2. 10000 - Worth[p] \in Nat
    BY <2>1
  <2>3. c * (10000 - Worth[p]) \in Nat
    BY <2>2
  <2> QED
    BY <1>2, <2>3, HalfEvenNat DEF Reduced
<1>3. CASE p # Null /\ Type[p] # "percent"
  <2>1. Worth[p] \in Nat
    BY <1>3, PromoAssumption
  <2> QED
    BY <1>3, <2>1 DEF Reduced
<1> QED
  BY <1>1, <1>2, <1>3

\* No promo code takes money from a balance that is not negative.
LEMMA BonusNat ==
  ASSUME NEW b \in Nat, NEW p \in Promos PROVE Bonus(b, p) \in Nat
<1>1. Worth[p] \in Nat
  BY PromoAssumption
<1>2. b * Worth[p] \in Nat
  BY <1>1
<1> QED
  BY <1>1, <1>2, HalfEvenNat DEF Bonus

\* A bonus of an integer is one.
LEMMA BonusInt ==
  ASSUME NEW b \in Int, NEW p \in Promos PROVE Bonus(b, p) \in Int
<1>1. Worth[p] \in Int
  BY PromoAssumption
<1>2. b * Worth[p] \in Int
  BY <1>1
<1> QED
  BY <1>1, <1>2, HalfEvenInt DEF Bonus

-----------------------------------------------------------------------------
(* Sums over finite sets.  An induction over the size of a set is a search for a *)
(* smallest counterexample here.                                             *)

\* A nonempty set of natural numbers has a least element.
LEMMA SmallestNat ==
  ASSUME NEW T, T \subseteq Nat, T # {}
  PROVE  \E n \in T : \A m \in T : n <= m
<1> DEFINE R == {x \in Nat \X Nat : x[1] < x[2]}
<1>1. IsWellFoundedOn(R, Nat)
  BY NatLessThanWellFounded DEF OpToRel
<1>2. PICK n \in T : \A m \in T : <<m, n>> \notin R
  BY <1>1, WFMin
<1>3. ASSUME NEW m \in T, m < n PROVE <<m, n>> \in R
  BY <1>3
<1>4. \A m \in T : ~ (m < n)
  BY <1>2, <1>3
<1> HIDE DEF R
<1> QED
  BY <1>4

\* Of some subsets of a finite set one is smallest.
LEMMA SmallestSet ==
  ASSUME NEW S, IsFiniteSet(S), NEW B \in SUBSET SUBSET S, B # {}
  PROVE  \E s \in B : \A r \in B : Cardinality(s) <= Cardinality(r)
<1> DEFINE T == {Cardinality(s) : s \in B}
<1>1. \A s \in B : IsFiniteSet(s) /\ Cardinality(s) \in Nat
  BY FS_Subset, FS_CardinalityType
<1>2. T \subseteq Nat /\ T # {}
  BY <1>1
<1>3. PICK n \in T : \A m \in T : n <= m
  BY <1>2, SmallestNat
<1> QED
  BY <1>3

Pick(s) == CHOOSE x \in s : TRUE

\* h is the running sum of the function f, one element picked after the other.
Summed(h, f) ==
  h = [s \in SUBSET DOMAIN f |-> IF s = {} THEN 0 ELSE f[Pick(s)] + h[s \ {Pick(s)}]]

\* Sets that have one element less.
LEMMA Less ==
  ASSUME NEW S, IsFiniteSet(S), NEW s \in SUBSET S, NEW x \in s
  PROVE  /\ IsFiniteSet(s) /\ Cardinality(s) \in Nat
         /\ s \ {x} \in SUBSET S /\ Cardinality(s \ {x}) < Cardinality(s)
         /\ Cardinality(s \ {x}) \in Nat
<1>1. IsFiniteSet(s) /\ Cardinality(s) \in Nat
  BY FS_Subset, FS_CardinalityType
<1>2. Cardinality(s \ {x}) = Cardinality(s) - 1
  BY <1>1, FS_RemoveElement
<1>3. IsFiniteSet(s \ {x})
  BY <1>1, FS_RemoveElement
<1> QED
  BY <1>1, <1>2, <1>3, FS_CardinalityType

\* The running sum is determined, set by set.
LEMMA SumUnique ==
  ASSUME NEW f, IsFiniteSet(DOMAIN f), NEW h, NEW k, Summed(h, f), Summed(k, f)
  PROVE  h = k
<1> DEFINE B == {s \in SUBSET DOMAIN f : h[s] # k[s]}
<1>1. ASSUME B # {} PROVE FALSE
  <2>1. PICK s \in B : \A r \in B : Cardinality(s) <= Cardinality(r)
    BY <1>1, SmallestSet
  <2>2. s # {} => Pick(s) \in s
    BY DEF Pick
  <2>3. CASE s = {}
    BY <2>1, <2>3 DEF Summed
  <2>4. CASE s # {}
    <3>1. /\ s \ {Pick(s)} \in SUBSET DOMAIN f
          /\ ~ (Cardinality(s) <= Cardinality(s \ {Pick(s)}))
      BY <2>2, <2>4, Less
    <3>2. h[s \ {Pick(s)}] = k[s \ {Pick(s)}]
      BY <2>1, <3>1
    <3>3. h[s] = f[Pick(s)] + h[s \ {Pick(s)}] /\ k[s] = f[Pick(s)] + k[s \ {Pick(s)}]
      BY <2>4 DEF Summed
    <3> QED
      BY <3>2, <3>3
  <2> QED
    BY <2>3, <2>4
<1>2. \A s \in SUBSET DOMAIN f : h[s] = k[s]
  BY <1>1
<1>3. /\ h = [s \in SUBSET DOMAIN f |-> h[s]]
      /\ k = [s \in SUBSET DOMAIN f |-> k[s]]
  BY DEF Summed
<1> QED
  BY <1>2, <1>3

\* And there is one for every function with a finite domain.
LEMMA SumExists ==
  ASSUME NEW f, IsFiniteSet(DOMAIN f)
  PROVE  \E h : Summed(h, f)
<1> DEFINE S == DOMAIN f
           Upto(h, n) == \A s \in SUBSET S : Cardinality(s) <= n =>
               h[s] = IF s = {} THEN 0 ELSE f[Pick(s)] + h[s \ {Pick(s)}]
           T == {n \in Nat : ~ \E h : h = [s \in SUBSET S |-> h[s]] /\ Upto(h, n)}
<1>1. ASSUME T # {} PROVE FALSE
  <2>1. PICK n \in T : \A m \in T : n <= m
    BY <1>1, SmallestNat, T \subseteq Nat
  <2>2. CASE n = 0
    <3>1. Upto([s \in SUBSET S |-> 0], 0)
      <4> SUFFICES ASSUME NEW s \in SUBSET S, Cardinality(s) <= 0 PROVE s = {}
        OBVIOUS
      <4> QED
        BY FS_Subset, FS_EmptySet, FS_CardinalityType
    <3> QED
      BY <2>1, <2>2, <3>1
  <2>3. CASE n # 0
    <3>1. n - 1 \in Nat /\ n - 1 \notin T
      <4> HIDE DEF T
      <4>1. n \in Nat
        BY DEF T
      <4>2. n - 1 \in Nat /\ ~ (n <= n - 1)
        BY <4>1, <2>3
      <4> QED
        BY <4>2, <2>1
    <3>2. PICK h : h = [s \in SUBSET S |-> h[s]] /\ Upto(h, n - 1)
      BY <3>1
    <3> DEFINE k == [s \in SUBSET S |->
                       IF s = {} THEN 0 ELSE f[Pick(s)] + h[s \ {Pick(s)}]]
    <3>3. ASSUME NEW s \in SUBSET S, Cardinality(s) <= n - 1 PROVE k[s] = h[s]
      BY <3>2, <3>3
    <3>4. ASSUME NEW s \in SUBSET S, Cardinality(s) <= n
          PROVE  k[s] = IF s = {} THEN 0 ELSE f[Pick(s)] + k[s \ {Pick(s)}]
      <4>1. CASE s = {}
        BY <4>1
      <4>2. CASE s # {}
        <5>1. Pick(s) \in s
          BY <4>2 DEF Pick
        <5>2. /\ Cardinality(s) \in Nat /\ Cardinality(s \ {Pick(s)}) \in Nat
              /\ Cardinality(s \ {Pick(s)}) < Cardinality(s)
              /\ s \ {Pick(s)} \in SUBSET S
          BY <5>1, Less
        <5>3. Cardinality(s \ {Pick(s)}) <= n - 1
          BY <5>2, <3>1, <3>4
        <5>4. k[s \ {Pick(s)}] = h[s \ {Pick(s)}]
          BY <5>2, <5>3, <3>3
        <5> QED
          BY <5>4, <4>2
      <4> QED
        BY <4>1, <4>2
    <3>5. Upto(k, n) /\ k = [s \in SUBSET S |-> k[s]]
      BY <3>4
    <3> HIDE DEF k
    <3>6. n \notin T
      BY <3>5
    <3> QED
      BY <3>6, <2>1
  <2> QED
    BY <2>2, <2>3
<1>2. Cardinality(S) \in Nat
  BY FS_CardinalityType
<1>3. PICK h : h = [s \in SUBSET S |-> h[s]] /\ Upto(h, Cardinality(S))
  BY <1>1, <1>2
<1>4. \A s \in SUBSET S : Cardinality(s) <= Cardinality(S)
  BY FS_Subset
<1>5. \A s \in SUBSET S : h[s] = IF s = {} THEN 0 ELSE f[Pick(s)] + h[s \ {Pick(s)}]
  BY <1>3, <1>4
<1> QED
  BY <1>3, <1>5 DEF Summed

\* A sum of integers is an integer.
LEMMA SumTyped ==
  ASSUME NEW f, IsFiniteSet(DOMAIN f), NEW h, Summed(h, f),
         \A x \in DOMAIN f : f[x] \in Int
  PROVE  \A s \in SUBSET DOMAIN f : h[s] \in Int
<1> DEFINE B == {s \in SUBSET DOMAIN f : h[s] \notin Int}
<1>1. ASSUME B # {} PROVE FALSE
  <2>1. PICK s \in B : \A r \in B : Cardinality(s) <= Cardinality(r)
    BY <1>1, SmallestSet
  <2>2. CASE s = {}
    BY <2>1, <2>2 DEF Summed
  <2>3. CASE s # {}
    <3>1. Pick(s) \in s
      BY <2>3 DEF Pick
    <3>2. /\ s \ {Pick(s)} \in SUBSET DOMAIN f
          /\ ~ (Cardinality(s) <= Cardinality(s \ {Pick(s)}))
      BY <3>1, Less
    <3>3. h[s \ {Pick(s)}] \in Int /\ f[Pick(s)] \in Int
      BY <2>1, <3>1, <3>2
    <3>4. h[s] = f[Pick(s)] + h[s \ {Pick(s)}]
      BY <2>1, <2>3 DEF Summed
    <3> QED
      BY <3>3, <3>4, <2>1
  <2> QED
    BY <2>2, <2>3
<1> QED
  BY <1>1

\* Any element can be taken out of a set, not only the picked one.
Takes(h, f) == \A s \in SUBSET DOMAIN f : \A x \in s : h[s] = f[x] + h[s \ {x}]

\* Any element may be the one picked.
LEMMA SumAny ==
  ASSUME NEW f, IsFiniteSet(DOMAIN f), NEW h, Summed(h, f),
         \A x \in DOMAIN f : f[x] \in Int
  PROVE  Takes(h, f)
<1> DEFINE B == {s \in SUBSET DOMAIN f : \E x \in s : h[s] # f[x] + h[s \ {x}]}
<1>1. ASSUME B # {} PROVE FALSE
  <2>1. PICK s \in B : \A r \in B : Cardinality(s) <= Cardinality(r)
    BY <1>1, SmallestSet
  <2>2. PICK x \in s : h[s] # f[x] + h[s \ {x}]
    OBVIOUS
  <2> DEFINE y == Pick(s)
             r == s \ {y}
  <2>3. y \in s
    BY DEF Pick
  <2>4. h[s] = f[y] + h[r]
    BY <2>1, <2>2 DEF Summed
  <2>5. x # y
    BY <2>2, <2>4
  <2>6. r \in SUBSET DOMAIN f /\ x \in r /\ ~ (Cardinality(s) <= Cardinality(r))
    BY <2>3, <2>5, Less
  <2>7. h[r] = f[x] + h[r \ {x}]
    BY <2>6, <2>1
  <2>8. /\ s \ {x} \in SUBSET DOMAIN f /\ y \in s \ {x}
        /\ ~ (Cardinality(s) <= Cardinality(s \ {x}))
    BY <2>3, <2>5, Less
  <2>9. h[s \ {x}] = f[y] + h[(s \ {x}) \ {y}]
    BY <2>8, <2>1
  <2>10. r \ {x} = (s \ {x}) \ {y}
    OBVIOUS
  <2>11. f[x] \in Int /\ f[y] \in Int /\ h[r \ {x}] \in Int
    BY <2>3, <2>6, SumTyped
  <2> DEFINE z == r \ {x}
  <2>12. h[s] = f[y] + (f[x] + h[z]) /\ h[s \ {x}] = f[y] + h[z]
    BY <2>4, <2>7, <2>9, <2>10
  <2> HIDE DEF y, z
  <2> QED
    BY <2>2, <2>11, <2>12 DEF z
<1> QED
  BY <1>1 DEF Takes

\* The sum of the values of a function.
Sum(f) == (CHOOSE h : Summed(h, f))[DOMAIN f]

\* Whatever running sum is looked at, its last value is the sum.
LEMMA SumOf ==
  ASSUME NEW f, IsFiniteSet(DOMAIN f), NEW h, Summed(h, f)
  PROVE  Sum(f) = h[DOMAIN f]
<1>1. Summed(CHOOSE k : Summed(k, f), f)
  OBVIOUS
<1>2. h = CHOOSE k : Summed(k, f)
  BY <1>1, SumUnique
<1> QED
  BY <1>2 DEF Sum

\* The empty sum.
LEMMA SumNone ==
  ASSUME NEW f, DOMAIN f = {}
  PROVE  Sum(f) = 0
<1>1. IsFiniteSet(DOMAIN f)
  BY FS_EmptySet
<1>2. PICK h : Summed(h, f)
  BY <1>1, SumExists
<1>3. Sum(f) = h[DOMAIN f]
  BY <1>1, <1>2, SumOf
<1> QED
  BY <1>2, <1>3 DEF Summed

\* One summand can be taken out, whichever it is.
LEMMA SumMore ==
  ASSUME NEW f, IsFiniteSet(DOMAIN f), \A x \in DOMAIN f : f[x] \in Int,
         NEW x \in DOMAIN f,
         NEW e, e = [y \in DOMAIN f \ {x} |-> f[y]]
  PROVE  Sum(f) = f[x] + Sum(e)
<1>1. PICK h : Summed(h, f)
  BY SumExists
<1>2. IsFiniteSet(DOMAIN e) /\ DOMAIN e = DOMAIN f \ {x}
  BY FS_RemoveElement
<1> DEFINE k == [s \in SUBSET DOMAIN e |-> h[s]]
<1>3. Summed(k, e)
  <2>1. ASSUME NEW s \in SUBSET DOMAIN e
        PROVE  k[s] = IF s = {} THEN 0 ELSE e[Pick(s)] + k[s \ {Pick(s)}]
    <3>1. s \in SUBSET DOMAIN f /\ s \ {Pick(s)} \in SUBSET DOMAIN e
      BY <1>2
    <3>2. h[s] = IF s = {} THEN 0 ELSE f[Pick(s)] + h[s \ {Pick(s)}]
      BY <3>1, <1>1 DEF Summed
    <3>3. s # {} => Pick(s) \in s
      BY DEF Pick
    <3>4. s # {} => f[Pick(s)] = e[Pick(s)]
      BY <3>3, <1>2
    <3> QED
      BY <3>1, <3>2, <3>4
  <2> QED
    BY <2>1 DEF Summed
<1>4. Sum(e) = k[DOMAIN e] /\ Sum(f) = h[DOMAIN f]
  BY <1>1, <1>2, <1>3, SumOf
<1>5. h[DOMAIN f] = f[x] + h[DOMAIN f \ {x}]
  <2>1. Takes(h, f)
    BY <1>1, SumAny
  <2> QED
    BY <2>1 DEF Takes
<1> QED
  BY <1>2, <1>4, <1>5

\* A sum does not depend on what its summands are named.
LEMMA SumRenamed ==
  ASSUME NEW f, IsFiniteSet(DOMAIN f), \A x \in DOMAIN f : f[x] \in Int,
         NEW g, NEW b, DOMAIN g = {b[x] : x \in DOMAIN f},
         \A x, y \in DOMAIN f : b[x] = b[y] => x = y,
         \A x \in DOMAIN f : g[b[x]] = f[x]
  PROVE  Sum(g) = Sum(f)
<1> DEFINE Im(s) == {b[x] : x \in s}
<1>1. IsFiniteSet(DOMAIN g)
  <2> DEFINE c == [x \in DOMAIN f |-> b[x]]
  <2>1. c \in Surjection(DOMAIN f, DOMAIN g)
    BY DEF Surjection
  <2> QED
    BY <2>1, FS_Surjection
<1>2. PICK h : Summed(h, f)
  BY SumExists
<1>3. PICK k : Summed(k, g)
  BY <1>1, SumExists
<1>4. \A y \in DOMAIN g : g[y] \in Int
  OBVIOUS
<1> DEFINE B == {s \in SUBSET DOMAIN f : k[Im(s)] # h[s]}
<1>5. ASSUME B # {} PROVE FALSE
  <2>1. PICK s \in B : \A r \in B : Cardinality(s) <= Cardinality(r)
    <3>1. B \in SUBSET SUBSET DOMAIN f
      OBVIOUS
    <3> HIDE DEF B
    <3> QED
      BY <1>5, <3>1, SmallestSet
  <2>2. CASE s = {}
    <3>1. Im(s) = {}
      BY <2>2
    <3> QED
      BY <2>1, <2>2, <3>1, <1>2, <1>3 DEF Summed
  <2>3. CASE s # {}
    <3>1. PICK x \in s : TRUE
      BY <2>3
    <3>2. s \ {x} \in SUBSET DOMAIN f /\ ~ (Cardinality(s) <= Cardinality(s \ {x}))
      BY <3>1, Less
    <3>3. k[Im(s \ {x})] = h[s \ {x}]
      BY <3>2, <2>1
    <3>4. h[s] = f[x] + h[s \ {x}]
      <4>1. Takes(h, f)
        BY <1>2, SumAny
      <4> QED
        BY <3>1, <4>1 DEF Takes
    <3>5. Im(s) \in SUBSET DOMAIN g /\ b[x] \in Im(s)
      BY <3>1
    <3>6. Takes(k, g)
      BY <1>1, <1>3, <1>4, SumAny
    <3>7. Im(s) \ {b[x]} = Im(s \ {x})
      BY <3>1
    <3>8. g[b[x]] = f[x]
      BY <3>1
    <3>9. k[Im(s)] = g[b[x]] + k[Im(s) \ {b[x]}]
      BY <3>5, <3>6 DEF Takes
    <3> QED
      BY <3>3, <3>4, <3>7, <3>8, <3>9, <2>1
  <2> QED
    BY <2>2, <2>3
<1>6. k[Im(DOMAIN f)] = h[DOMAIN f]
  BY <1>5
<1>7. Sum(f) = h[DOMAIN f] /\ Sum(g) = k[DOMAIN g]
  BY <1>1, <1>2, <1>3, SumOf
<1> QED
  BY <1>6, <1>7

-----------------------------------------------------------------------------
(* Sessions *)

Code_(r) == IF r.req.kind = "checkout" THEN LinePromo[r.line] ELSE r.req.promo
Item_(r) == IF r.req.kind = "checkout" THEN LineItem[r.line] ELSE r.req.item

\* What a session is doing agrees with what it was asked for.
Coherent(r) ==
  /\ r.at \notin {"idle", "done"} => r.req \in Requests
  /\ r.at = "user" => r.req.kind \in {"checkout", "buy", "redeem", "input"}
  /\ r.at = "line" => r.req.kind = "checkout"
  /\ r.at \in {"goods", "values"} => r.req.kind \in {"buy", "checkout"}
  /\ r.at = "promo" => r.req.kind \in {"checkout", "buy", "redeem", "input"}
                       /\ Code_(r) \in Promos
  /\ r.at = "pay" => r.req.kind \in {"buy", "redeem", "input"}
                     /\ (r.req.kind # "buy" => r.req.promo \in Promos)
  /\ r.at \in {"count", "insert"} => r.req.kind = "add"
  /\ r.at \in {"drop.values", "drop.rest", "drop.goods", "drop.promos"} => r.req.kind = "delete"
  /\ r.req.kind = "checkout" /\ r.at \in {"goods", "values", "promo"} => r.line \in Lines
  /\ r.req.kind = "checkout" /\ r.at = "promo" => r.value \in Values

Typed == TypeOK /\ \A s \in Sessions : Coherent(tx[s])

\* A session with a new record keeps the types.
LEMMA PutTyped ==
  ASSUME Typed, NEW s \in Sessions, NEW r, Put(s, r), r \in Tx, Coherent(r)
  PROVE  tx' \in [Sessions -> Tx] /\ \A t \in Sessions : Coherent(tx'[t])
BY DEF Typed, TypeOK, Put

\* A session without an operation has its type.
LEMMA FreshTyped ==
  ASSUME NEW at \in {"idle", "done"}
  PROVE  Fresh(at) \in Tx /\ Coherent(Fresh(at))
<1>1. [p \in Promos |-> 0] \in [Promos -> Nat]
  OBVIOUS
<1>2. Fresh(at) \in Tx
  BY <1>1 DEF Fresh, Tx, Places
<1>3. Coherent(Fresh(at))
  BY RowsAssumption DEF Fresh, Coherent
<1> QED
  BY <1>2, <1>3

\* Ending an operation keeps the types.
LEMMA EndTyped ==
  ASSUME Typed, NEW s \in Sessions, End(s)
  PROVE  tx' \in [Sessions -> Tx] /\ \A t \in Sessions : Coherent(tx'[t])
BY FreshTyped, PutTyped DEF End

\* What the type invariant says of a session that is doing something.
LEMMA SessionFacts ==
  ASSUME Typed, NEW s \in Sessions, tx[s].at \notin {"idle", "done"}
  PROVE  /\ tx[s].req \in Requests /\ tx[s].req \in Request
         /\ User(s) \in Users /\ Kind(s) \in Kinds
         /\ (tx[s].at \in {"goods", "values", "promo"} \/ Kind(s) # "checkout")
              => Code(s) \in Promos \cup {Null}
         /\ Kind(s) = tx[s].req.kind
         /\ Code(s) = Code_(tx[s]) /\ Item(s) = Item_(tx[s])
<1>1. tx[s] \in Tx /\ Coherent(tx[s])
  BY DEF Typed, TypeOK
<1>2. tx[s].req \in Requests /\ tx[s].req \in Request
  BY <1>1, RequestsAssumption DEF Coherent
<1>3. User(s) \in Users /\ Kind(s) \in Kinds /\ tx[s].req.promo \in Promos \cup {Null}
  BY <1>2 DEF User, Kind, Request
<1>4. Code(s) = Code_(tx[s]) /\ Item(s) = Item_(tx[s]) /\ Kind(s) = tx[s].req.kind
  BY DEF Code, Item, Kind, Code_, Item_
<1>5. ASSUME tx[s].at \in {"goods", "values", "promo"} \/ Kind(s) # "checkout"
      PROVE  Code(s) \in Promos \cup {Null}
  <2>1. CASE Kind(s) = "checkout" /\ tx[s].line \in Lines
    BY <2>1, CartAssumption DEF Code
  <2>2. CASE Kind(s) # "checkout"
    BY <2>2, <1>3 DEF Code
  <2> QED
    BY <2>1, <2>2, <1>1, <1>4, <1>5 DEF Coherent
<1> QED
  BY <1>2, <1>3, <1>4, <1>5

\* The rows a statement locks are rows of the tables.
LEMMA WantsRows ==
  ASSUME Typed, NEW s \in Sessions, tx[s].at \notin {"idle", "done"}
  PROVE  Wants(s) \subseteq Rows
<1> DEFINE at == tx[s].at
<1>1. listed \subseteq Goods /\ stock \subseteq Values /\ User(s) \in Users
  BY SessionFacts DEF Typed, TypeOK, TablesOK
<1>2. Offer(s) \subseteq Values
  BY <1>1 DEF Offer
<1>3. Wants(s) \in {{User(s)}, {Item(s)} \cap listed, Offer(s), {},
        {p \in {Code(s)} \cap Promos : promo[p].row},
        Offer(s) \cup {p \in Promos : promo[p].row /\ promo[p].item = Item(s)}}
  <2>1. CASE at = "user"
    BY <2>1 DEF Wants
  <2>2. CASE at = "goods"
    BY <2>2 DEF Wants
  <2>3. CASE at = "promo"
    BY <2>3 DEF Wants
  <2>4. CASE at = "values"
    BY <2>4 DEF Wants
  <2>5. CASE at = "drop.values"
    BY <2>5 DEF Wants
  <2>6. CASE at = "drop.goods"
    BY <2>6 DEF Wants
  <2>7. CASE at = "drop.promos"
    BY <2>7 DEF Wants
  <2>8. CASE at \notin {"user", "goods", "promo", "values", "drop.values",
                        "drop.goods", "drop.promos"}
    BY <2>8 DEF Wants
  <2> QED
    BY <2>1, <2>2, <2>3, <2>4, <2>5, <2>6, <2>7, <2>8
<1> QED
  BY <1>1, <1>2, <1>3 DEF Rows

\* Locking what it wants leaves a session of its type.
LEMMA LockedTyped ==
  ASSUME Typed, NEW s \in Sessions, tx[s].at \notin {"idle", "done"}
  PROVE  /\ Locked(s) \in Tx /\ Coherent(Locked(s))
         /\ Locked(s) = [tx[s] EXCEPT !.rows = tx[s].rows \cup Wants(s)]
<1>1. tx[s] \in Tx /\ Coherent(tx[s])
  BY DEF Typed, TypeOK
<1>2. tx[s].rows \cup Wants(s) \in SUBSET Rows
  BY <1>1, WantsRows DEF Tx
<1>3. Locked(s) = [tx[s] EXCEPT !.rows = tx[s].rows \cup Wants(s)]
  BY DEF Locked
<1>4. Locked(s) \in Tx
  BY <1>1, <1>2, <1>3 DEF Tx
<1>5. Coherent(Locked(s))
  BY <1>1, <1>3 DEF Coherent, Code_, Tx
<1> QED
  BY <1>3, <1>4, <1>5

-----------------------------------------------------------------------------
(* The steps of a session keep its type *)

\* Begin keeps the types.
LEMMA BeginTyped ==
  ASSUME Typed, NEW s \in Sessions, NEW q \in Requests, Begin(s, q)
  PROVE  tx' \in [Sessions -> Tx] /\ \A t \in Sessions : Coherent(tx'[t])
<1> DEFINE p == CASE q.kind \in {"checkout", "buy", "redeem"} -> "user"
                  [] q.kind = "input"  -> "promo"
                  [] q.kind = "add"    -> "count"
                  [] q.kind = "delete" -> "drop.values"
<1> DEFINE r == [Fresh(p) EXCEPT !.req = q]
<1>1. Put(s, r)
  BY DEF Begin
<1>2. q \in Request /\ (q.kind \in {"redeem", "input"} => q.promo # Null)
  BY RequestsAssumption
<1>3. q.kind \in Kinds /\ q.promo \in Promos \cup {Null}
  BY <1>2 DEF Request
<1>4. /\ q.kind \in {"checkout", "buy", "redeem"} => p = "user"
      /\ q.kind = "input" => p = "promo"
      /\ q.kind = "add" => p = "count"
      /\ q.kind = "delete" => p = "drop.values"
  <2>1. CASE q.kind \in {"checkout", "buy", "redeem"}
    BY <2>1
  <2>2. CASE q.kind = "input"
    BY <2>2
  <2>3. CASE q.kind = "add"
    BY <2>3
  <2>4. CASE q.kind = "delete"
    BY <2>4
  <2> QED
    BY <2>1, <2>2, <2>3, <2>4, <1>3 DEF Kinds
<1> HIDE DEF p
<1>5. r = [Fresh(p) EXCEPT !.req = q] /\ r.at = p /\ r.req = q
  BY DEF Fresh
<1>6. p \in Places
  BY <1>3, <1>4 DEF Kinds, Places
<1>7. r \in Tx
  <2>1. [x \in Promos |-> 0] \in [Promos -> Nat]
    OBVIOUS
  <2> QED
    BY <2>1, <1>6 DEF Fresh, Tx
<1> HIDE DEF r
<1>8. Coherent(r)
  <2>1. q.kind \in {"redeem", "input"} => q.promo \in Promos
    BY <1>2, <1>3
  <2> QED
    BY <1>3, <1>4, <1>5, <2>1 DEF Coherent, Kinds, Code_
<1> QED
  BY <1>1, <1>7, <1>8, PutTyped

\* A statement that locks its rows and moves on.
LEMMA MoveTyped ==
  ASSUME Typed, NEW s \in Sessions, tx[s].at \notin {"idle", "done"},
         NEW p \in Places
  PROVE  /\ [Locked(s) EXCEPT !.at = p] \in Tx
         /\ [Locked(s) EXCEPT !.at = p].at = p
         /\ [Locked(s) EXCEPT !.at = p].req = tx[s].req
         /\ [Locked(s) EXCEPT !.at = p].line = tx[s].line
         /\ [Locked(s) EXCEPT !.at = p].value = tx[s].value
<1>1. tx[s] \in Tx /\ Locked(s) \in Tx
  BY LockedTyped DEF Typed, TypeOK
<1>2. Locked(s).req = tx[s].req /\ Locked(s).line = tx[s].line /\ Locked(s).value = tx[s].value
  BY <1>1, LockedTyped DEF Tx
<1> QED
  BY <1>1, <1>2 DEF Tx

\* What the steps of a session put in the place of its record, a record of
\* the type again.
LEMMA LockUserStep ==
  ASSUME Typed, NEW s \in Sessions, LockUser(s)
  PROVE  \/ End(s)
         \/ \E r \in Tx :
              /\ Put(s, r) /\ Coherent(r)
              /\ r.at \in {"line", "goods", "promo", "pay"}
              /\ r.at = "pay" => r.req.kind = "input"
              /\ r.at = "promo" => r.req.kind = "redeem"
              /\ r.req = tx[s].req /\ r.rows = tx[s].rows \cup {User(s)}
              /\ r.bal = balance[User(s)]
              /\ r.got = tx[s].got /\ r.total = tx[s].total
              /\ r.uses = tx[s].uses /\ r.drop = tx[s].drop
              /\ r.req.kind = "checkout" => r.todo = {l \in cart : LineUser[l] = User(s)}
<1> DEFINE mine == IF Kind(s) = "checkout" THEN {l \in cart : LineUser[l] = User(s)} ELSE {}
           p == CASE Kind(s) = "checkout" -> "line" [] Kind(s) = "buy" -> "goods"
                  [] Kind(s) = "redeem" -> "promo"  [] Kind(s) = "input" -> "pay"
           r == [Locked(s) EXCEPT !.at = p, !.bal = balance[User(s)], !.todo = mine]
<1>1. tx[s].at = "user" /\ (End(s) \/ Put(s, r))
  BY DEF LockUser
<1>2. tx[s] \in Tx /\ Coherent(tx[s]) /\ Locked(s) \in Tx
  BY <1>1, LockedTyped DEF Typed, TypeOK
<1>3. Kind(s) = tx[s].req.kind /\ Kind(s) \in {"checkout", "buy", "redeem", "input"}
  BY <1>1, <1>2 DEF Coherent, Kind
<1>4. /\ Kind(s) = "checkout" => p = "line"
      /\ Kind(s) = "buy" => p = "goods"
      /\ Kind(s) = "redeem" => p = "promo"
      /\ Kind(s) = "input" => p = "pay"
  <2>1. CASE Kind(s) = "checkout"
    BY <2>1
  <2>2. CASE Kind(s) = "buy"
    BY <2>2
  <2>3. CASE Kind(s) = "redeem"
    BY <2>3
  <2>4. CASE Kind(s) = "input"
    BY <2>4
  <2> QED
    BY <2>1, <2>2, <2>3, <2>4, <1>3
<1> HIDE DEF p
<1>5. /\ balance[User(s)] \in Int /\ mine \subseteq Lines
      /\ Kind(s) = "checkout" => mine = {l \in cart : LineUser[l] = User(s)}
  BY <1>1, SessionFacts DEF Typed, TypeOK, TablesOK
<1> HIDE DEF mine
<1>6. p \in Places
  BY <1>3, <1>4 DEF Places
<1>7. r \in Tx
  BY <1>2, <1>5, <1>6 DEF Tx
<1>8. /\ r.at = p /\ r.req = tx[s].req /\ r.line = tx[s].line
      /\ r.rows = tx[s].rows \cup Wants(s) /\ r.bal = balance[User(s)]
      /\ r.got = tx[s].got /\ r.total = tx[s].total /\ r.uses = tx[s].uses
      /\ r.drop = tx[s].drop /\ r.todo = mine
  BY <1>1, <1>2, LockedTyped DEF Tx
<1> HIDE DEF r
<1>9. Coherent(r)
  <2>1. tx[s].req \in Request /\ tx[s].req.promo \in Promos \cup {Null}
    BY <1>1, SessionFacts DEF Request
  <2>2. tx[s].req.kind \in {"redeem", "input"} => tx[s].req.promo \in Promos
    BY <2>1, <1>1, SessionFacts, RequestsAssumption
  <2> QED
    BY <1>1, <1>2, <1>3, <1>4, <1>8, <2>2 DEF Coherent, Code_
<1>10. Wants(s) = {User(s)}
  BY <1>1 DEF Wants
<1>11. r.at \in {"line", "goods", "promo", "pay"} /\ (r.at = "pay" => r.req.kind = "input")
       /\ (r.at = "promo" => r.req.kind = "redeem")
  BY <1>3, <1>4, <1>8
<1> QED
  BY <1>1, <1>3, <1>5, <1>7, <1>8, <1>9, <1>10, <1>11

\* What NextLine does to the session that takes it.
LEMMA NextLineStep ==
  ASSUME Typed, NEW s \in Sessions, NextLine(s)
  PROVE  \E r \in Tx : /\ Put(s, r) /\ Coherent(r) /\ r.at = "goods"
                       /\ r.req = tx[s].req /\ r.req.kind = "checkout"
                       /\ r.rows = tx[s].rows /\ r.bal = tx[s].bal
                       /\ r.got = tx[s].got /\ r.total = tx[s].total
                       /\ r.uses = tx[s].uses
                       /\ r.line \in tx[s].todo /\ r.todo = tx[s].todo \ {r.line}
                       /\ r.drop = tx[s].drop
<1>1. PICK l \in tx[s].todo :
        Put(s, [tx[s] EXCEPT !.at = "goods", !.line = l, !.todo = @ \ {l}])
  BY DEF NextLine
<1> DEFINE r == [tx[s] EXCEPT !.at = "goods", !.line = l, !.todo = @ \ {l}]
<1>2. tx[s] \in Tx /\ Coherent(tx[s]) /\ tx[s].at = "line"
  BY DEF NextLine, Typed, TypeOK
<1>3. l \in Lines /\ tx[s].todo \ {l} \subseteq Lines /\ tx[s].req.kind = "checkout"
  BY <1>1, <1>2 DEF Tx, Coherent
<1>4. r \in Tx
  BY <1>2, <1>3 DEF Tx, Places
<1>5. /\ r.at = "goods" /\ r.req = tx[s].req /\ r.line = l
      /\ r.rows = tx[s].rows /\ r.bal = tx[s].bal
      /\ r.got = tx[s].got /\ r.total = tx[s].total /\ r.uses = tx[s].uses
      /\ r.todo = tx[s].todo \ {l} /\ r.drop = tx[s].drop
  BY <1>2 DEF Tx
<1>6. Put(s, r)
  BY <1>1
<1> HIDE DEF r
<1>7. Coherent(r)
  BY <1>2, <1>3, <1>5 DEF Coherent
<1> QED
  BY <1>3, <1>4, <1>5, <1>6, <1>7

\* An item that cannot be sold: only a checkout goes on.
LEMMA UnavailableStep ==
  ASSUME Typed, NEW s \in Sessions, tx[s].at \in {"goods", "values"}, Unavailable(s)
  PROVE  \/ End(s)
         \/ \E r \in Tx : /\ Put(s, r) /\ Coherent(r) /\ r.at = "line"
                          /\ r.req = tx[s].req /\ r.req.kind = "checkout"
                          /\ r.rows = tx[s].rows /\ r.bal = tx[s].bal
                          /\ r.got = tx[s].got /\ r.total = tx[s].total
                          /\ r.uses = tx[s].uses /\ r.todo = tx[s].todo
                          /\ r.drop = tx[s].drop \cup {tx[s].line}
<1> SUFFICES ASSUME ~ End(s)
    PROVE \E r \in Tx : /\ Put(s, r) /\ Coherent(r) /\ r.at = "line"
                        /\ r.req = tx[s].req /\ r.req.kind = "checkout"
                        /\ r.rows = tx[s].rows /\ r.bal = tx[s].bal
                        /\ r.got = tx[s].got /\ r.total = tx[s].total
                        /\ r.uses = tx[s].uses /\ r.todo = tx[s].todo
                        /\ r.drop = tx[s].drop \cup {tx[s].line}
  OBVIOUS
<1> DEFINE r == [tx[s] EXCEPT !.at = "line", !.drop = @ \cup {tx[s].line}]
<1>1. Put(s, r) /\ Kind(s) = "checkout"
  BY DEF Unavailable
<1>2. tx[s] \in Tx /\ Coherent(tx[s])
  BY DEF Typed, TypeOK
<1>3. tx[s].req.kind = "checkout" /\ tx[s].line \in Lines
  BY <1>1, <1>2 DEF Coherent, Kind
<1>4. tx[s].drop \cup {tx[s].line} \subseteq Lines
  BY <1>2, <1>3 DEF Tx
<1>5. r \in Tx
  BY <1>2, <1>4 DEF Tx, Places
<1>6. /\ r.at = "line" /\ r.req = tx[s].req
      /\ r.rows = tx[s].rows /\ r.bal = tx[s].bal
      /\ r.got = tx[s].got /\ r.total = tx[s].total /\ r.uses = tx[s].uses
      /\ r.todo = tx[s].todo
      /\ r.drop = tx[s].drop \cup {tx[s].line}
  BY <1>2 DEF Tx
<1> HIDE DEF r
<1>7. Coherent(r)
  BY <1>2, <1>3, <1>6 DEF Coherent
<1> QED
  BY <1>1, <1>3, <1>5, <1>6, <1>7

\* What LockGoods does to the session that takes it.
LEMMA LockGoodsStep ==
  ASSUME Typed, NEW s \in Sessions, LockGoods(s)
  PROVE  \/ End(s) \/ Unavailable(s)
         \/ \E r \in Tx :
              /\ Put(s, r) /\ Coherent(r) /\ r.at \in {"promo", "values"}
              /\ r.req = tx[s].req /\ r.req.kind \in {"buy", "checkout"} /\ Item(s) \in Wants(s)
              /\ r.rows = tx[s].rows \cup Wants(s) /\ r.bal = tx[s].bal
              /\ r.got = tx[s].got /\ r.total = tx[s].total
              /\ r.uses = tx[s].uses /\ r.line = tx[s].line
              /\ r.todo = tx[s].todo /\ r.drop = tx[s].drop
              /\ r.at = "promo" => r.req.kind = "buy"
              /\ r.cost = price[Item(s)]
              /\ r.at = "values" /\ r.req.kind = "buy" =>
                   r.cost <= r.bal /\ r.req.promo = Null
<1> SUFFICES ASSUME ~ End(s), ~ Unavailable(s)
    PROVE  \E r \in Tx :
             /\ Put(s, r) /\ Coherent(r) /\ r.at \in {"promo", "values"}
             /\ r.req = tx[s].req /\ r.req.kind \in {"buy", "checkout"} /\ Item(s) \in Wants(s)
             /\ r.rows = tx[s].rows \cup Wants(s) /\ r.bal = tx[s].bal
             /\ r.got = tx[s].got /\ r.total = tx[s].total
             /\ r.uses = tx[s].uses /\ r.line = tx[s].line
             /\ r.todo = tx[s].todo /\ r.drop = tx[s].drop
             /\ r.at = "promo" => r.req.kind = "buy"
             /\ r.cost = price[Item(s)]
             /\ r.at = "values" /\ r.req.kind = "buy" =>
                  r.cost <= r.bal /\ r.req.promo = Null
  OBVIOUS
<1> DEFINE p == IF Kind(s) = "buy" /\ Code(s) # Null THEN "promo" ELSE "values"
           r == [Locked(s) EXCEPT !.cost = price[Item(s)], !.at = p]
<1>1. /\ tx[s].at = "goods" /\ Put(s, r) /\ Item(s) \in listed
      /\ ~ (Kind(s) = "buy" /\ Code(s) = Null /\ tx[s].bal < price[Item(s)])
  BY DEF LockGoods
<1>2. tx[s] \in Tx /\ Coherent(tx[s]) /\ Locked(s) \in Tx
  BY <1>1, LockedTyped DEF Typed, TypeOK
<1>3. price[Item(s)] \in Nat /\ tx[s].bal \in Int
  BY <1>1, <1>2 DEF Typed, TypeOK, TablesOK, Tx
<1>4. Kind(s) = tx[s].req.kind /\ Kind(s) \in {"buy", "checkout"}
  BY <1>1, <1>2 DEF Coherent, Kind
<1>5. p \in {"promo", "values"} /\ (p = "promo" => Kind(s) = "buy" /\ Code(s) # Null)
      /\ (p = "values" /\ Kind(s) = "buy" => Code(s) = Null)
  OBVIOUS
<1> HIDE DEF p
<1>6. r \in Tx
  BY <1>2, <1>3, <1>5 DEF Tx, Places
<1>7. /\ r.at = p /\ r.req = tx[s].req /\ r.rows = tx[s].rows \cup Wants(s)
      /\ r.bal = tx[s].bal /\ r.got = tx[s].got /\ r.total = tx[s].total
      /\ r.line = tx[s].line /\ r.cost = price[Item(s)] /\ r.uses = tx[s].uses
      /\ r.todo = tx[s].todo /\ r.drop = tx[s].drop
  BY <1>1, <1>2, LockedTyped DEF Tx
<1> HIDE DEF r
<1>8. Coherent(r)
  <2>1. p = "promo" => tx[s].req.promo \in Promos
    BY <1>1, <1>4, <1>5, SessionFacts DEF Code
  <2> QED
    BY <1>1, <1>2, <1>4, <1>5, <1>7, <2>1 DEF Coherent, Code_
<1>9. p = "values" /\ Kind(s) = "buy" => r.cost <= r.bal /\ r.req.promo = Null
  BY <1>1, <1>3, <1>4, <1>5, <1>7 DEF Code
<1>10. Item(s) \in Wants(s)
  BY <1>1 DEF Wants
<1> QED
  BY <1>1, <1>10, <1>4, <1>5, <1>6, <1>7, <1>8, <1>9

\* A claimed stock row is added to the purchases, for the price given.
LEMMA ClaimFacts ==
  ASSUME NEW r \in Tx, NEW v \in Values, NEW c \in Nat, NEW p \in Promos \cup {Null}
  PROVE  /\ Claim(r, v, c, p) \in Tx
         /\ Claim(r, v, c, p).at = r.at /\ Claim(r, v, c, p).req = r.req
         /\ Claim(r, v, c, p).rows = r.rows /\ Claim(r, v, c, p).bal = r.bal
         /\ Claim(r, v, c, p).line = r.line /\ Claim(r, v, c, p).value = r.value
         /\ Claim(r, v, c, p).uses = r.uses
         /\ Claim(r, v, c, p).todo = r.todo /\ Claim(r, v, c, p).drop = r.drop
         /\ Claim(r, v, c, p).total = r.total + c
         /\ Claim(r, v, c, p).got = r.got \cup
              {[line |-> r.line, value |-> v, price |-> c, promo |-> p]}
<1>1. r.total + c \in Nat
  BY DEF Tx
<1>2. [line |-> r.line, value |-> v, price |-> c, promo |-> p] \in Purchase
  BY DEF Tx, Purchase
<1>3. r.got \cup {[line |-> r.line, value |-> v, price |-> c, promo |-> p]}
        \in SUBSET Purchase
  BY <1>2 DEF Tx
<1> QED
  BY <1>1, <1>3 DEF Claim, Tx

\* What LockValues does to the session that takes it.
LEMMA LockValuesStep ==
  ASSUME Typed, NEW s \in Sessions, LockValues(s)
  PROVE  \/ Unavailable(s)
         \/ \E r \in Tx, v \in Offer(s) :
              /\ Put(s, r) /\ Coherent(r) /\ r.at \in {"pay", "promo", "line"}
              /\ r.req = tx[s].req /\ r.req.kind \in {"buy", "checkout"}
              /\ r.rows = tx[s].rows \cup Offer(s) /\ r.bal = tx[s].bal
              /\ r.uses = tx[s].uses /\ r.line = tx[s].line
              /\ r.todo = tx[s].todo /\ r.drop = tx[s].drop
              /\ r.at = "pay" <=> r.req.kind = "buy"
              /\ r.at = "promo" => /\ r.got = tx[s].got /\ r.total = tx[s].total
                                   /\ r.value = v /\ r.cost = tx[s].cost
              /\ r.at # "promo" =>
                   /\ r.total = tx[s].total + tx[s].cost
                   /\ r.got = tx[s].got \cup {[line |-> r.line, value |-> v,
                        price |-> tx[s].cost,
                        promo |-> IF r.req.kind = "buy" THEN Code(s) ELSE Null]}
<1> SUFFICES ASSUME ~ Unavailable(s)
    PROVE  \E r \in Tx, v \in Offer(s) :
              /\ Put(s, r) /\ Coherent(r) /\ r.at \in {"pay", "promo", "line"}
              /\ r.req = tx[s].req /\ r.req.kind \in {"buy", "checkout"}
              /\ r.rows = tx[s].rows \cup Offer(s) /\ r.bal = tx[s].bal
              /\ r.uses = tx[s].uses /\ r.line = tx[s].line
              /\ r.todo = tx[s].todo /\ r.drop = tx[s].drop
              /\ r.at = "pay" <=> r.req.kind = "buy"
              /\ r.at = "promo" => /\ r.got = tx[s].got /\ r.total = tx[s].total
                                   /\ r.value = v /\ r.cost = tx[s].cost
              /\ r.at # "promo" =>
                   /\ r.total = tx[s].total + tx[s].cost
                   /\ r.got = tx[s].got \cup {[line |-> r.line, value |-> v,
                        price |-> tx[s].cost,
                        promo |-> IF r.req.kind = "buy" THEN Code(s) ELSE Null]}
  OBVIOUS
<1>1. PICK v \in Offer(s) :
        Put(s, IF Kind(s) = "buy"
                 THEN [Claim(Locked(s), v, tx[s].cost, Code(s)) EXCEPT !.at = "pay"]
               ELSE IF Code(s) # Null
                 THEN [Locked(s) EXCEPT !.value = v, !.at = "promo"]
                 ELSE [Claim(Locked(s), v, tx[s].cost, Null) EXCEPT !.at = "line"])
  BY DEF LockValues
<1>2. /\ tx[s].at = "values" /\ tx[s] \in Tx /\ Coherent(tx[s])
      /\ Locked(s) \in Tx /\ v \in Values
  BY LockedTyped DEF LockValues, Typed, TypeOK, TablesOK, Offer
<1>3. Kind(s) = tx[s].req.kind /\ Kind(s) \in {"buy", "checkout"}
  BY <1>2 DEF Coherent, Kind
<1>4. Code(s) \in Promos \cup {Null} /\ Code(s) = Code_(tx[s]) /\ tx[s].cost \in Nat
  BY <1>2, SessionFacts DEF Tx
<1>5. Wants(s) = Offer(s)
  BY <1>2 DEF Wants
<1>6. /\ Locked(s).at = "values" /\ Locked(s).req = tx[s].req
      /\ Locked(s).rows = tx[s].rows \cup Offer(s) /\ Locked(s).bal = tx[s].bal
      /\ Locked(s).got = tx[s].got /\ Locked(s).total = tx[s].total
      /\ Locked(s).uses = tx[s].uses /\ Locked(s).line = tx[s].line
      /\ Locked(s).cost = tx[s].cost
      /\ Locked(s).todo = tx[s].todo /\ Locked(s).drop = tx[s].drop
  BY <1>2, <1>5, LockedTyped DEF Tx
<1>7. CASE Kind(s) = "buy"
  <2> DEFINE c == Claim(Locked(s), v, tx[s].cost, Code(s))
             r == [c EXCEPT !.at = "pay"]
  <2>1. /\ c \in Tx /\ c.req = tx[s].req /\ c.rows = tx[s].rows \cup Offer(s)
        /\ c.bal = tx[s].bal /\ c.uses = tx[s].uses /\ c.line = tx[s].line
        /\ c.total = tx[s].total + tx[s].cost
        /\ c.todo = tx[s].todo /\ c.drop = tx[s].drop
        /\ c.got = tx[s].got \cup {[line |-> c.line, value |-> v,
                     price |-> tx[s].cost, promo |-> Code(s)]}
    BY <1>2, <1>4, <1>6, ClaimFacts
  <2> HIDE DEF c
  <2>2. /\ r \in Tx /\ r.at = "pay" /\ r.req = c.req /\ r.rows = c.rows
        /\ r.bal = c.bal /\ r.uses = c.uses /\ r.line = c.line
        /\ r.total = c.total /\ r.got = c.got /\ r.todo = c.todo /\ r.drop = c.drop
    BY <2>1 DEF Tx, Places
  <2>3. Put(s, r)
    BY <1>1, <1>7 DEF c
  <2> HIDE DEF r
  <2>4. Coherent(r)
    BY <1>2, <1>3, <1>7, <2>1, <2>2 DEF Coherent
  <2> QED
    BY <1>3, <1>7, <2>1, <2>2, <2>3, <2>4
<1>8. CASE Kind(s) = "checkout" /\ Code(s) # Null
  <2> DEFINE r == [Locked(s) EXCEPT !.value = v, !.at = "promo"]
  <2>1. /\ r \in Tx /\ r.at = "promo" /\ r.req = tx[s].req
        /\ r.rows = tx[s].rows \cup Offer(s) /\ r.bal = tx[s].bal
        /\ r.uses = tx[s].uses /\ r.got = tx[s].got /\ r.total = tx[s].total
        /\ r.value = v /\ r.line = tx[s].line /\ r.cost = tx[s].cost
        /\ r.todo = tx[s].todo /\ r.drop = tx[s].drop
    BY <1>2, <1>6 DEF Tx, Places
  <2>2. Put(s, r)
    BY <1>1, <1>8
  <2> HIDE DEF r
  <2>3. Coherent(r)
    BY <1>2, <1>3, <1>4, <1>8, <2>1 DEF Coherent, Code_
  <2> QED
    BY <1>3, <1>8, <2>1, <2>2, <2>3
<1>9. CASE Kind(s) = "checkout" /\ Code(s) = Null
  <2> DEFINE c == Claim(Locked(s), v, tx[s].cost, Null)
             r == [c EXCEPT !.at = "line"]
  <2>1. /\ c \in Tx /\ c.req = tx[s].req /\ c.rows = tx[s].rows \cup Offer(s)
        /\ c.bal = tx[s].bal /\ c.uses = tx[s].uses /\ c.line = tx[s].line
        /\ c.total = tx[s].total + tx[s].cost
        /\ c.todo = tx[s].todo /\ c.drop = tx[s].drop
        /\ c.got = tx[s].got \cup {[line |-> c.line, value |-> v,
                     price |-> tx[s].cost, promo |-> Null]}
    BY <1>2, <1>4, <1>6, ClaimFacts
  <2> HIDE DEF c
  <2>2. /\ r \in Tx /\ r.at = "line" /\ r.req = c.req /\ r.rows = c.rows
        /\ r.bal = c.bal /\ r.uses = c.uses /\ r.line = c.line
        /\ r.total = c.total /\ r.got = c.got /\ r.todo = c.todo /\ r.drop = c.drop
    BY <2>1 DEF Tx, Places
  <2>3. Put(s, r)
    BY <1>1, <1>9 DEF c
  <2> HIDE DEF r
  <2>4. Coherent(r)
    BY <1>2, <1>3, <1>9, <2>1, <2>2 DEF Coherent
  <2>5. /\ r.at = "line" /\ r.req = tx[s].req /\ r.req.kind = "checkout"
        /\ r.rows = tx[s].rows \cup Offer(s) /\ r.bal = tx[s].bal
        /\ r.uses = tx[s].uses /\ r.line = tx[s].line
        /\ r.todo = tx[s].todo /\ r.drop = tx[s].drop
        /\ r.total = tx[s].total + tx[s].cost
    BY <1>3, <1>9, <2>1, <2>2
  <2>6. r.got = tx[s].got \cup {[line |-> r.line, value |-> v,
                     price |-> tx[s].cost, promo |-> Null]}
    BY <2>1, <2>2
  <2> QED
    BY <2>2, <2>3, <2>4, <2>5, <2>6
<1> QED
  BY <1>3, <1>7, <1>8, <1>9

\* The code is valid: a purchase and a checkout reduce the price, the two
\* ways of redeeming go on to pay.
LEMMA LockPromoStep ==
  ASSUME Typed, NEW s \in Sessions, LockPromo(s)
  PROVE  \/ End(s)
         \/ \E r \in Tx :
              /\ Put(s, r) /\ Coherent(r) /\ Valid(s, Code(s))
              /\ r.req = tx[s].req /\ r.bal = tx[s].bal
              /\ r.rows = tx[s].rows \cup Wants(s)
              /\ r.line = tx[s].line /\ r.todo = tx[s].todo /\ r.drop = tx[s].drop
              /\ r.uses = [tx[s].uses EXCEPT ![Code(s)] = promo[Code(s)].uses]
              /\ \/ r.at = "pay" /\ r.req.kind = "redeem"
                 \/ r.at = "user" /\ r.req.kind = "input"
                 \/ r.at = "values" /\ r.req.kind = "buy" /\ r.cost <= r.bal
                 \/ r.at = "line" /\ r.req.kind = "checkout"
              /\ r.at # "line" => r.got = tx[s].got /\ r.total = tx[s].total
              /\ r.at = "values" => r.cost = Reduced(tx[s].cost, Code(s))
              /\ r.at = "line" =>
                   /\ tx[s].value \in Values
                   /\ r.total = tx[s].total + Reduced(tx[s].cost, Code(s))
                   /\ r.got = tx[s].got \cup {[line |-> r.line, value |-> tx[s].value,
                        price |-> Reduced(tx[s].cost, Code(s)), promo |-> Code(s)]}
<1> DEFINE p == Code(s)
           reduced == Reduced(tx[s].cost, p)
           read == [Locked(s) EXCEPT !.uses[p] = promo[p].uses]
<1>1. /\ tx[s].at = "promo" /\ tx[s] \in Tx /\ Coherent(tx[s]) /\ Locked(s) \in Tx
  BY LockedTyped DEF LockPromo, Typed, TypeOK
<1>2. /\ Kind(s) = tx[s].req.kind /\ Kind(s) \in {"checkout", "buy", "redeem", "input"}
      /\ p \in Promos
  BY <1>1, SessionFacts DEF Coherent
<1>3. /\ p \in Promos \cup {Null} /\ promo[p].uses \in Nat /\ tx[s].cost \in Nat
  BY <1>1, <1>2 DEF Typed, TypeOK, TablesOK, PromoRow, Tx
<1>4. reduced \in Nat
  BY <1>3, ReducedNat
<1>5. /\ read \in Tx /\ read.at = "promo" /\ read.req = tx[s].req
      /\ read.rows = tx[s].rows \cup Wants(s) /\ read.bal = tx[s].bal
      /\ read.got = tx[s].got /\ read.total = tx[s].total
      /\ read.uses = [tx[s].uses EXCEPT ![p] = promo[p].uses]
      /\ read.line = tx[s].line /\ read.value = tx[s].value
      /\ read.todo = tx[s].todo /\ read.drop = tx[s].drop
  <2>1. /\ Locked(s).at = "promo" /\ Locked(s).req = tx[s].req
        /\ Locked(s).rows = tx[s].rows \cup Wants(s) /\ Locked(s).bal = tx[s].bal
        /\ Locked(s).got = tx[s].got /\ Locked(s).total = tx[s].total
        /\ Locked(s).uses = tx[s].uses /\ Locked(s).line = tx[s].line
        /\ Locked(s).value = tx[s].value
        /\ Locked(s).todo = tx[s].todo /\ Locked(s).drop = tx[s].drop
    BY <1>1, LockedTyped DEF Tx
  <2>2. [tx[s].uses EXCEPT ![p] = promo[p].uses] \in [Promos -> Nat]
    BY <1>1, <1>3 DEF Tx
  <2>3. read = [Locked(s) EXCEPT !.uses = [tx[s].uses EXCEPT ![p] = promo[p].uses]]
    BY <1>1, <2>1 DEF Tx
  <2> HIDE DEF read
  <2> QED
    BY <1>1, <2>1, <2>2, <2>3 DEF Tx
<1>6. /\ ~ Valid(s, p) => End(s)
      /\ Valid(s, p) /\ Kind(s) = "redeem" => Put(s, [read EXCEPT !.at = "pay"])
      /\ Valid(s, p) /\ Kind(s) = "input" => Put(s, [read EXCEPT !.at = "user"])
      /\ Valid(s, p) /\ Kind(s) = "buy" =>
           IF tx[s].bal < reduced THEN End(s)
           ELSE Put(s, [read EXCEPT !.cost = reduced, !.at = "values"])
      /\ Valid(s, p) /\ Kind(s) = "checkout" =>
           Put(s, [Claim(read, tx[s].value, reduced, p) EXCEPT !.at = "line"])
  BY DEF LockPromo
<1> HIDE DEF read, reduced
<1> SUFFICES ASSUME ~ End(s), Valid(s, p)
    PROVE  \E r \in Tx :
              /\ Put(s, r) /\ Coherent(r)
              /\ r.req = tx[s].req /\ r.bal = tx[s].bal
              /\ r.rows = tx[s].rows \cup Wants(s)
              /\ r.line = tx[s].line /\ r.todo = tx[s].todo /\ r.drop = tx[s].drop
              /\ r.uses = [tx[s].uses EXCEPT ![Code(s)] = promo[Code(s)].uses]
              /\ \/ r.at = "pay" /\ r.req.kind = "redeem"
                 \/ r.at = "user" /\ r.req.kind = "input"
                 \/ r.at = "values" /\ r.req.kind = "buy" /\ r.cost <= r.bal
                 \/ r.at = "line" /\ r.req.kind = "checkout"
              /\ r.at # "line" => r.got = tx[s].got /\ r.total = tx[s].total
              /\ r.at = "values" => r.cost = reduced
              /\ r.at = "line" =>
                   /\ tx[s].value \in Values
                   /\ r.total = tx[s].total + reduced
                   /\ r.got = tx[s].got \cup {[line |-> r.line, value |-> tx[s].value,
                        price |-> reduced, promo |-> Code(s)]}
  BY <1>6 DEF reduced
<1>7. CASE Kind(s) = "redeem"
  <2> DEFINE r == [read EXCEPT !.at = "pay"]
  <2>1. /\ r \in Tx /\ r.at = "pay" /\ r.req = read.req /\ r.rows = read.rows
        /\ r.bal = read.bal /\ r.uses = read.uses /\ r.got = read.got
        /\ r.total = read.total /\ r.line = read.line
        /\ r.todo = read.todo /\ r.drop = read.drop
    BY <1>5 DEF Tx, Places
  <2>2. Put(s, r)
    BY <1>6, <1>7
  <2> HIDE DEF r
  <2>3. Coherent(r)
    BY <1>1, <1>2, <1>5, <1>7, <2>1, SessionFacts DEF Coherent, Code_
  <2> QED
    BY <1>2, <1>5, <1>7, <2>1, <2>2, <2>3
<1>8. CASE Kind(s) = "input"
  <2> DEFINE r == [read EXCEPT !.at = "user"]
  <2>1. /\ r \in Tx /\ r.at = "user" /\ r.req = read.req /\ r.rows = read.rows
        /\ r.bal = read.bal /\ r.uses = read.uses /\ r.got = read.got
        /\ r.total = read.total /\ r.line = read.line
        /\ r.todo = read.todo /\ r.drop = read.drop
    BY <1>5 DEF Tx, Places
  <2>2. Put(s, r)
    BY <1>6, <1>8
  <2> HIDE DEF r
  <2>3. Coherent(r)
    BY <1>1, <1>2, <1>5, <1>8, <2>1 DEF Coherent
  <2> QED
    BY <1>2, <1>5, <1>8, <2>1, <2>2, <2>3
<1>9. CASE Kind(s) = "buy"
  <2> DEFINE r == [read EXCEPT !.cost = reduced, !.at = "values"]
  <2>1. /\ r \in Tx /\ r.at = "values" /\ r.req = read.req /\ r.rows = read.rows
        /\ r.bal = read.bal /\ r.uses = read.uses /\ r.got = read.got
        /\ r.total = read.total /\ r.cost = reduced /\ r.line = read.line
        /\ r.todo = read.todo /\ r.drop = read.drop
    BY <1>4, <1>5 DEF Tx, Places
  <2>2. Put(s, r) /\ reduced <= tx[s].bal
    <3>1. tx[s].bal \in Int
      BY <1>1 DEF Tx
    <3> QED
      BY <1>4, <1>6, <1>9, <3>1
  <2> HIDE DEF r
  <2>3. Coherent(r)
    BY <1>1, <1>2, <1>5, <1>9, <2>1 DEF Coherent
  <2> QED
    BY <1>2, <1>5, <1>9, <2>1, <2>2, <2>3
<1>10. CASE Kind(s) = "checkout"
  <2> DEFINE c == Claim(read, tx[s].value, reduced, p)
             r == [c EXCEPT !.at = "line"]
  <2>1. tx[s].value \in Values
    BY <1>1, <1>2, <1>10 DEF Coherent
  <2>2. /\ c \in Tx /\ c.req = read.req /\ c.rows = read.rows /\ c.bal = read.bal
        /\ c.uses = read.uses /\ c.line = read.line
        /\ c.total = read.total + reduced
        /\ c.todo = read.todo /\ c.drop = read.drop
        /\ c.got = read.got \cup {[line |-> c.line, value |-> tx[s].value,
                     price |-> reduced, promo |-> p]}
    <3>1. read \in Tx /\ reduced \in Nat /\ p \in Promos \cup {Null}
      BY <1>3, <1>4, <1>5
    <3>2. c \in Tx
      BY <2>1, <3>1, ClaimFacts
    <3>0. PICK q : q = read
      OBVIOUS
    <3>3. /\ c.req = q.req /\ c.rows = q.rows /\ c.bal = q.bal
          /\ c.uses = q.uses /\ c.line = q.line /\ c.total = q.total + reduced
          /\ c.todo = q.todo /\ c.drop = q.drop
      BY <3>0, <3>1 DEF Claim, Tx
    <3>4. c.got = q.got \cup {[line |-> q.line, value |-> tx[s].value,
                     price |-> reduced, promo |-> p]}
      BY <3>0, <3>1 DEF Claim, Tx
    <3> HIDE DEF c
    <3> QED
      BY <3>0, <3>2, <3>3, <3>4
  <2> HIDE DEF c
  <2>3. /\ r \in Tx /\ r.at = "line" /\ r.req = c.req /\ r.rows = c.rows
        /\ r.bal = c.bal /\ r.uses = c.uses /\ r.line = c.line /\ r.got = c.got
        /\ r.total = c.total /\ r.todo = c.todo /\ r.drop = c.drop
    BY <2>2 DEF Tx, Places
  <2>4. Put(s, r)
    BY <1>6, <1>10 DEF c
  <2> HIDE DEF r
  <2>5. Coherent(r)
    BY <1>1, <1>2, <1>5, <1>10, <2>2, <2>3 DEF Coherent
  <2>6. /\ r.req = tx[s].req /\ r.bal = tx[s].bal
        /\ r.rows = tx[s].rows \cup Wants(s)
        /\ r.line = tx[s].line /\ r.todo = tx[s].todo /\ r.drop = tx[s].drop
        /\ r.uses = [tx[s].uses EXCEPT ![p] = promo[p].uses]
        /\ r.at = "line" /\ r.req.kind = "checkout"
        /\ r.total = tx[s].total + reduced
    BY <1>2, <1>5, <1>10, <2>2, <2>3
  <2>7. r.got = tx[s].got \cup {[line |-> r.line, value |-> tx[s].value,
                     price |-> reduced, promo |-> p]}
    BY <1>5, <2>2, <2>3
  <2> QED
    BY <2>1, <2>3, <2>4, <2>5, <2>6, <2>7
<1> QED
  BY <1>2, <1>7, <1>8, <1>9, <1>10

\* What CountLines does to the session that takes it.
LEMMA CountLinesStep ==
  ASSUME Typed, NEW s \in Sessions, CountLines(s)
  PROVE  \/ End(s)
         \/ \E r \in Tx : /\ Put(s, r) /\ Coherent(r) /\ r.at = "insert"
                          /\ r.req = tx[s].req /\ r.rows = tx[s].rows
                          /\ r.got = tx[s].got /\ r.uses = tx[s].uses
                          /\ r.total = tx[s].total
<1> SUFFICES ASSUME ~ End(s)
    PROVE  \E r \in Tx : /\ Put(s, r) /\ Coherent(r) /\ r.at = "insert"
                         /\ r.req = tx[s].req /\ r.rows = tx[s].rows
                          /\ r.got = tx[s].got /\ r.uses = tx[s].uses
                          /\ r.total = tx[s].total
  OBVIOUS
<1> DEFINE r == [tx[s] EXCEPT !.at = "insert"]
<1>1. Put(s, r) /\ tx[s].at = "count" /\ tx[s] \in Tx /\ Coherent(tx[s])
  BY DEF CountLines, Typed, TypeOK
<1>2. r \in Tx /\ r.at = "insert" /\ r.req = tx[s].req /\ r.rows = tx[s].rows
      /\ r.got = tx[s].got /\ r.uses = tx[s].uses
      /\ r.total = tx[s].total
  BY <1>1 DEF Tx, Places
<1> HIDE DEF r
<1>3. Coherent(r)
  BY <1>1, <1>2 DEF Coherent
<1> QED
  BY <1>1, <1>2, <1>3

\* The statements of a deletion before the last one leave the database alone.
LEMMA DroppedReady ==
  ASSUME NEW s \in Sessions, LockDropped(s) \/ LoadDropped(s)
  PROVE  /\ Ready(s) /\ UNCHANGED <<db, faults>>
         /\ tx[s].at \in {"drop.values", "drop.rest", "drop.goods"}
<1>1. LoadDropped(s) => Wants(s) = {}
  BY DEF LoadDropped, Wants
<1> QED
  BY <1>1 DEF LockDropped, LoadDropped, Ready, Waits

\* What they do to the session that takes them.
LEMMA LockDroppedStep ==
  ASSUME Typed, NEW s \in Sessions, LockDropped(s) \/ LoadDropped(s)
  PROVE  \/ End(s)
         \/ \E r \in Tx : /\ Put(s, r) /\ Coherent(r)
                          /\ r.at \in {"drop.rest", "drop.goods", "drop.promos"}
                          /\ r.req = tx[s].req /\ r.got = tx[s].got /\ r.uses = tx[s].uses
                          /\ r.total = tx[s].total
                          /\ r.rows = tx[s].rows \cup Wants(s)
<1> SUFFICES ASSUME ~ End(s)
    PROVE  \E r \in Tx : /\ Put(s, r) /\ Coherent(r)
                         /\ r.at \in {"drop.rest", "drop.goods", "drop.promos"}
                         /\ r.req = tx[s].req /\ r.got = tx[s].got /\ r.uses = tx[s].uses
                         /\ r.total = tx[s].total
                         /\ r.rows = tx[s].rows \cup Wants(s)
  OBVIOUS
<1> DEFINE p == CASE tx[s].at = "drop.values" -> "drop.rest"
                  [] tx[s].at = "drop.rest" -> "drop.goods"
                  [] OTHER -> "drop.promos"
           r == [Locked(s) EXCEPT !.at = p]
<1>0. tx[s] \in Tx /\ Coherent(tx[s])
  BY DEF Typed, TypeOK
<1>1. /\ Put(s, r) /\ tx[s].at \in {"drop.values", "drop.rest", "drop.goods"}
      /\ Locked(s) \in Tx
  <2>1. CASE LockDropped(s)
    BY <2>1, LockedTyped DEF LockDropped, Typed
  <2>2. CASE LoadDropped(s)
    <3>1. tx[s].at = "drop.rest" /\ Put(s, [tx[s] EXCEPT !.at = "drop.goods"])
      BY <2>2 DEF LoadDropped
    <3>2. Wants(s) = {}
      BY <3>1 DEF Wants
    <3>3. Locked(s) = tx[s]
      BY <1>0, <3>2 DEF Locked, Tx
    <3> QED
      BY <1>0, <3>1, <3>3
  <2> QED
    BY <2>1, <2>2
<1>2. p \in {"drop.rest", "drop.goods", "drop.promos"}
  BY <1>1
<1> HIDE DEF p
<1>3. /\ r \in Tx /\ r.at = p /\ r.req = tx[s].req /\ r.got = tx[s].got /\ r.uses = tx[s].uses
      /\ r.total = tx[s].total
      /\ r.rows = tx[s].rows \cup Wants(s)
  BY <1>1, <1>2, LockedTyped DEF Tx, Places, Locked
<1> HIDE DEF r
<1>4. Coherent(r)
  BY <1>0, <1>1, <1>2, <1>3 DEF Coherent
<1> QED
  BY <1>1, <1>2, <1>3, <1>4

-----------------------------------------------------------------------------
(* The tables keep their type *)

\* The writes of a session keep the types.
LEMMA WriteTyped ==
  ASSUME Typed, NEW s \in Sessions, tx[s].at \notin {"idle", "done"},
         NEW a \in Int, NEW P \in SUBSET Promos, Write(s, a, P)
  PROVE  /\ balance' \in [Users -> Int] /\ ledger' \in [Users -> Int]
         /\ promo' \in [Promos -> PromoRow] /\ used' \subseteq Promos \X Users
<1>1. tx[s] \in Tx /\ User(s) \in Users
  BY SessionFacts DEF Typed, TypeOK
<1>2. tx[s].bal + a \in Int /\ tx[s].uses \in [Promos -> Nat]
  BY <1>1 DEF Tx
<1>3. /\ balance \in [Users -> Int] /\ ledger \in [Users -> Int]
      /\ promo \in [Promos -> PromoRow] /\ used \subseteq Promos \X Users
  BY DEF Typed, TypeOK, TablesOK
<1>4. ledger[User(s)] + a \in Int
  BY <1>1, <1>3
<1>5. balance' \in [Users -> Int] /\ ledger' \in [Users -> Int]
  BY <1>1, <1>2, <1>3, <1>4 DEF Write
<1>6. promo' \in [Promos -> PromoRow]
  <2>1. \A p \in Promos : [promo[p] EXCEPT !.uses = tx[s].uses[p] + 1] \in PromoRow
    BY <1>2, <1>3 DEF PromoRow
  <2> QED
    BY <1>3, <2>1 DEF Write
<1>7. used' \subseteq Promos \X Users
  BY <1>1, <1>3 DEF Write
<1> QED
  BY <1>5, <1>6, <1>7

\* Selling picked values keeps the types.
LEMMA SellTyped ==
  ASSUME Typed, NEW s \in Sessions, tx[s].at \notin {"idle", "done"}, Sell(s)
  PROVE  /\ balance' \in [Users -> Int] /\ ledger' \in [Users -> Int]
         /\ promo' \in [Promos -> PromoRow] /\ used' \subseteq Promos \X Users
         /\ sold' \subseteq Sale /\ stock' \subseteq stock
<1>1. tx[s].got \subseteq Purchase /\ tx[s].total \in Nat /\ User(s) \in Users
  BY SessionFacts DEF Typed, TypeOK, Tx
<1>2. Codes(s) \in SUBSET Promos
  BY <1>1 DEF Codes, Purchase
<1>3. 0 - tx[s].total \in Int
  BY <1>1
<1>4. sold' \subseteq Sale
  <2>1. \A g \in tx[s].got :
          [by |-> s, buyer |-> User(s), value |-> g.value,
           price |-> g.price, promo |-> g.promo] \in Sale
    BY <1>1 DEF Purchase, Sale
  <2>2. sold \subseteq Sale
    BY DEF Typed, TypeOK, TablesOK
  <2>3. sold' = sold \cup {[by |-> s, buyer |-> User(s), value |-> g.value,
                   price |-> g.price, promo |-> g.promo] : g \in tx[s].got}
    BY DEF Sell
  <2> QED
    BY <2>1, <2>2, <2>3
<1>5. Write(s, 0 - tx[s].total, Codes(s)) /\ stock' \subseteq stock
  BY DEF Sell
<1> QED
  BY <1>2, <1>3, <1>4, <1>5, WriteTyped

\* The steps of one session.
LEMMA StepTyped ==
  ASSUME Typed, NEW s \in Sessions, Step(s)
  PROVE  /\ TablesOK' /\ tx' \in [Sessions -> Tx] /\ faults' = faults
         /\ \A t \in Sessions : Coherent(tx'[t])
<1> USE DEF Typed, TypeOK
<1> DEFINE Moved == tx' \in [Sessions -> Tx] /\ \A t \in Sessions : Coherent(tx'[t])
<1>1. UNCHANGED db => TablesOK'
  BY DEF TablesOK, db, goodsVars, promoVars
<1> HIDE DEF Typed, TypeOK
<1>2. CASE LockUser(s)
  BY <1>1, <1>2, LockUserStep, PutTyped, EndTyped DEF LockUser
<1>3. CASE NextLine(s)
  BY <1>1, <1>3, NextLineStep, PutTyped DEF NextLine
<1>4. ASSUME tx[s].at \in {"goods", "values"}, Unavailable(s) PROVE Moved
  BY <1>4, UnavailableStep, PutTyped, EndTyped
<1>5. CASE LockGoods(s)
  <2>1. tx[s].at = "goods" /\ UNCHANGED <<db, faults>>
    BY <1>5 DEF LockGoods
  <2> QED
    BY <1>1, <1>4, <1>5, <2>1, LockGoodsStep, PutTyped, EndTyped
<1>6. CASE LockValues(s)
  <2>1. tx[s].at = "values" /\ UNCHANGED <<db, faults>>
    BY <1>6 DEF LockValues
  <2> QED
    BY <1>1, <1>4, <1>6, <2>1, LockValuesStep, PutTyped
<1>7. CASE LockPromo(s)
  <2>1. UNCHANGED <<db, faults>>
    BY <1>7 DEF LockPromo
  <2> QED
    BY <1>1, <1>7, <2>1, LockPromoStep, PutTyped, EndTyped
<1>8. CASE CommitBuy(s)
  BY <1>8, SellTyped, EndTyped DEF CommitBuy, TablesOK, Typed, TypeOK
<1>9. CASE CommitCheckout(s)
  <2>1. cart' \subseteq cart
    BY <1>9 DEF CommitCheckout
  <2> QED
    BY <1>9, <2>1, SellTyped, EndTyped DEF CommitCheckout, TablesOK, Typed, TypeOK
<1>10. CASE CommitEmpty(s)
  BY <1>10, EndTyped DEF CommitEmpty, TablesOK, Typed, TypeOK, goodsVars, promoVars
<1>11. CASE RefuseCheckout(s)
  BY <1>1, <1>11, EndTyped DEF RefuseCheckout, Rollback
<1>12. CASE CommitPromo(s)
  <2> DEFINE a == IF Kind(s) = "redeem" THEN Worth[Code(s)] ELSE Bonus(tx[s].bal, Code(s))
  <2>1. tx[s].at = "pay" /\ Kind(s) \in {"redeem", "input"} /\ End(s)
        /\ Write(s, a, {Code(s)})
    BY <1>12 DEF CommitPromo
  <2>2. Coherent(tx[s]) /\ tx[s].bal \in Int
    BY DEF Typed, TypeOK, Tx
  <2>3. Code(s) \in Promos
    BY <2>1, <2>2 DEF Coherent, Kind, Code
  <2>4. a \in Int
    BY <2>2, <2>3, BonusInt, PromoAssumption
  <2> HIDE DEF a
  <2>5. /\ balance' \in [Users -> Int] /\ ledger' \in [Users -> Int]
        /\ promo' \in [Promos -> PromoRow] /\ used' \subseteq Promos \X Users
    BY <2>1, <2>3, <2>4, WriteTyped
  <2> QED
    BY <1>12, <2>1, <2>5, EndTyped DEF CommitPromo, TablesOK, Typed, TypeOK, goodsVars
<1>13. CASE CountLines(s)
  <2>1. UNCHANGED <<db, faults>>
    BY <1>13 DEF CountLines
  <2> QED
    BY <1>1, <1>13, <2>1, CountLinesStep, PutTyped, EndTyped
<1>14. CASE InsertLine(s)
  <2>1. tx[s].req \in Request /\ tx[s].req.kind = "add"
    BY <1>14, SessionFacts DEF InsertLine, Coherent, Typed
  <2>2. tx[s].req.line \in Lines
    BY <1>14, <2>1, SessionFacts, RequestsAssumption DEF InsertLine, Request
  <2> QED
    BY <1>14, <2>2, EndTyped DEF InsertLine, TablesOK, Typed, TypeOK, goodsVars, promoVars
<1>15. CASE LockDropped(s) \/ LoadDropped(s)
  <2>1. UNCHANGED <<db, faults>>
    BY <1>15, DroppedReady DEF db, goodsVars, promoVars
  <2> QED
    BY <1>1, <1>15, <2>1, LockDroppedStep, PutTyped, EndTyped
<1>16. CASE DropItem(s)
  <2>1. \A p \in Promos : [promo[p] EXCEPT !.item = Null] \in PromoRow
    BY DEF Typed, TypeOK, TablesOK, PromoRow
  <2>2. promo' \in [Promos -> PromoRow]
    BY <1>16, <2>1 DEF DropItem, Typed, TypeOK, TablesOK
  <2>3. listed' \subseteq listed /\ stock' \subseteq stock
    BY <1>16 DEF DropItem
  <2> QED
    BY <1>16, <2>2, <2>3, EndTyped DEF DropItem, TablesOK, Typed, TypeOK
<1> QED
  BY <1>2, <1>3, <1>5, <1>6, <1>7, <1>8, <1>9, <1>10, <1>11, <1>12, <1>13,
     <1>14, <1>15, <1>16 DEF Step

\* The administrator and the clock.
LEMMA AdminTyped ==
  ASSUME Typed, Admin
  PROVE  TablesOK' /\ tx' = tx /\ faults' = faults
<1> USE DEF TablesOK, goodsVars, promoVars
<1>0. TablesOK
  BY DEF Typed, TypeOK
<1>1. CASE \E u \in Users, a \in Amounts : AdminBalanceChange(u, a)
  <2>1. PICK u \in Users, a \in Amounts : AdminBalanceChange(u, a)
    BY <1>1
  <2>2. balance[u] + a \in Int /\ ledger[u] + a \in Int
    BY <1>0, MoneyAssumption
  <2>3. balance' \in [Users -> Int] /\ ledger' \in [Users -> Int]
    BY <1>0, <2>1, <2>2 DEF AdminBalanceChange
  <2> QED
    BY <1>0, <2>1, <2>3 DEF AdminBalanceChange
<1>2. CASE \E g \in Goods : UpdateItem(g)
  BY <1>0, <1>2, MoneyAssumption DEF UpdateItem
<1>3. CASE \E v \in Values : AddValue(v)
  BY <1>0, <1>3 DEF AddValue
<1>4. CASE DeleteValues
  BY <1>0, <1>4 DEF DeleteValues
<1>5. CASE RemoveLines
  <2>1. cart' \subseteq cart
    BY <1>5 DEF RemoveLines
  <2> QED
    BY <1>0, <1>5, <2>1 DEF RemoveLines
<1>6. CASE \E p \in Promos : TogglePromo(p)
  <2>1. \A p \in Promos, b \in BOOLEAN : [promo[p] EXCEPT !.active = b] \in PromoRow
    BY <1>0 DEF PromoRow
  <2>2. PICK p \in Promos : TogglePromo(p)
    BY <1>6
  <2>3. (~ promo[p].active) \in BOOLEAN
    <3>1. ASSUME NEW b PROVE (~ b) \in BOOLEAN
      BY SMT
    <3> QED
      BY <3>1
  <2>4. promo' = [promo EXCEPT ![p] = [promo[p] EXCEPT !.active = ~ promo[p].active]]
    BY <1>0, <2>2 DEF TogglePromo
  <2>5. promo' \in [Promos -> PromoRow]
    <3>1. [promo[p] EXCEPT !.active = ~ promo[p].active] \in PromoRow
      BY <2>1, <2>3
    <3> QED
      BY <1>0, <2>4, <3>1
  <2> QED
    BY <1>0, <2>2, <2>5 DEF TogglePromo
<1>7. CASE \E p \in Promos : DeletePromo(p)
  <2>1. PICK p \in Promos : DeletePromo(p)
    BY <1>7
  <2>2. [promo[p] EXCEPT !.row = FALSE] \in PromoRow
    BY <1>0 DEF PromoRow
  <2>3. promo' \in [Promos -> PromoRow] /\ used' \subseteq used
    <3>1. promo' = [promo EXCEPT ![p] = [promo[p] EXCEPT !.row = FALSE]]
      BY <2>1 DEF DeletePromo
    <3> QED
      BY <1>0, <2>1, <2>2, <3>1 DEF DeletePromo
  <2> QED
    BY <1>0, <2>1, <2>3 DEF DeletePromo
<1>8. CASE \E p \in Promos : Expire(p)
  BY <1>0, <1>8 DEF Expire
<1> QED
  BY <1>1, <1>2, <1>3, <1>4, <1>5, <1>6, <1>7, <1>8 DEF Admin

\* The shop starts with the types.
LEMMA InitTyped == Init => Typed
<1> SUFFICES ASSUME Init PROVE Typed
  OBVIOUS
<1>1. TablesOK
  <2>1. promo \in [Promos -> PromoRow]
    BY PromoAssumption DEF Init, PromoRow
  <2>2. price \in [Goods -> Nat]
    BY MoneyAssumption DEF Init
  <2>3. balance \in [Users -> Int] /\ ledger \in [Users -> Int]
    BY MoneyAssumption DEF Init
  <2> QED
    BY <2>1, <2>2, <2>3, StockAssumption, CartAssumption DEF Init, TablesOK
<1>2. tx \in [Sessions -> Tx] /\ \A s \in Sessions : Coherent(tx[s])
  BY FreshTyped DEF Init
<1>3. faults \in 0..MaxFaults /\ ops \in 0..MaxOps
  BY MoneyAssumption DEF Init
<1> QED
  BY <1>1, <1>2, <1>3 DEF Typed, TypeOK

\* Every step keeps the types.
LEMMA NextTyped == Typed /\ [Next]_vars => Typed'
<1> SUFFICES ASSUME Typed, [Next]_vars PROVE Typed'
  OBVIOUS
<1>0. faults \in 0..MaxFaults /\ ops \in 0..MaxOps /\ TablesOK
  BY DEF Typed, TypeOK
<1>1. UNCHANGED db => TablesOK'
  BY <1>0 DEF TablesOK, db, goodsVars, promoVars
<1>2. ASSUME NEW s \in Sessions, Step(s), UNCHANGED ops PROVE Typed'
  BY <1>0, <1>2, StepTyped DEF Typed, TypeOK
<1>3. ASSUME NEW s \in Sessions, Victim(s), UNCHANGED ops PROVE Typed'
  BY <1>0, <1>1, <1>3, EndTyped DEF Victim, Rollback, Typed, TypeOK
<1>4. ASSUME NEW s \in Sessions, Fail(s), UNCHANGED ops PROVE Typed'
  <2>1. faults' \in 0..MaxFaults
    BY <1>0, <1>4, MoneyAssumption DEF Fail
  <2> QED
    BY <1>0, <1>1, <1>4, <2>1, EndTyped DEF Fail, Typed, TypeOK
<1>5. ASSUME NEW s \in Sessions, NEW q \in Requests, Begin(s, q), UNCHANGED ops
      PROVE  Typed'
  <2>1. UNCHANGED <<db, faults>>
    BY <1>5 DEF Begin
  <2> QED
    BY <1>0, <1>1, <1>5, <2>1, BeginTyped DEF Typed, TypeOK
<1>6. ASSUME Admin, ops < MaxOps, ops' = ops + 1 PROVE Typed'
  <2>1. ops' \in 0..MaxOps
    BY <1>0, <1>6, MoneyAssumption
  <2> QED
    BY <1>0, <1>6, <2>1, AdminTyped DEF Typed, TypeOK
<1>7. CASE UNCHANGED vars
  BY <1>0, <1>1, <1>7 DEF vars, Typed, TypeOK
<1> QED
  BY <1>2, <1>3, <1>4, <1>5, <1>6, <1>7 DEF Next

\* Tables and sessions keep their types, whatever the requests; a session
\* is where its kind of request can be.
THEOREM TypeCorrect == Spec => []TypeOK
<1>1. Typed => TypeOK
  BY DEF Typed
<1> QED
  BY <1>1, InitTyped, NextTyped, PTL DEF Spec

-----------------------------------------------------------------------------
(* Locks: why a balance read early may be written late *)

\* No row is held by two sessions.
Exclusive == \A s, t \in Sessions : s # t => tx[s].rows \cap tx[t].rows = {}

\* The session has read the balance of its user and has not ended.
Reading(r) == \/ r.at \in {"line", "goods", "values", "pay"}
              \/ r.at = "promo" /\ r.req.kind # "input"

\* It then holds the user's row, and what it read is still the balance.
Current(r) == Reading(r) => /\ r.req.user \in r.rows
                            /\ r.bal = balance[r.req.user]

\* What a purchase has compared with the balance it read.
Covered(r) ==
  r.req.kind = "buy" =>
    /\ r.at \in {"user", "goods", "promo", "values"} => r.total = 0
    /\ r.at = "values" => r.cost <= r.bal
    /\ r.at = "pay" => r.total <= r.bal

MoneyInv == /\ Exclusive /\ NoLostUpdate /\ NoOverdraft
            /\ \A s \in Sessions : Current(tx[s]) /\ Covered(tx[s])

\* A session without an operation owes nothing.
LEMMA FreshMoney ==
  ASSUME NEW at \in {"idle", "done"}
  PROVE  /\ Fresh(at).rows = {} /\ Fresh(at).at = at
         /\ Current(Fresh(at)) /\ Covered(Fresh(at))
<1>1. /\ Fresh(at).at = at /\ Fresh(at).rows = {}
      /\ Fresh(at).total = 0 /\ Fresh(at).cost = 0 /\ Fresh(at).bal = 0
  BY DEF Fresh
<1> QED
  BY <1>1 DEF Current, Reading, Covered

\* A session that locks rows nobody else holds keeps all locks exclusive.
LEMMA PutExclusive ==
  ASSUME Typed, Exclusive, NEW s \in Sessions, NEW r \in Tx, Put(s, r),
         \/ r.rows \subseteq tx[s].rows
         \/ r.rows = tx[s].rows \cup Wants(s) /\ Ready(s)
  PROVE  Exclusive'
<1>1. tx' = [tx EXCEPT ![s] = r] /\ tx \in [Sessions -> Tx]
  BY DEF Put, Typed, TypeOK
<1>2. \A t \in Sessions : t # s => r.rows \cap tx[t].rows = {}
  <2>1. CASE r.rows \subseteq tx[s].rows
    BY <2>1 DEF Exclusive
  <2>2. CASE r.rows = tx[s].rows \cup Wants(s) /\ Ready(s)
    BY <2>2 DEF Exclusive, Ready, Waits
  <2> QED
    BY <2>1, <2>2
<1> QED
  BY <1>1, <1>2 DEF Exclusive

\* A step that changes no balance.
LEMMA PutMoney ==
  ASSUME Typed, MoneyInv, NEW s \in Sessions, NEW r \in Tx, Put(s, r),
         \/ r.rows \subseteq tx[s].rows
         \/ r.rows = tx[s].rows \cup Wants(s) /\ Ready(s),
         UNCHANGED <<balance, ledger>>, Current(r), Covered(r)
  PROVE  MoneyInv'
<1>1. tx' = [tx EXCEPT ![s] = r] /\ tx \in [Sessions -> Tx]
  BY DEF Put, Typed, TypeOK
<1>2. Exclusive'
  BY PutExclusive DEF MoneyInv
<1>3. \A t \in Sessions : Current(tx'[t]) /\ Covered(tx'[t])
  BY <1>1 DEF MoneyInv
<1> QED
  BY <1>2, <1>3 DEF MoneyInv, Current, Covered, Reading, NoLostUpdate, NoOverdraft

\* A transaction that ends without writing a balance.
LEMMA EndMoney ==
  ASSUME Typed, MoneyInv, NEW s \in Sessions, End(s), UNCHANGED <<balance, ledger>>
  PROVE  MoneyInv'
<1>1. Put(s, Fresh("done")) /\ Fresh("done") \in Tx
  BY FreshTyped DEF End
<1>2. Fresh("done").rows \subseteq tx[s].rows
  BY FreshMoney
<1>3. Current(Fresh("done")) /\ Covered(Fresh("done"))
  BY FreshMoney
<1> QED
  BY <1>1, <1>2, <1>3, PutMoney

\* A transaction that writes the balance it has read, changed by an amount:
\* it holds the row, so nobody else has read this balance.
LEMMA WriteMoney ==
  ASSUME Typed, MoneyInv, NEW s \in Sessions, Reading(tx[s]), End(s),
         NEW a \in Int, NEW P, Write(s, a, P), tx[s].bal + a >= 0
  PROVE  MoneyInv'
<1> DEFINE u == User(s)
<1>1. Put(s, Fresh("done")) /\ Fresh("done") \in Tx
  BY FreshTyped DEF End
<1>2. tx' = [tx EXCEPT ![s] = Fresh("done")] /\ tx \in [Sessions -> Tx]
  BY <1>1 DEF Put, Typed, TypeOK
<1>3. Exclusive'
  BY <1>1, FreshMoney, PutExclusive DEF MoneyInv
<1>4. u \in tx[s].rows /\ tx[s].bal = balance[u] /\ u \in Users
  BY SessionFacts DEF MoneyInv, Current, User, Reading
<1>5. /\ balance \in [Users -> Int] /\ ledger \in [Users -> Int] /\ balance = ledger
      /\ \A v \in Users : balance[v] >= 0
  BY DEF Typed, TypeOK, TablesOK, MoneyInv, NoLostUpdate, NoOverdraft
<1>6. balance' = [balance EXCEPT ![u] = balance[u] + a]
  BY <1>4 DEF Write
<1>7. NoLostUpdate'
  <2>1. ledger' = [ledger EXCEPT ![u] = ledger[u] + a]
    BY DEF Write
  <2> QED
    BY <1>5, <1>6, <2>1 DEF NoLostUpdate
<1>8. NoOverdraft'
  BY <1>4, <1>5, <1>6 DEF NoOverdraft
<1>9. \A t \in Sessions : Current(tx[t])' /\ Covered(tx[t])'
  <2> SUFFICES ASSUME NEW t \in Sessions PROVE Current(tx[t])' /\ Covered(tx[t])'
    OBVIOUS
  <2>1. CASE t = s
    <3>1. tx'[t] = Fresh("done")
      BY <1>2, <2>1
    <3>2. Fresh("done").at = "done"
      BY DEF Fresh
    <3> QED
      BY <3>1, <3>2 DEF Current, Covered, Reading
  <2>2. CASE t # s
    <3>1. tx'[t] = tx[t] /\ Current(tx[t]) /\ Covered(tx[t])
      BY <1>2, <2>2 DEF MoneyInv
    <3>2. Reading(tx[t]) => tx[t].req.user # u
      BY <1>4, <2>2, <3>1 DEF MoneyInv, Exclusive, Current
    <3>3. Reading(tx[t]) => tx[t].req.user \in Users
      BY SessionFacts DEF Reading, User
    <3> QED
      BY <1>5, <1>6, <3>1, <3>2, <3>3 DEF Current, Covered, Reading
  <2> QED
    BY <2>1, <2>2
<1> QED
  BY <1>3, <1>7, <1>8, <1>9 DEF MoneyInv

\* Every step of a session keeps the money.
LEMMA StepMoney ==
  ASSUME Typed, MoneyInv, NEW s \in Sessions, Step(s)
  PROVE  MoneyInv'
<1>0. /\ tx[s] \in Tx /\ Coherent(tx[s]) /\ Current(tx[s]) /\ Covered(tx[s])
      /\ \A u \in Users : balance[u] \in Nat
  BY DEF Typed, TypeOK, TablesOK, MoneyInv, NoOverdraft
<1>1. CASE LockUser(s)
  <2>1. tx[s].at = "user" /\ Ready(s) /\ UNCHANGED <<balance, ledger>>
    BY <1>1 DEF LockUser, db
  <2>2. Wants(s) = {User(s)}
    BY <2>1 DEF Wants
  <2>3. CASE End(s)
    BY <2>1, <2>3, EndMoney
  <2>4. ASSUME NEW r \in Tx, Put(s, r), r.req = tx[s].req,
               r.at \in {"line", "goods", "promo", "pay"},
               r.at = "pay" => r.req.kind = "input",
               r.rows = tx[s].rows \cup {User(s)}, r.bal = balance[User(s)],
               r.total = tx[s].total
        PROVE  MoneyInv'
    <3>1. Current(r)
      BY <2>4 DEF Current, User
    <3>2. Covered(r)
      BY <1>0, <2>1, <2>4 DEF Covered
    <3> QED
      BY <2>1, <2>2, <2>4, <3>1, <3>2, PutMoney
  <2> QED
    BY <1>1, <2>3, <2>4, LockUserStep
<1>2. CASE NextLine(s)
  <2>1. tx[s].at = "line" /\ UNCHANGED <<balance, ledger>>
    BY <1>2 DEF NextLine, db
  <2>2. PICK r \in Tx : /\ Put(s, r) /\ r.req = tx[s].req /\ r.req.kind = "checkout"
                        /\ r.rows = tx[s].rows /\ r.bal = tx[s].bal
    BY <1>2, NextLineStep
  <2>3. Current(r) /\ Covered(r)
    BY <1>0, <2>1, <2>2 DEF Current, Covered, Reading
  <2> QED
    BY <2>1, <2>2, <2>3, PutMoney
<1>3. ASSUME tx[s].at \in {"goods", "values"}, Unavailable(s), UNCHANGED <<balance, ledger>>
      PROVE  MoneyInv'
  <2>1. CASE End(s)
    BY <1>3, <2>1, EndMoney
  <2>2. ASSUME NEW r \in Tx, Put(s, r), r.at = "line", r.req = tx[s].req,
               r.req.kind = "checkout", r.rows = tx[s].rows, r.bal = tx[s].bal
        PROVE  MoneyInv'
    <3>1. Current(r) /\ Covered(r)
      BY <1>0, <1>3, <2>2 DEF Current, Covered, Reading
    <3> QED
      BY <1>3, <2>2, <3>1, PutMoney
  <2> QED
    BY <1>3, <2>1, <2>2, UnavailableStep
<1>4. CASE LockGoods(s)
  <2>1. tx[s].at = "goods" /\ Ready(s) /\ UNCHANGED <<balance, ledger>>
    BY <1>4 DEF LockGoods, db
  <2>2. CASE End(s)
    BY <2>1, <2>2, EndMoney
  <2>3. ASSUME NEW r \in Tx, Put(s, r), r.at \in {"promo", "values"}, r.req = tx[s].req,
               r.rows = tx[s].rows \cup Wants(s), r.bal = tx[s].bal,
               r.total = tx[s].total,
               r.at = "values" /\ r.req.kind = "buy" => r.cost <= r.bal
        PROVE  MoneyInv'
    <3>1. Current(r) /\ Covered(r)
      BY <1>0, <2>1, <2>3 DEF Current, Covered, Reading
    <3> QED
      BY <2>1, <2>3, <3>1, PutMoney
  <2> QED
    BY <1>3, <1>4, <2>1, <2>2, <2>3, LockGoodsStep
<1>5. CASE LockValues(s)
  <2>1. /\ tx[s].at = "values" /\ Ready(s) /\ UNCHANGED <<balance, ledger>>
        /\ Wants(s) = Offer(s)
    BY <1>5 DEF LockValues, db, Wants
  <2>2. ASSUME NEW r \in Tx, Put(s, r), r.at \in {"pay", "promo", "line"},
               r.req = tx[s].req, r.rows = tx[s].rows \cup Offer(s), r.bal = tx[s].bal,
               r.at = "pay" <=> r.req.kind = "buy",
               r.at # "promo" => r.total = tx[s].total + tx[s].cost
        PROVE  MoneyInv'
    <3>1. Current(r)
      BY <1>0, <2>1, <2>2 DEF Current, Reading
    <3>2. Covered(r)
      <4>1. r.req.kind = "buy" => tx[s].total = 0 /\ tx[s].cost <= tx[s].bal /\ r.at = "pay"
        BY <1>0, <2>1, <2>2 DEF Covered
      <4>2. tx[s].cost \in Nat /\ tx[s].bal \in Int
        BY <1>0 DEF Tx
      <4> QED
        BY <2>2, <4>1, <4>2 DEF Covered
    <3> QED
      BY <2>1, <2>2, <3>1, <3>2, PutMoney
  <2> QED
    BY <1>3, <1>5, <2>1, <2>2, LockValuesStep
<1>6. CASE LockPromo(s)
  <2>1. tx[s].at = "promo" /\ Ready(s) /\ UNCHANGED <<balance, ledger>>
    BY <1>6 DEF LockPromo, db
  <2>2. CASE End(s)
    BY <2>1, <2>2, EndMoney
  <2>3. ASSUME NEW r \in Tx, Put(s, r), r.req = tx[s].req, r.bal = tx[s].bal,
               r.rows = tx[s].rows \cup Wants(s),
               \/ r.at = "pay" /\ r.req.kind = "redeem"
               \/ r.at = "user" /\ r.req.kind = "input"
               \/ r.at = "values" /\ r.req.kind = "buy" /\ r.cost <= r.bal
               \/ r.at = "line" /\ r.req.kind = "checkout",
               r.at # "line" => r.total = tx[s].total
        PROVE  MoneyInv'
    <3>1. Current(r)
      BY <1>0, <2>1, <2>3 DEF Current, Reading
    <3>2. Covered(r)
      BY <1>0, <2>1, <2>3 DEF Covered
    <3> QED
      BY <2>1, <2>3, <3>1, <3>2, PutMoney
  <2> QED
    BY <1>6, <2>2, <2>3, LockPromoStep
<1>7. ASSUME Sell(s), End(s), Reading(tx[s]), tx[s].total <= tx[s].bal PROVE MoneyInv'
  <2>1. tx[s].total \in Nat /\ tx[s].bal \in Int
    BY <1>0 DEF Tx
  <2>2. 0 - tx[s].total \in Int /\ tx[s].bal + (0 - tx[s].total) >= 0
    BY <1>7, <2>1
  <2>3. Write(s, 0 - tx[s].total, Codes(s))
    BY <1>7 DEF Sell
  <2> QED
    BY <1>7, <2>2, <2>3, WriteMoney
<1>8. CASE CommitBuy(s)
  BY <1>0, <1>7, <1>8 DEF CommitBuy, Covered, Kind, Reading
<1>9. CASE CommitCheckout(s)
  <2>1. tx[s].total \in Nat /\ tx[s].bal \in Int
    BY <1>0 DEF Tx
  <2> QED
    BY <1>7, <1>9, <2>1 DEF CommitCheckout, Broke, Reading
<1>10. CASE CommitEmpty(s)
  BY <1>10, EndMoney DEF CommitEmpty
<1>11. CASE RefuseCheckout(s)
  BY <1>11, EndMoney DEF RefuseCheckout, Rollback, db
<1>12. CASE CommitPromo(s)
  <2> DEFINE a == IF Kind(s) = "redeem" THEN Worth[Code(s)] ELSE Bonus(tx[s].bal, Code(s))
  <2>1. tx[s].at = "pay" /\ Kind(s) \in {"redeem", "input"} /\ End(s)
        /\ Write(s, a, {Code(s)})
    BY <1>12 DEF CommitPromo
  <2>2. Code(s) \in Promos
    BY <1>0, <2>1 DEF Coherent, Kind, Code
  <2>3. tx[s].bal \in Nat
    BY <1>0, <2>1, SessionFacts DEF Current, Reading, User
  <2>4. a \in Nat
    BY <2>2, <2>3, BonusNat, PromoAssumption
  <2> HIDE DEF a
  <2> QED
    BY <2>1, <2>3, <2>4, WriteMoney DEF Reading
<1>13. CASE CountLines(s)
  <2>1. UNCHANGED <<balance, ledger>>
    BY <1>13 DEF CountLines, db
  <2>2. CASE End(s)
    BY <2>1, <2>2, EndMoney
  <2>3. ASSUME NEW r \in Tx, Put(s, r), r.at = "insert", r.rows = tx[s].rows
        PROVE  MoneyInv'
    <3>1. Current(r) /\ Covered(r)
      BY <2>3 DEF Current, Covered, Reading
    <3> QED
      BY <2>1, <2>3, <3>1, PutMoney
  <2> QED
    BY <1>13, <2>2, <2>3, CountLinesStep
<1>14. CASE InsertLine(s)
  BY <1>14, EndMoney DEF InsertLine
<1>15. CASE LockDropped(s) \/ LoadDropped(s)
  <2>1. Ready(s) /\ UNCHANGED <<balance, ledger>>
    BY <1>15, DroppedReady DEF db
  <2>2. CASE End(s)
    BY <2>1, <2>2, EndMoney
  <2>3. ASSUME NEW r \in Tx, Put(s, r), r.at \in {"drop.rest", "drop.goods", "drop.promos"},
               r.rows = tx[s].rows \cup Wants(s)
        PROVE  MoneyInv'
    <3>1. Current(r) /\ Covered(r)
      BY <2>3 DEF Current, Covered, Reading
    <3> QED
      BY <2>1, <2>3, <3>1, PutMoney
  <2> QED
    BY <1>15, <2>2, <2>3, LockDroppedStep
<1>16. CASE DropItem(s)
  BY <1>16, EndMoney DEF DropItem
<1> QED
  BY <1>1, <1>2, <1>4, <1>5, <1>6, <1>8, <1>9, <1>10, <1>11, <1>12, <1>13,
     <1>14, <1>15, <1>16 DEF Step

\* The administrator changes a balance in one step, with its row free.
LEMMA AdminMoney ==
  ASSUME Typed, MoneyInv, Admin PROVE MoneyInv'
<1>0. tx' = tx
  BY AdminTyped
<1>1. ASSUME UNCHANGED <<balance, ledger>> PROVE MoneyInv'
  BY <1>0, <1>1 DEF MoneyInv, Exclusive, Current, Covered, Reading, NoLostUpdate,
     NoOverdraft
<1>2. ASSUME NEW u \in Users, NEW a \in Amounts, AdminBalanceChange(u, a)
      PROVE  MoneyInv'
  <2>1. a \in Int /\ balance[u] \in Int /\ balance[u] >= 0
    BY MoneyAssumption DEF Typed, TypeOK, TablesOK, MoneyInv, NoOverdraft
  <2>2. /\ balance' = [balance EXCEPT ![u] = balance[u] + a]
        /\ ledger' = [ledger EXCEPT ![u] = ledger[u] + a]
        /\ a < 0 => balance[u] >= 0 - a
        /\ \A s \in Sessions : u \notin tx[s].rows
    BY <1>2 DEF AdminBalanceChange, Held
  <2>3. balance[u] + a >= 0
    BY <2>1, <2>2
  <2>4. NoLostUpdate'
    BY <2>2 DEF MoneyInv, NoLostUpdate
  <2>5. NoOverdraft'
    BY <2>2, <2>3 DEF MoneyInv, NoOverdraft, Typed, TypeOK, TablesOK
  <2>6. ASSUME NEW s \in Sessions PROVE Current(tx[s])' /\ Covered(tx[s])'
    <3>1. Reading(tx[s]) => tx[s].req.user # u
      BY <2>2 DEF MoneyInv, Current
    <3> QED
      BY <1>0, <2>2, <3>1 DEF MoneyInv, Current, Covered, Reading, Typed, TypeOK, TablesOK
  <2> QED
    BY <1>0, <2>4, <2>5, <2>6 DEF MoneyInv, Exclusive
<1> QED
  <2>1. \/ UNCHANGED <<balance, ledger>>
        \/ \E u \in Users, a \in Amounts : AdminBalanceChange(u, a)
    BY DEF Admin, UpdateItem, AddValue, DeleteValues, RemoveLines, TogglePromo,
       DeletePromo, Expire
  <2> QED
    BY <1>1, <1>2, <2>1

\* The shop starts with the money.
LEMMA InitMoney == Init => MoneyInv
<1> SUFFICES ASSUME Init PROVE MoneyInv
  OBVIOUS
<1>1. \A s \in Sessions : tx[s] = Fresh("idle")
  BY DEF Init
<1>2. Exclusive /\ \A s \in Sessions : Current(tx[s]) /\ Covered(tx[s])
  BY <1>1, FreshMoney DEF Exclusive
<1>3. NoLostUpdate /\ NoOverdraft
  BY MoneyAssumption DEF Init, NoLostUpdate, NoOverdraft
<1> QED
  BY <1>2, <1>3 DEF MoneyInv

\* Every step keeps the money.
LEMMA NextMoney == Typed /\ MoneyInv /\ [Next]_vars => MoneyInv'
<1> SUFFICES ASSUME Typed, MoneyInv, [Next]_vars PROVE MoneyInv'
  OBVIOUS
<1>1. ASSUME NEW s \in Sessions, Step(s) PROVE MoneyInv'
  BY <1>1, StepMoney
<1>2. ASSUME NEW s \in Sessions, Victim(s) \/ Fail(s) PROVE MoneyInv'
  BY <1>2, EndMoney DEF Victim, Fail, Rollback, db
<1>3. ASSUME NEW s \in Sessions, NEW q \in Requests, Begin(s, q) PROVE MoneyInv'
  <2> DEFINE p == CASE q.kind \in {"checkout", "buy", "redeem"} -> "user"
                    [] q.kind = "input"  -> "promo"
                    [] q.kind = "add"    -> "count"
                    [] q.kind = "delete" -> "drop.values"
             r == [Fresh(p) EXCEPT !.req = q]
  <2>1. Put(s, r) /\ UNCHANGED <<balance, ledger>>
    BY <1>3 DEF Begin, db
  <2>2. r \in Tx
    BY <1>3, <2>1, BeginTyped DEF Put, Typed, TypeOK
  <2>3. q \in Request /\ q.kind \in Kinds
    BY RequestsAssumption DEF Request
  <2>4. CASE q.kind = "buy"
    <3>1. p = "user"
      BY <2>4
    <3>2. /\ r.at = "user" /\ r.rows = {} /\ r.total = 0
      BY <3>1 DEF Fresh
    <3>3. Current(r) /\ Covered(r)
      BY <3>2 DEF Current, Covered, Reading
    <3> QED
      BY <2>1, <2>2, <3>2, <3>3, PutMoney
  <2>5. CASE q.kind # "buy"
    <3>1. /\ q.kind \in {"checkout", "redeem"} => p = "user"
          /\ q.kind = "add" => p = "count"
          /\ q.kind = "delete" => p = "drop.values"
          /\ q.kind = "input" => p = "promo"
      <4>1. CASE q.kind \in {"checkout", "redeem"}
        BY <4>1
      <4>2. CASE q.kind = "add"
        BY <4>2
      <4>3. CASE q.kind = "delete"
        BY <4>3
      <4>4. CASE q.kind = "input"
        BY <4>4
      <4> QED
        BY <4>1, <4>2, <4>3, <4>4, <2>3, <2>5 DEF Kinds
    <3> HIDE DEF p
    <3>2. r.at = p /\ r.rows = {} /\ r.req = q
      BY DEF Fresh
    <3> HIDE DEF r
    <3>3. Current(r) /\ Covered(r)
      BY <2>3, <2>5, <3>1, <3>2 DEF Current, Covered, Reading, Kinds
    <3> QED
      BY <2>1, <2>2, <3>2, <3>3, PutMoney
  <2> QED
    BY <2>4, <2>5
<1>4. ASSUME Admin PROVE MoneyInv'
  BY <1>4, AdminMoney
<1>5. CASE UNCHANGED vars
  BY <1>5 DEF vars, db, MoneyInv, Exclusive, Current, Covered, Reading, NoLostUpdate,
     NoOverdraft
<1> QED
  BY <1>1, <1>2, <1>3, <1>4, <1>5 DEF Next

\* What a transaction writes to a balance is computed from the balance of the
\* moment of the write: no mixture of transactions loses an update.
THEOREM UpdatesKept == Spec => []NoLostUpdate
<1>1. MoneyInv => NoLostUpdate
  BY DEF MoneyInv
<1> QED
  BY <1>1, InitTyped, NextTyped, InitMoney, NextMoney, PTL DEF Spec

\* No mixture of purchases, checkouts, codes and deductions overdraws a
\* balance, although each compares with a balance read many steps before.
THEOREM NeverOverdrawn == Spec => []NoOverdraft
<1>1. MoneyInv => NoOverdraft
  BY DEF MoneyInv
<1> QED
  BY <1>1, InitTyped, NextTyped, InitMoney, NextMoney, PTL DEF Spec

-----------------------------------------------------------------------------
(* Stock: what a session has picked stays in stock until it ends *)

Picked(r) ==
  /\ \A g \in r.got : g.value \in stock \cap r.rows
  /\ \A g, h \in r.got : g.value = h.value => g = h
  /\ r.req.kind = "checkout" /\ r.at = "promo" =>
       r.value \in stock \cap r.rows /\ \A g \in r.got : g.value # r.value
  /\ r.req.kind = "delete" => r.got = {}

Gone == \A x \in sold : x.value \notin Infinite => x.value \notin stock \cup fresh
Single == \A x, y \in sold : x.value \notin Infinite /\ x.value = y.value => x = y

StockInv == /\ Exclusive /\ stock \cap fresh = {} /\ Gone /\ Single
            /\ \A s \in Sessions : Picked(tx[s])

\* A session without an operation has picked nothing.
LEMMA FreshPicked ==
  ASSUME NEW at \in {"idle", "done"}
  PROVE  Picked(Fresh(at)) /\ Fresh(at).rows = {}
<1>1. Fresh(at).got = {} /\ Fresh(at).at = at /\ Fresh(at).rows = {}
  BY DEF Fresh
<1> QED
  BY <1>1 DEF Picked

\* A step that leaves stock and sales alone.
LEMMA PutStock ==
  ASSUME Typed, StockInv, NEW s \in Sessions, NEW r \in Tx, Put(s, r),
         \/ r.rows \subseteq tx[s].rows
         \/ r.rows = tx[s].rows \cup Wants(s) /\ Ready(s),
         UNCHANGED <<stock, fresh, sold>>, Picked(r)
  PROVE  StockInv'
<1>1. tx' = [tx EXCEPT ![s] = r] /\ tx \in [Sessions -> Tx]
  BY DEF Put, Typed, TypeOK
<1>2. Exclusive'
  BY PutExclusive DEF StockInv
<1>3. \A t \in Sessions : Picked(tx'[t])
  BY <1>1 DEF StockInv
<1> QED
  BY <1>2, <1>3 DEF StockInv, Gone, Single, Picked

\* A session ends and stock that no other session holds is taken away.
LEMMA EndStock ==
  ASSUME Typed, StockInv, NEW s \in Sessions, End(s), stock' \subseteq stock,
         \A t \in Sessions : t # s => (stock \ stock') \cap tx[t].rows = {},
         UNCHANGED fresh, Gone', Single'
  PROVE  StockInv'
<1>1. Put(s, Fresh("done")) /\ Fresh("done") \in Tx
  BY FreshTyped DEF End
<1>2. tx' = [tx EXCEPT ![s] = Fresh("done")] /\ tx \in [Sessions -> Tx]
  BY <1>1 DEF Put, Typed, TypeOK
<1>3. Exclusive'
  BY <1>1, FreshPicked, PutExclusive DEF StockInv
<1>4. ASSUME NEW t \in Sessions PROVE Picked(tx[t])'
  <2>1. CASE t = s
    <3>1. tx'[t] = Fresh("done") /\ Fresh("done").got = {} /\ Fresh("done").at = "done"
      BY <1>2, <2>1 DEF Fresh
    <3> QED
      BY <3>1 DEF Picked
  <2>2. CASE t # s
    <3>1. tx'[t] = tx[t] /\ Picked(tx[t])
      BY <1>2, <2>2 DEF StockInv
    <3>2. \A v \in stock \cap tx[t].rows : v \in stock'
      BY <2>2
    <3> QED
      BY <3>1, <3>2 DEF Picked
  <2> QED
    BY <2>1, <2>2
<1>5. (stock \cap fresh = {})'
  BY DEF StockInv
<1> QED
  BY <1>3, <1>4, <1>5 DEF StockInv

\* Selling picked values keeps the stock.
LEMMA SellStock ==
  ASSUME Typed, StockInv, NEW s \in Sessions, Sell(s), End(s), UNCHANGED fresh
  PROVE  StockInv'
<1> DEFINE sale(g) == [by |-> s, buyer |-> User(s), value |-> g.value,
                       price |-> g.price, promo |-> g.promo]
<1>1. /\ stock' = stock \ (Claimed(s) \ Infinite)
      /\ sold' = sold \cup {sale(g) : g \in tx[s].got}
  BY DEF Sell
<1>2. Claimed(s) \subseteq stock \cap tx[s].rows
  BY DEF StockInv, Picked, Claimed
<1>3. \A t \in Sessions : t # s => (stock \ stock') \cap tx[t].rows = {}
  BY <1>1, <1>2 DEF StockInv, Exclusive
<1>4. \A g \in tx[s].got : sale(g).value = g.value /\ g.value \in Claimed(s)
  BY DEF Claimed
<1>5. Gone'
  <2> SUFFICES ASSUME NEW x \in sold', x.value \notin Infinite
               PROVE  x.value \notin stock' \cup fresh
    BY DEF Gone
  <2>1. CASE x \in sold
    BY <1>1, <2>1 DEF StockInv, Gone
  <2>2. CASE \E g \in tx[s].got : x = sale(g)
    <3>1. x.value \in Claimed(s)
      BY <1>4, <2>2
    <3> QED
      BY <1>1, <1>2, <3>1 DEF StockInv
  <2> QED
    BY <1>1, <2>1, <2>2
<1>6. Single'
  <2> SUFFICES ASSUME NEW x \in sold', NEW y \in sold', x.value \notin Infinite,
                      x.value = y.value
               PROVE  x = y
    BY DEF Single
  <2>1. CASE x \in sold /\ y \in sold
    BY <2>1 DEF StockInv, Single
  <2>2. ASSUME NEW z \in sold, NEW g \in tx[s].got, z.value \notin Infinite,
               z.value = sale(g).value
        PROVE  FALSE
    BY <1>2, <1>4, <2>2 DEF StockInv, Gone
  <2>3. CASE \E g, h \in tx[s].got : x = sale(g) /\ y = sale(h)
    <3>1. PICK g \in tx[s].got, h \in tx[s].got : x = sale(g) /\ y = sale(h)
      BY <2>3
    <3>2. g.value = h.value
      BY <1>4, <3>1
    <3>3. g = h
      BY <3>2 DEF StockInv, Picked
    <3> QED
      BY <3>1, <3>3
  <2> QED
    BY <1>1, <2>1, <2>2, <2>3
<1> QED
  BY <1>1, <1>3, <1>5, <1>6, EndStock

\* The transaction ends with stock and sales as they were.
LEMMA IdleStock ==
  ASSUME Typed, StockInv, NEW s \in Sessions, End(s), UNCHANGED <<stock, fresh, sold>>
  PROVE  StockInv'
<1>1. Gone' /\ Single'
  BY DEF StockInv, Gone, Single
<1> QED
  BY <1>1, EndStock

\* Every step of a session keeps the stock.
LEMMA StepStock ==
  ASSUME Typed, StockInv, NEW s \in Sessions, Step(s)
  PROVE  StockInv'
<1>0. tx[s] \in Tx /\ Coherent(tx[s]) /\ Picked(tx[s])
  BY DEF Typed, TypeOK, StockInv
<1> USE DEF db, goodsVars
\* A record with the same purchases and no fewer rows.
<1>1. ASSUME NEW r \in Tx, r.got = tx[s].got, tx[s].rows \subseteq r.rows,
             r.req = tx[s].req, ~ (r.req.kind = "checkout" /\ r.at = "promo")
      PROVE  Picked(r)
  BY <1>0, <1>1 DEF Picked
<1>2. CASE LockUser(s)
  <2>1. tx[s].at = "user" /\ Ready(s) /\ UNCHANGED <<stock, fresh, sold>>
    BY <1>2 DEF LockUser
  <2>2. Wants(s) = {User(s)}
    BY <2>1 DEF Wants
  <2>3. ASSUME NEW r \in Tx, Put(s, r), r.req = tx[s].req, r.got = tx[s].got,
               r.at = "promo" => r.req.kind = "redeem",
               r.rows = tx[s].rows \cup {User(s)}
        PROVE  StockInv'
    <3>1. Picked(r)
      BY <1>1, <2>3
    <3> QED
      BY <2>1, <2>2, <2>3, <3>1, PutStock
  <2> QED
    BY <1>2, <2>1, <2>3, LockUserStep, IdleStock
<1>3. CASE NextLine(s)
  <2>1. UNCHANGED <<stock, fresh, sold>>
    BY <1>3 DEF NextLine
  <2>2. PICK r \in Tx : /\ Put(s, r) /\ r.at = "goods" /\ r.req = tx[s].req
                        /\ r.got = tx[s].got /\ r.rows = tx[s].rows
    BY <1>3, NextLineStep
  <2>3. Picked(r)
    BY <1>1, <2>2
  <2> QED
    BY <2>1, <2>2, <2>3, PutStock
<1>4. ASSUME tx[s].at \in {"goods", "values"}, Unavailable(s),
             UNCHANGED <<stock, fresh, sold>>
      PROVE  StockInv'
  <2>1. CASE End(s)
    BY <1>4, <2>1, IdleStock
  <2>2. ASSUME NEW r \in Tx, Put(s, r), r.at = "line", r.req = tx[s].req,
               r.got = tx[s].got, r.rows = tx[s].rows
        PROVE  StockInv'
    <3>1. Picked(r)
      BY <1>1, <2>2
    <3> QED
      BY <1>4, <2>2, <3>1, PutStock
  <2> QED
    BY <1>4, <2>1, <2>2, UnavailableStep
<1>5. CASE LockGoods(s)
  <2>1. tx[s].at = "goods" /\ Ready(s) /\ UNCHANGED <<stock, fresh, sold>>
    BY <1>5 DEF LockGoods
  <2>2. ASSUME NEW r \in Tx, Put(s, r), r.req = tx[s].req, r.got = tx[s].got,
               r.at = "promo" => r.req.kind = "buy", r.rows = tx[s].rows \cup Wants(s)
        PROVE  StockInv'
    <3>1. Picked(r)
      BY <1>1, <2>2
    <3> QED
      BY <2>1, <2>2, <3>1, PutStock
  <2> QED
    BY <1>4, <1>5, <2>1, <2>2, LockGoodsStep, IdleStock
<1>6. CASE LockValues(s)
  <2>1. /\ tx[s].at = "values" /\ Ready(s) /\ UNCHANGED <<stock, fresh, sold>>
        /\ Wants(s) = Offer(s)
    BY <1>6 DEF LockValues, Wants
  <2>2. ASSUME NEW r \in Tx, NEW v \in Offer(s), Put(s, r), r.req = tx[s].req,
               r.at \in {"pay", "promo", "line"}, r.req.kind \in {"buy", "checkout"},
               r.rows = tx[s].rows \cup Offer(s),
               r.at = "promo" => r.got = tx[s].got /\ r.value = v,
               r.at # "promo" =>
                 r.got = tx[s].got \cup {[line |-> r.line, value |-> v,
                        price |-> tx[s].cost,
                        promo |-> IF r.req.kind = "buy" THEN Code(s) ELSE Null]}
        PROVE  StockInv'
    <3>1. v \in stock \cap r.rows /\ \A g \in tx[s].got : g.value # v
      BY <2>2 DEF Offer, Claimed
    <3>2. Picked(r)
      <4>1. CASE r.at = "promo"
        BY <1>0, <2>2, <3>1, <4>1 DEF Picked
      <4>2. CASE r.at # "promo"
        <5> DEFINE n == [line |-> r.line, value |-> v, price |-> tx[s].cost,
                         promo |-> IF r.req.kind = "buy" THEN Code(s) ELSE Null]
        <5>1. n.value = v /\ r.got = tx[s].got \cup {n}
          BY <2>2, <4>2
        <5> HIDE DEF n
        <5> QED
          BY <1>0, <2>2, <3>1, <4>2, <5>1 DEF Picked
      <4> QED
        BY <4>1, <4>2
    <3> QED
      BY <2>1, <2>2, <3>2, PutStock
  <2> QED
    BY <1>4, <1>6, <2>1, <2>2, LockValuesStep
<1>7. CASE LockPromo(s)
  <2>1. tx[s].at = "promo" /\ Ready(s) /\ UNCHANGED <<stock, fresh, sold>>
    BY <1>7 DEF LockPromo
  <2>2. ASSUME NEW r \in Tx, Put(s, r), r.req = tx[s].req, r.at # "promo",
               r.rows = tx[s].rows \cup Wants(s),
               r.at = "line" => r.req.kind = "checkout",
               r.at # "line" => r.got = tx[s].got,
               r.at = "line" =>
                 r.got = tx[s].got \cup {[line |-> r.line, value |-> tx[s].value,
                        price |-> Reduced(tx[s].cost, Code(s)), promo |-> Code(s)]}
        PROVE  StockInv'
    <3>1. Picked(r)
      <4>1. CASE r.at # "line"
        BY <1>1, <2>2, <4>1
      <4>2. CASE r.at = "line"
        <5> DEFINE n == [line |-> r.line, value |-> tx[s].value,
                         price |-> Reduced(tx[s].cost, Code(s)), promo |-> Code(s)]
        <5>1. n.value = tx[s].value /\ r.got = tx[s].got \cup {n}
          BY <2>2, <4>2
        <5>2. tx[s].value \in stock \cap tx[s].rows
              /\ \A g \in tx[s].got : g.value # tx[s].value
          BY <1>0, <2>1, <2>2, <4>2 DEF Picked
        <5> HIDE DEF n
        <5> QED
          BY <1>0, <2>2, <4>2, <5>1, <5>2 DEF Picked
      <4> QED
        BY <4>1, <4>2
    <3> QED
      BY <2>1, <2>2, <3>1, PutStock
  <2> QED
    BY <1>7, <2>1, <2>2, LockPromoStep, IdleStock
<1>8. CASE CommitBuy(s)
  BY <1>8, SellStock DEF CommitBuy
<1>9. CASE CommitCheckout(s)
  BY <1>9, SellStock DEF CommitCheckout
<1>10. CASE CommitEmpty(s)
  BY <1>10, IdleStock DEF CommitEmpty
<1>11. CASE RefuseCheckout(s)
  BY <1>11, IdleStock DEF RefuseCheckout, Rollback
<1>12. CASE CommitPromo(s)
  BY <1>12, IdleStock DEF CommitPromo
<1>13. CASE CountLines(s)
  <2>1. UNCHANGED <<stock, fresh, sold>>
    BY <1>13 DEF CountLines
  <2>2. ASSUME NEW r \in Tx, Put(s, r), r.at = "insert", r.req = tx[s].req,
               r.got = tx[s].got, r.rows = tx[s].rows
        PROVE  StockInv'
    <3>1. Picked(r)
      BY <1>1, <2>2
    <3> QED
      BY <2>1, <2>2, <3>1, PutStock
  <2> QED
    BY <1>13, <2>1, <2>2, CountLinesStep, IdleStock
<1>14. CASE InsertLine(s)
  BY <1>14, IdleStock DEF InsertLine
<1>15. CASE LockDropped(s) \/ LoadDropped(s)
  <2>1. Ready(s) /\ UNCHANGED <<stock, fresh, sold>>
    BY <1>15, DroppedReady DEF db, goodsVars, promoVars
  <2>2. ASSUME NEW r \in Tx, Put(s, r), r.at \in {"drop.rest", "drop.goods", "drop.promos"},
               r.req = tx[s].req, r.got = tx[s].got, r.rows = tx[s].rows \cup Wants(s)
        PROVE  StockInv'
    <3>1. Picked(r)
      BY <1>1, <2>2
    <3> QED
      BY <2>1, <2>2, <3>1, PutStock
  <2> QED
    BY <1>15, <2>1, <2>2, LockDroppedStep, IdleStock
<1>16. CASE DropItem(s)
  <2>1. /\ tx[s].at = "drop.promos" /\ Ready(s) /\ End(s)
        /\ stock' = {v \in stock : ItemOf[v] # Item(s)} /\ UNCHANGED <<fresh, sold>>
    BY <1>16 DEF DropItem
  <2>2. tx[s].got = {}
    BY <1>0, <2>1 DEF Coherent, Picked
  <2>3. stock \ stock' \subseteq Offer(s)
    BY <2>1, <2>2 DEF Offer, Claimed
  <2>4. Offer(s) \subseteq Wants(s)
    BY <2>1 DEF Wants
  <2>5. \A t \in Sessions : t # s => (stock \ stock') \cap tx[t].rows = {}
    BY <2>1, <2>3, <2>4 DEF Ready, Waits
  <2>6. Gone' /\ Single'
    BY <2>1 DEF StockInv, Gone, Single
  <2> QED
    BY <2>1, <2>5, <2>6, EndStock
<1> QED
  BY <1>2, <1>3, <1>5, <1>6, <1>7, <1>8, <1>9, <1>10, <1>11, <1>12, <1>13,
     <1>14, <1>15, <1>16 DEF Step

\* The administrator removes stock no session holds, and what is new in
\* stock has not been sold.
LEMMA AdminStock ==
  ASSUME Typed, StockInv, Admin PROVE StockInv'
<1>0. tx' = tx
  BY AdminTyped
<1>1. ASSUME UNCHANGED <<stock, fresh, sold>> PROVE StockInv'
  BY <1>0, <1>1 DEF StockInv, Exclusive, Gone, Single, Picked
<1>2. ASSUME NEW v \in Values, AddValue(v) PROVE StockInv'
  <2>1. /\ v \in fresh /\ fresh' = fresh \ {v} /\ stock' = stock \cup {v} /\ sold' = sold
    BY <1>2 DEF AddValue
  <2> QED
    BY <1>0, <2>1 DEF StockInv, Exclusive, Gone, Single, Picked
<1>3. CASE DeleteValues
  <2>1. PICK V \in SUBSET stock : ~ Held(V) /\ stock' = stock \ V
    BY <1>3 DEF DeleteValues
  <2>2. fresh' = fresh /\ sold' = sold
    BY <1>3 DEF DeleteValues
  <2>3. \A s \in Sessions : V \cap tx[s].rows = {}
    BY <2>1 DEF Held
  <2>4. ASSUME NEW s \in Sessions PROVE Picked(tx[s])'
    <3>1. \A v \in stock \cap tx[s].rows : v \in stock'
      BY <2>1, <2>3
    <3> QED
      BY <1>0, <3>1 DEF StockInv, Picked
  <2>5. (stock \cap fresh = {})' /\ Gone' /\ Single'
    BY <2>1, <2>2 DEF StockInv, Gone, Single
  <2> QED
    BY <1>0, <2>4, <2>5 DEF StockInv, Exclusive
<1> QED
  <2>1. \/ UNCHANGED <<stock, fresh, sold>>
        \/ \E v \in Values : AddValue(v)
        \/ DeleteValues
    BY DEF Admin, AdminBalanceChange, UpdateItem, RemoveLines, TogglePromo,
       DeletePromo, Expire, goodsVars
  <2> QED
    BY <1>1, <1>2, <1>3, <2>1

\* The shop starts with the stock.
LEMMA InitStockInv == Init => StockInv
<1> SUFFICES ASSUME Init PROVE StockInv
  OBVIOUS
<1>1. \A s \in Sessions : tx[s] = Fresh("idle")
  BY DEF Init
<1>2. Exclusive /\ \A s \in Sessions : Picked(tx[s])
  BY <1>1, FreshPicked DEF Exclusive
<1>3. stock \cap fresh = {} /\ Gone /\ Single
  BY DEF Init, Gone, Single
<1> QED
  BY <1>2, <1>3 DEF StockInv

\* Every step keeps the stock.
LEMMA NextStock == Typed /\ StockInv /\ [Next]_vars => StockInv'
<1> SUFFICES ASSUME Typed, StockInv, [Next]_vars PROVE StockInv'
  OBVIOUS
<1>1. ASSUME NEW s \in Sessions, Step(s) PROVE StockInv'
  BY <1>1, StepStock
<1>2. ASSUME NEW s \in Sessions, Victim(s) \/ Fail(s) PROVE StockInv'
  BY <1>2, IdleStock DEF Victim, Fail, Rollback, db, goodsVars
<1>3. ASSUME NEW s \in Sessions, NEW q \in Requests, Begin(s, q) PROVE StockInv'
  <2> DEFINE p == CASE q.kind \in {"checkout", "buy", "redeem"} -> "user"
                    [] q.kind = "input"  -> "promo"
                    [] q.kind = "add"    -> "count"
                    [] q.kind = "delete" -> "drop.values"
             r == [Fresh(p) EXCEPT !.req = q]
  <2>1. Put(s, r) /\ UNCHANGED <<stock, fresh, sold>>
    BY <1>3 DEF Begin, db, goodsVars
  <2>2. r \in Tx
    BY <1>3, <2>1, BeginTyped DEF Put, Typed, TypeOK
  <2>3. q.kind = "checkout" => p = "user"
    OBVIOUS
  <2> HIDE DEF p
  <2>4. r.at = p /\ r.rows = {} /\ r.req = q /\ r.got = {}
    BY DEF Fresh
  <2> HIDE DEF r
  <2>5. Picked(r)
    BY <2>3, <2>4 DEF Picked
  <2> QED
    BY <2>1, <2>2, <2>4, <2>5, PutStock
<1>4. ASSUME Admin PROVE StockInv'
  BY <1>4, AdminStock
<1>5. CASE UNCHANGED vars
  BY <1>5 DEF vars, db, goodsVars, StockInv, Exclusive, Gone, Single, Picked
<1> QED
  BY <1>1, <1>2, <1>3, <1>4, <1>5 DEF Next

\* A stock row that is used up is sold once and has left the stock, however
\* purchases, checkouts and the administrator pick from the same rows.
THEOREM NeverSoldTwice == Spec => []SoldOnce
<1>1. StockInv => SoldOnce
  BY DEF StockInv, Gone, Single, SoldOnce
<1> QED
  BY <1>1, InitTyped, NextTyped, InitStockInv, NextStock, PTL DEF Spec

-----------------------------------------------------------------------------
(* Promo codes: why a counter written late still counts the usages           *)

Uses(p) == {x \in used : x[1] = p}

\* The codes whose usage the session will record if it commits.
Promised(r) ==
  ({g.promo : g \in r.got} \cup
     (IF \/ r.req.kind = "buy" /\ r.at \in {"values", "pay"}
         \/ r.req.kind = "redeem" /\ r.at = "pay"
         \/ r.req.kind = "input" /\ r.at \in {"user", "pay"}
        THEN {r.req.promo} ELSE {})) \ {Null}

\* It holds their rows, its count of each is the table's, and its user may
\* still use it.
Counting(r) ==
  \A p \in Promised(r) :
    /\ p \in Promos /\ p \in r.rows /\ promo[p].row
    /\ r.uses[p] = promo[p].uses /\ <<p, r.req.user>> \notin used
    /\ MaxUses[p] > 0 => promo[p].uses < MaxUses[p]

\* A purchase that is no checkout is of one item.
One(r) == r.req.kind = "buy" => /\ r.at # "pay" => r.got = {}
                                /\ \A g, h \in r.got : g = h

\* The counter agrees with the usages, and what was sold with a discount is a usage.
Tallied ==
  \A p \in Promos : promo[p].row =>
    /\ IsFiniteSet(Uses(p)) /\ promo[p].uses = Cardinality(Uses(p))
    /\ MaxUses[p] > 0 => promo[p].uses <= MaxUses[p]
    /\ \A x \in sold : x.promo = p => <<p, x.buyer>> \in used
    /\ \A x, y \in sold : x.promo = p /\ y.promo = p /\ x.buyer = y.buyer => x = y

PromoInv == /\ Exclusive /\ Tallied
            /\ \A s \in Sessions : Counting(tx[s]) /\ One(tx[s])

\* What the invariant sees of a code.
SameCode(p) == /\ promo'[p].row = promo[p].row /\ promo'[p].uses = promo[p].uses
               /\ \A u : <<p, u>> \in used' <=> <<p, u>> \in used

\* A session that does nothing promises nothing.
LEMMA FreshPromo ==
  ASSUME NEW at \in {"idle", "done"}
  PROVE  Counting(Fresh(at)) /\ One(Fresh(at)) /\ Fresh(at).rows = {}
<1>1. Fresh(at).got = {} /\ Fresh(at).at = at /\ Fresh(at).rows = {}
  BY DEF Fresh
<1>2. Promised(Fresh(at)) = {}
  BY <1>1 DEF Promised
<1> QED
  BY <1>1, <1>2 DEF Counting, One

\* A step that leaves codes, usages and sales alone.
LEMMA PutPromo ==
  ASSUME Typed, PromoInv, NEW s \in Sessions, NEW r \in Tx, Put(s, r),
         \/ r.rows \subseteq tx[s].rows
         \/ r.rows = tx[s].rows \cup Wants(s) /\ Ready(s),
         UNCHANGED <<promo, used, sold>>, Counting(r), One(r)
  PROVE  PromoInv'
<1>1. tx' = [tx EXCEPT ![s] = r] /\ tx \in [Sessions -> Tx]
  BY DEF Put, Typed, TypeOK
<1>2. Exclusive'
  BY PutExclusive DEF PromoInv
<1>3. \A t \in Sessions : Counting(tx'[t]) /\ One(tx'[t])
  BY <1>1 DEF PromoInv
<1>4. \A t \in Sessions : Counting(tx[t])' /\ One(tx[t])'
  BY <1>3 DEF Counting, Promised, One
<1>5. Tallied'
  BY DEF PromoInv, Tallied, Uses
<1> QED
  BY <1>2, <1>4, <1>5 DEF PromoInv

\* A session that goes on while the codes it holds stay as they are.
LEMMA OtherPromo ==
  ASSUME PromoInv, NEW t \in Sessions, tx'[t] = tx[t],
         \A p \in Promos \cap tx[t].rows : SameCode(p)
  PROVE  Counting(tx[t])' /\ One(tx[t])'
<1>1. Counting(tx[t]) /\ One(tx[t])
  BY DEF PromoInv
<1>2. Promised(tx[t])' = Promised(tx[t]) /\ One(tx[t])'
  BY <1>1 DEF Promised, One
<1>3. ASSUME NEW p \in Promised(tx[t])
      PROVE  /\ p \in Promos /\ p \in tx[t].rows /\ promo'[p].row
             /\ tx[t].uses[p] = promo'[p].uses /\ <<p, tx[t].req.user>> \notin used'
             /\ MaxUses[p] > 0 => promo'[p].uses < MaxUses[p]
  <2>1. p \in Promos \cap tx[t].rows
    BY <1>1 DEF Counting
  <2>2. SameCode(p)
    BY <2>1
  <2> QED
    BY <1>1, <2>1, <2>2 DEF Counting, SameCode
<1> QED
  BY <1>2, <1>3 DEF Counting

\* A session ends, and the codes the others hold stay as they are.
LEMMA EndPromo ==
  ASSUME Typed, PromoInv, NEW s \in Sessions, End(s),
         \A t \in Sessions : t # s => \A p \in Promos \cap tx[t].rows : SameCode(p),
         Tallied'
  PROVE  PromoInv'
<1>1. Put(s, Fresh("done")) /\ Fresh("done") \in Tx
  BY FreshTyped DEF End
<1>2. tx' = [tx EXCEPT ![s] = Fresh("done")] /\ tx \in [Sessions -> Tx]
  BY <1>1 DEF Put, Typed, TypeOK
<1>3. Exclusive'
  BY <1>1, FreshPromo, PutExclusive DEF PromoInv
<1>4. ASSUME NEW t \in Sessions PROVE Counting(tx[t])' /\ One(tx[t])'
  <2>1. CASE t = s
    <3>1. tx'[t] = Fresh("done") /\ Fresh("done").got = {} /\ Fresh("done").at = "done"
      BY <1>2, <2>1 DEF Fresh
    <3>2. Promised(tx[t])' = {}
      BY <3>1 DEF Promised
    <3> QED
      BY <3>1, <3>2 DEF Counting, One
  <2>2. CASE t # s
    BY <1>2, <2>2, OtherPromo
  <2> QED
    BY <2>1, <2>2
<1> QED
  BY <1>3, <1>4 DEF PromoInv

\* One more usage of a code is one more on its counter.
LEMMA OneMore ==
  ASSUME NEW p, NEW u, IsFiniteSet(Uses(p)), <<p, u>> \notin used
  PROVE  /\ IsFiniteSet(Uses(p) \cup {<<p, u>>})
         /\ Cardinality(Uses(p) \cup {<<p, u>>}) = Cardinality(Uses(p)) + 1
<1>1. <<p, u>> \notin Uses(p)
  BY DEF Uses
<1> QED
  BY <1>1, FS_AddElement

\* A commit records the usages the session had checked, and what it sells with a
\* discount is one purchase for each code.
LEMMA WritePromo ==
  ASSUME Typed, PromoInv, NEW s \in Sessions, tx[s].at \notin {"idle", "done"},
         NEW a, NEW codes \in SUBSET Promised(tx[s]),
         Write(s, a, codes), End(s), NEW New, sold' = sold \cup New,
         \A x \in New : /\ x.buyer = User(s)
                        /\ x.promo \in Promos => x.promo \in codes,
         \A x, y \in New : x.promo = y.promo /\ x.promo \in Promos => x = y
  PROVE  PromoInv'
<1>0. /\ promo' = [p \in Promos |-> IF p \in codes
                    THEN [promo[p] EXCEPT !.uses = tx[s].uses[p] + 1] ELSE promo[p]]
      /\ used' = used \cup (codes \X {User(s)})
  BY DEF Write
<1>1. promo \in [Promos -> PromoRow]
  BY DEF Typed, TypeOK, TablesOK
<1>2. \A p \in codes : /\ p \in Promos /\ p \in tx[s].rows /\ promo[p].row
                       /\ tx[s].uses[p] = promo[p].uses /\ <<p, User(s)>> \notin used
                       /\ MaxUses[p] > 0 => promo[p].uses < MaxUses[p]
  BY DEF PromoInv, Counting, User
<1>3. \A p \in Promos \ codes : promo'[p] = promo[p] /\ Uses(p)' = Uses(p)
  BY <1>0 DEF Uses
<1>4. ASSUME NEW p \in codes
      PROVE  /\ promo'[p].row /\ promo'[p].uses = promo[p].uses + 1
             /\ Uses(p)' = Uses(p) \cup {<<p, User(s)>>}
  <2>1. promo'[p] = [promo[p] EXCEPT !.uses = promo[p].uses + 1]
    BY <1>0, <1>2
  <2>2. promo[p] \in PromoRow /\ promo[p].row
    BY <1>1, <1>2
  <2>3. promo'[p].row /\ promo'[p].uses = promo[p].uses + 1
    BY <2>1, <2>2 DEF PromoRow
  <2>4. Uses(p)' = Uses(p) \cup {<<p, User(s)>>}
    BY <1>0 DEF Uses
  <2> QED
    BY <2>3, <2>4
<1>5. ASSUME NEW t \in Sessions, t # s, NEW p \in Promos \cap tx[t].rows
      PROVE  SameCode(p)
  <2>1. p \notin codes
    BY <1>2, <1>5 DEF PromoInv, Exclusive
  <2> QED
    BY <1>0, <1>3, <1>5, <2>1 DEF SameCode
<1>6. ASSUME NEW p \in Promos, promo'[p].row
      PROVE  /\ IsFiniteSet(Uses(p)') /\ promo'[p].uses = Cardinality(Uses(p)')
             /\ MaxUses[p] > 0 => promo'[p].uses <= MaxUses[p]
             /\ promo[p].row
  <2>1. CASE p \notin codes
    BY <1>3, <1>6, <2>1 DEF PromoInv, Tallied
  <2>2. CASE p \in codes
    <3>1. /\ IsFiniteSet(Uses(p)) /\ promo[p].uses = Cardinality(Uses(p))
          /\ <<p, User(s)>> \notin used /\ promo[p].row
      BY <1>2, <2>2 DEF PromoInv, Tallied
    <3>2. IsFiniteSet(Uses(p)') /\ promo'[p].uses = Cardinality(Uses(p)')
      BY <1>4, <2>2, <3>1, OneMore
    <3>3. MaxUses[p] \in Nat /\ promo[p].uses \in Nat
      BY <1>1, PromoAssumption DEF PromoRow
    <3>4. MaxUses[p] > 0 => promo'[p].uses <= MaxUses[p]
      <4> DEFINE n == promo[p].uses  m == promo'[p].uses  k == MaxUses[p]
      <4>1. /\ n \in Nat /\ k \in Nat /\ m = n + 1
            /\ k > 0 => n < k
        BY <1>2, <1>4, <2>2, <3>3
      <4> HIDE DEF n, m, k
      <4>2. k > 0 => m <= k
        BY <4>1
      <4> QED
        BY <4>2 DEF k, m
    <3> QED
      BY <3>1, <3>2, <3>4
  <2> QED
    BY <2>1, <2>2
<1>7. ASSUME NEW p \in Promos, promo'[p].row, NEW x \in sold', x.promo = p
      PROVE  <<p, x.buyer>> \in used'
  <2>1. CASE x \in sold
    BY <1>0, <1>6, <1>7, <2>1 DEF PromoInv, Tallied
  <2>2. CASE x \in New
    BY <1>0, <1>7, <2>2
  <2> QED
    BY <1>7, <2>1, <2>2
<1>8. ASSUME NEW p \in Promos, promo'[p].row, NEW x \in sold', NEW y \in sold',
             x.promo = p, y.promo = p, x.buyer = y.buyer
      PROVE  x = y
  <2>1. CASE x \in sold /\ y \in sold
    BY <1>6, <1>8, <2>1 DEF PromoInv, Tallied
  <2>2. ASSUME NEW z \in sold, NEW n \in New, z.promo = p, n.promo = p,
               z.buyer = n.buyer
        PROVE  FALSE
    <3>1. p \in codes /\ n.buyer = User(s)
      BY <2>2
    <3>2. <<p, z.buyer>> \in used
      BY <1>6, <1>8, <2>2 DEF PromoInv, Tallied
    <3> QED
      BY <1>2, <2>2, <3>1, <3>2
  <2>3. CASE x \in New /\ y \in New
    BY <1>8, <2>3
  <2> QED
    BY <1>8, <2>1, <2>2, <2>3
<1>9. Tallied'
  BY <1>6, <1>7, <1>8 DEF Tallied
<1> QED
  BY <1>5, <1>9, EndPromo

\* The commit of a purchase or a checkout.
LEMMA SellPromo ==
  ASSUME Typed, PromoInv, NEW s \in Sessions, tx[s].at \notin {"idle", "done"},
         Sell(s), End(s),
         \A g, h \in tx[s].got : g.promo = h.promo /\ g.promo # Null => g = h
  PROVE  PromoInv'
<1> DEFINE sale(g) == [by |-> s, buyer |-> User(s), value |-> g.value,
                       price |-> g.price, promo |-> g.promo]
           New == {sale(g) : g \in tx[s].got}
<1>1. Write(s, 0 - tx[s].total, Codes(s)) /\ sold' = sold \cup New
  BY DEF Sell
<1>2. Codes(s) \in SUBSET Promised(tx[s])
  BY DEF Codes, Promised
<1>3. \A g : sale(g).buyer = User(s) /\ sale(g).promo = g.promo
  OBVIOUS
<1>4. ASSUME NEW x \in New
      PROVE  x.buyer = User(s) /\ (x.promo \in Promos => x.promo \in Codes(s))
  <2>1. PICK g \in tx[s].got : x = sale(g)
    OBVIOUS
  <2>2. x.buyer = User(s) /\ x.promo = g.promo
    BY <1>3, <2>1
  <2> QED
    BY <2>2, RowsAssumption DEF Codes, Rows
<1>5. ASSUME NEW x \in New, NEW y \in New, x.promo = y.promo, x.promo \in Promos
      PROVE  x = y
  <2>1. PICK g \in tx[s].got, h \in tx[s].got : x = sale(g) /\ y = sale(h)
    OBVIOUS
  <2>2. g.promo = h.promo /\ g.promo \in Promos
    BY <1>3, <1>5, <2>1
  <2>3. g = h
    BY <2>2, RowsAssumption DEF Rows
  <2> QED
    BY <2>1, <2>3
<1> HIDE DEF New
<1> QED
  BY <1>1, <1>2, <1>4, <1>5, WritePromo

\* The transaction ends with codes, usages and sales as they were.
LEMMA IdlePromo ==
  ASSUME Typed, PromoInv, NEW s \in Sessions, End(s), UNCHANGED <<promo, used, sold>>
  PROVE  PromoInv'
<1>1. Tallied'
  BY DEF PromoInv, Tallied, Uses
<1>2. \A p : SameCode(p)
  BY DEF SameCode
<1> QED
  BY <1>1, <1>2, EndPromo

\* A record that promises nothing new.
LEMMA SamePromised ==
  ASSUME NEW s \in Sessions, Counting(tx[s]), NEW r, r.req = tx[s].req,
         r.uses = tx[s].uses, tx[s].rows \subseteq r.rows,
         Promised(r) \subseteq Promised(tx[s])
  PROVE  Counting(r)
BY DEF Counting

\* Every step of a session keeps the counters right.
LEMMA StepPromo ==
  ASSUME Typed, PromoInv, NEW s \in Sessions, Step(s)
  PROVE  PromoInv'
<1>0. /\ tx[s] \in Tx /\ Coherent(tx[s]) /\ Counting(tx[s]) /\ One(tx[s])
      /\ Kind(s) = tx[s].req.kind
  BY DEF Typed, TypeOK, PromoInv, Kind
<1> USE DEF db, goodsVars, promoVars
<1>1. ASSUME NEW r \in Tx, Put(s, r), r.req = tx[s].req, r.uses = tx[s].uses,
             r.got = tx[s].got, Promised(r) \subseteq Promised(tx[s]),
             tx[s].at # "pay", UNCHANGED <<promo, used, sold>>,
             \/ r.rows = tx[s].rows
             \/ r.rows = tx[s].rows \cup Wants(s) /\ Ready(s)
      PROVE  PromoInv'
  <2>1. Counting(r) /\ One(r)
    BY <1>0, <1>1, SamePromised DEF One
  <2> QED
    BY <1>1, <2>1, PutPromo
<1>2. CASE LockUser(s)
  <2>1. tx[s].at = "user" /\ Ready(s) /\ UNCHANGED <<promo, used, sold>>
    BY <1>2 DEF LockUser
  <2>2. Wants(s) = {User(s)}
    BY <2>1 DEF Wants
  <2>3. ASSUME NEW r \in Tx, Put(s, r), r.req = tx[s].req, r.got = tx[s].got,
               r.at \in {"line", "goods", "promo", "pay"},
               r.at = "pay" => r.req.kind = "input",
               r.uses = tx[s].uses, r.rows = tx[s].rows \cup {User(s)}
        PROVE  PromoInv'
    <3>1. Promised(r) \subseteq Promised(tx[s])
      BY <2>1, <2>3 DEF Promised
    <3> QED
      BY <1>1, <2>1, <2>2, <2>3, <3>1
  <2> QED
    BY <1>2, <2>1, <2>3, LockUserStep, IdlePromo
<1>3. CASE NextLine(s)
  <2>1. tx[s].at = "line" /\ UNCHANGED <<promo, used, sold>>
    BY <1>3 DEF NextLine
  <2>2. PICK r \in Tx : /\ Put(s, r) /\ r.at = "goods" /\ r.req = tx[s].req
                        /\ r.got = tx[s].got /\ r.rows = tx[s].rows
                        /\ r.uses = tx[s].uses
    BY <1>3, NextLineStep
  <2>3. Promised(r) \subseteq Promised(tx[s])
    BY <2>2 DEF Promised
  <2> QED
    BY <1>1, <2>1, <2>2, <2>3
<1>4. ASSUME tx[s].at \in {"goods", "values"}, Unavailable(s),
             UNCHANGED <<promo, used, sold>>
      PROVE  PromoInv'
  <2>1. CASE End(s)
    BY <1>4, <2>1, IdlePromo
  <2>2. ASSUME NEW r \in Tx, Put(s, r), r.at = "line", r.req = tx[s].req,
               r.got = tx[s].got, r.rows = tx[s].rows, r.uses = tx[s].uses
        PROVE  PromoInv'
    <3>1. Promised(r) \subseteq Promised(tx[s])
      BY <2>2 DEF Promised
    <3> QED
      BY <1>1, <1>4, <2>2, <3>1
  <2> QED
    BY <1>4, <2>1, <2>2, UnavailableStep
<1>5. CASE LockGoods(s)
  <2>1. tx[s].at = "goods" /\ Ready(s) /\ UNCHANGED <<promo, used, sold>>
    BY <1>5 DEF LockGoods
  <2>2. ASSUME NEW r \in Tx, Put(s, r), r.req = tx[s].req, r.got = tx[s].got,
               r.at \in {"promo", "values"}, r.req.kind \in {"buy", "checkout"},
               r.at = "values" /\ r.req.kind = "buy" => r.req.promo = Null,
               r.uses = tx[s].uses, r.rows = tx[s].rows \cup Wants(s)
        PROVE  PromoInv'
    <3>1. Promised(r) \subseteq Promised(tx[s])
      BY <2>2 DEF Promised
    <3> QED
      BY <1>1, <2>1, <2>2, <3>1
  <2> QED
    BY <1>4, <1>5, <2>1, <2>2, LockGoodsStep, IdlePromo
<1>6. CASE LockValues(s)
  <2>1. /\ tx[s].at = "values" /\ Ready(s) /\ UNCHANGED <<promo, used, sold>>
        /\ Wants(s) = Offer(s)
    BY <1>6 DEF LockValues, Wants
  <2>2. ASSUME NEW r \in Tx, NEW v, Put(s, r), r.req = tx[s].req,
               r.at \in {"pay", "promo", "line"}, r.req.kind \in {"buy", "checkout"},
               r.uses = tx[s].uses, r.rows = tx[s].rows \cup Offer(s),
               r.at = "pay" <=> r.req.kind = "buy",
               r.at = "promo" => r.got = tx[s].got,
               r.at # "promo" =>
                 r.got = tx[s].got \cup {[line |-> r.line, value |-> v,
                        price |-> tx[s].cost,
                        promo |-> IF r.req.kind = "buy" THEN Code(s) ELSE Null]}
        PROVE  PromoInv'
    <3> DEFINE n == [line |-> r.line, value |-> v, price |-> tx[s].cost,
                     promo |-> IF r.req.kind = "buy" THEN Code(s) ELSE Null]
    <3>1. CASE r.at = "promo"
      <4>1. Promised(r) \subseteq Promised(tx[s])
        BY <2>2, <3>1 DEF Promised
      <4> QED
        BY <1>1, <2>1, <2>2, <3>1, <4>1
    <3>2. CASE r.at = "pay"
      <4>1. Code(s) = r.req.promo /\ tx[s].got = {}
        BY <1>0, <2>1, <2>2, <3>2 DEF Code, One
      <4>2. n.promo = r.req.promo /\ r.got = {n}
        BY <2>2, <3>2, <4>1
      <4> HIDE DEF n
      <4>3. Promised(r) \subseteq Promised(tx[s])
        BY <2>1, <2>2, <3>2, <4>2 DEF Promised
      <4>4. Counting(r)
        BY <1>0, <2>2, <4>3, SamePromised
      <4>5. One(r)
        BY <3>2, <4>2 DEF One
      <4> QED
        BY <2>1, <2>2, <4>4, <4>5, PutPromo
    <3>3. CASE r.at = "line"
      <4>1. n.promo = Null /\ r.got = tx[s].got \cup {n} /\ r.req.kind = "checkout"
        BY <2>2, <3>3
      <4> HIDE DEF n
      <4>2. Promised(r) \subseteq Promised(tx[s])
        BY <2>2, <3>3, <4>1 DEF Promised
      <4>3. Counting(r)
        BY <1>0, <2>2, <4>2, SamePromised
      <4>4. One(r)
        BY <4>1 DEF One
      <4> QED
        BY <2>1, <2>2, <4>3, <4>4, PutPromo
    <3> QED
      BY <2>2, <3>1, <3>2, <3>3
  <2> QED
    BY <1>4, <1>6, <2>1, <2>2, LockValuesStep
<1>7. CASE LockPromo(s)
  <2>1. tx[s].at = "promo" /\ Ready(s) /\ UNCHANGED <<promo, used, sold>>
    BY <1>7 DEF LockPromo
  <2> DEFINE p == Code(s)
  <2>2. p \in Promos
    BY <1>0, <2>1, SessionFacts DEF Coherent
  <2>3. ASSUME NEW r \in Tx, Put(s, r), Valid(s, p), r.req = tx[s].req,
               r.rows = tx[s].rows \cup Wants(s),
               r.uses = [tx[s].uses EXCEPT ![p] = promo[p].uses],
               \/ r.at = "pay" /\ r.req.kind = "redeem"
               \/ r.at = "user" /\ r.req.kind = "input"
               \/ r.at = "values" /\ r.req.kind = "buy"
               \/ r.at = "line" /\ r.req.kind = "checkout",
               r.at # "line" => r.got = tx[s].got,
               r.at = "line" =>
                 r.got = tx[s].got \cup {[line |-> r.line, value |-> tx[s].value,
                        price |-> Reduced(tx[s].cost, p), promo |-> p]}
        PROVE  PromoInv'
    <3>1. Promised(r) \subseteq Promised(tx[s]) \cup {p}
      <4>1. CASE r.at # "line"
        <5>1. p = r.req.promo
          BY <1>0, <2>3, <4>1 DEF Code
        <5> QED
          BY <2>3, <4>1, <5>1 DEF Promised
      <4>2. CASE r.at = "line"
        <5> DEFINE n == [line |-> r.line, value |-> tx[s].value,
                         price |-> Reduced(tx[s].cost, p), promo |-> p]
        <5>1. n.promo = p /\ r.got = tx[s].got \cup {n} /\ r.req.kind = "checkout"
          BY <2>3, <4>2
        <5> HIDE DEF n
        <5> QED
          BY <4>2, <5>1 DEF Promised
      <4> QED
        BY <4>1, <4>2
    <3>2. /\ p \in Wants(s) /\ promo[p].row /\ <<p, r.req.user>> \notin used
          /\ MaxUses[p] > 0 => promo[p].uses < MaxUses[p]
      BY <2>1, <2>2, <2>3 DEF Valid, Wants, User
    <3>3. tx[s].uses \in [Promos -> Nat]
      BY <1>0 DEF Tx
    <3>4. \A q \in Promos : r.uses[q] = IF q = p THEN promo[p].uses ELSE tx[s].uses[q]
      BY <2>2, <2>3, <3>3
    <3> HIDE DEF p
    <3>5. Counting(r)
      BY <1>0, <2>2, <2>3, <3>1, <3>2, <3>4 DEF Counting
    <3>6. One(r)
      BY <1>0, <2>1, <2>3 DEF One
    <3> QED
      BY <2>1, <2>3, <3>5, <3>6, PutPromo
  <2> QED
    BY <1>7, <2>1, <2>3, LockPromoStep, IdlePromo
<1>8. CASE CommitBuy(s)
  BY <1>0, <1>8, SellPromo DEF CommitBuy, One
<1>9. CASE CommitCheckout(s)
  BY <1>9, SellPromo DEF CommitCheckout, Broke
<1>10. CASE CommitEmpty(s)
  BY <1>10, IdlePromo DEF CommitEmpty
<1>11. CASE RefuseCheckout(s)
  BY <1>11, IdlePromo DEF RefuseCheckout, Rollback
<1>12. CASE CommitPromo(s)
  <2>1. /\ tx[s].at = "pay" /\ Kind(s) \in {"redeem", "input"} /\ End(s) /\ sold' = sold
        /\ \E a : Write(s, a, {Code(s)})
    BY <1>12 DEF CommitPromo
  <2>2. Code(s) = tx[s].req.promo /\ Code(s) \in Promos
    BY <1>0, <2>1 DEF Code, Coherent
  <2>3. {Code(s)} \in SUBSET Promised(tx[s])
    BY <1>0, <2>1, <2>2, RowsAssumption DEF Promised, Rows
  <2>4. PICK a : Write(s, a, {Code(s)})
    BY <2>1
  <2> DEFINE New == {}
  <2>5. /\ sold' = sold \cup New
        /\ \A x \in New : x.buyer = User(s) /\ (x.promo \in Promos => x.promo \in {Code(s)})
        /\ \A x, y \in New : x.promo = y.promo /\ x.promo \in Promos => x = y
    BY <2>1
  <2> HIDE DEF New
  <2> QED
    BY <2>1, <2>3, <2>4, <2>5, WritePromo
<1>13. CASE CountLines(s)
  <2>1. tx[s].at = "count" /\ UNCHANGED <<promo, used, sold>>
    BY <1>13 DEF CountLines
  <2>2. ASSUME NEW r \in Tx, Put(s, r), r.at = "insert", r.req = tx[s].req,
               r.got = tx[s].got, r.rows = tx[s].rows, r.uses = tx[s].uses
        PROVE  PromoInv'
    <3>1. Promised(r) \subseteq Promised(tx[s])
      BY <2>2 DEF Promised
    <3> QED
      BY <1>1, <2>1, <2>2, <3>1
  <2> QED
    BY <1>13, <2>1, <2>2, CountLinesStep, IdlePromo
<1>14. CASE InsertLine(s)
  BY <1>14, IdlePromo DEF InsertLine
<1>15. CASE LockDropped(s) \/ LoadDropped(s)
  <2>1. /\ tx[s].at \in {"drop.values", "drop.rest", "drop.goods"}
        /\ Ready(s) /\ UNCHANGED <<promo, used, sold>>
    BY <1>15, DroppedReady DEF db, goodsVars, promoVars
  <2>2. ASSUME NEW r \in Tx, Put(s, r), r.at \in {"drop.rest", "drop.goods", "drop.promos"},
               r.req = tx[s].req, r.got = tx[s].got, r.uses = tx[s].uses,
               r.rows = tx[s].rows \cup Wants(s)
        PROVE  PromoInv'
    <3>1. Promised(r) \subseteq Promised(tx[s])
      BY <2>2 DEF Promised
    <3> QED
      BY <1>1, <2>1, <2>2, <3>1
  <2> QED
    BY <1>15, <2>1, <2>2, LockDroppedStep, IdlePromo
<1>16. CASE DropItem(s)
  <2>1. /\ End(s) /\ UNCHANGED <<used, sold>>
        /\ promo' = [p \in Promos |-> IF promo[p].item = Item(s)
                       THEN [promo[p] EXCEPT !.item = Null] ELSE promo[p]]
    BY <1>16 DEF DropItem
  <2>2. promo \in [Promos -> PromoRow]
    BY DEF Typed, TypeOK, TablesOK
  <2>3. \A p \in Promos : promo'[p].row = promo[p].row /\ promo'[p].uses = promo[p].uses
    BY <2>1, <2>2 DEF PromoRow
  <2>4. \A p \in Promos : SameCode(p)
    BY <2>1, <2>3 DEF SameCode
  <2>5. Tallied'
    BY <2>1, <2>3 DEF PromoInv, Tallied, Uses
  <2> QED
    BY <2>1, <2>4, <2>5, EndPromo
<1> QED
  BY <1>2, <1>3, <1>5, <1>6, <1>7, <1>8, <1>9, <1>10, <1>11, <1>12, <1>13,
     <1>14, <1>15, <1>16 DEF Step

\* The administrator waits for whoever holds a code, and a usage goes only with its code.
LEMMA AdminPromo ==
  ASSUME Typed, PromoInv, Admin PROVE PromoInv'
<1>0. tx' = tx /\ promo \in [Promos -> PromoRow]
  BY AdminTyped DEF Typed, TypeOK, TablesOK
<1>1. ASSUME Tallied', \A t \in Sessions : \A p \in Promos \cap tx[t].rows : SameCode(p)
      PROVE  PromoInv'
  <2>1. \A t \in Sessions : Counting(tx[t])' /\ One(tx[t])'
    BY <1>0, <1>1, OtherPromo
  <2> QED
    BY <1>0, <1>1, <2>1 DEF PromoInv, Exclusive
<1>2. ASSUME UNCHANGED <<promo, used, sold>> PROVE PromoInv'
  <2>1. Tallied'
    BY <1>2 DEF PromoInv, Tallied, Uses
  <2>2. \A p : SameCode(p)
    BY <1>2 DEF SameCode
  <2> QED
    BY <1>1, <2>1, <2>2
<1>3. ASSUME NEW q \in Promos, TogglePromo(q) PROVE PromoInv'
  <2>1. /\ promo' = [promo EXCEPT ![q] = [promo[q] EXCEPT !.active = ~ promo[q].active]]
        /\ UNCHANGED <<used, sold>>
    BY <1>0, <1>3 DEF TogglePromo
  <2>2. \A p \in Promos : promo'[p].row = promo[p].row /\ promo'[p].uses = promo[p].uses
    BY <1>0, <2>1 DEF PromoRow
  <2>3. \A p \in Promos : SameCode(p)
    BY <2>1, <2>2 DEF SameCode
  <2>4. Tallied'
    BY <2>1, <2>2 DEF PromoInv, Tallied, Uses
  <2> QED
    BY <1>1, <2>3, <2>4
<1>4. ASSUME NEW q \in Promos, DeletePromo(q) PROVE PromoInv'
  <2>1. /\ promo' = [promo EXCEPT ![q] = [promo[q] EXCEPT !.row = FALSE]]
        /\ used' = {x \in used : x[1] # q} /\ sold' = sold /\ ~ Held({q})
    BY <1>0, <1>4 DEF DeletePromo
  <2>2. ~ promo'[q].row /\ \A p \in Promos \ {q} : promo'[p] = promo[p]
    BY <1>0, <2>1 DEF PromoRow
  <2>3. \A p \in Promos \ {q} : /\ Uses(p)' = Uses(p)
                                /\ \A u : <<p, u>> \in used' <=> <<p, u>> \in used
    BY <2>1 DEF Uses
  <2>4. Tallied'
    <3> SUFFICES ASSUME NEW p \in Promos, promo'[p].row
        PROVE  /\ IsFiniteSet(Uses(p)') /\ promo'[p].uses = Cardinality(Uses(p)')
               /\ MaxUses[p] > 0 => promo'[p].uses <= MaxUses[p]
               /\ \A x \in sold : x.promo = p => <<p, x.buyer>> \in used'
               /\ \A x, y \in sold : x.promo = p /\ y.promo = p /\ x.buyer = y.buyer => x = y
      BY <2>1 DEF Tallied
    <3>1. p # q /\ promo'[p] = promo[p] /\ Uses(p)' = Uses(p)
      BY <2>2, <2>3
    <3> QED
      BY <2>3, <3>1 DEF PromoInv, Tallied
  <2>5. \A t \in Sessions : q \notin tx[t].rows
    BY <2>1 DEF Held
  <2>6. \A p \in Promos \ {q} : SameCode(p)
    BY <2>2, <2>3 DEF SameCode
  <2> QED
    BY <1>1, <2>4, <2>5, <2>6
<1> QED
  <2>1. \/ UNCHANGED <<promo, used, sold>>
        \/ \E q \in Promos : TogglePromo(q) \/ DeletePromo(q)
    BY DEF Admin, AdminBalanceChange, UpdateItem, RemoveLines, AddValue, DeleteValues,
       Expire, goodsVars, promoVars
  <2> QED
    BY <1>2, <1>3, <1>4, <2>1

\* No code has been used at the start.
LEMMA InitPromoInv == Init => PromoInv
<1> SUFFICES ASSUME Init PROVE PromoInv
  OBVIOUS
<1>1. \A s \in Sessions : tx[s] = Fresh("idle")
  BY DEF Init
<1>2. Exclusive /\ \A s \in Sessions : Counting(tx[s]) /\ One(tx[s])
  BY <1>1, FreshPromo DEF Exclusive
<1>3. \A p \in Promos : Uses(p) = {} /\ promo[p].uses = 0
  BY DEF Init, Uses
<1>4. \A p \in Promos : MaxUses[p] > 0 => promo[p].uses <= MaxUses[p]
  BY <1>3, PromoAssumption
<1>5. sold = {} /\ Cardinality({}) = 0 /\ IsFiniteSet({})
  BY FS_EmptySet DEF Init
<1>6. Tallied
  BY <1>3, <1>4, <1>5 DEF Tallied
<1> QED
  BY <1>2, <1>6 DEF PromoInv

\* Counters, usages and promises agree after every step.
LEMMA NextPromo == Typed /\ PromoInv /\ [Next]_vars => PromoInv'
<1> SUFFICES ASSUME Typed, PromoInv, [Next]_vars PROVE PromoInv'
  OBVIOUS
<1>1. ASSUME NEW s \in Sessions, Step(s) PROVE PromoInv'
  BY <1>1, StepPromo
<1>2. ASSUME NEW s \in Sessions, Victim(s) \/ Fail(s) PROVE PromoInv'
  BY <1>2, IdlePromo DEF Victim, Fail, Rollback, db, promoVars
<1>3. ASSUME NEW s \in Sessions, NEW q \in Requests, Begin(s, q) PROVE PromoInv'
  <2> DEFINE p == CASE q.kind \in {"checkout", "buy", "redeem"} -> "user"
                    [] q.kind = "input"  -> "promo"
                    [] q.kind = "add"    -> "count"
                    [] q.kind = "delete" -> "drop.values"
             r == [Fresh(p) EXCEPT !.req = q]
  <2>1. Put(s, r) /\ UNCHANGED <<promo, used, sold>>
    BY <1>3 DEF Begin, db, promoVars
  <2>2. r \in Tx
    BY <1>3, <2>1, BeginTyped DEF Put, Typed, TypeOK
  <2>3. /\ q.kind \in {"checkout", "buy", "redeem"} => p = "user"
        /\ q.kind = "input" => p = "promo"
    OBVIOUS
  <2> HIDE DEF p
  <2>4. r.at = p /\ r.rows = {} /\ r.req = q /\ r.got = {}
    BY DEF Fresh
  <2> HIDE DEF r
  <2>5. Promised(r) = {}
    BY <2>3, <2>4 DEF Promised
  <2>6. Counting(r) /\ One(r)
    BY <2>4, <2>5 DEF Counting, One
  <2> QED
    BY <2>1, <2>2, <2>4, <2>6, PutPromo
<1>4. ASSUME Admin PROVE PromoInv'
  BY <1>4, AdminPromo
<1>5. CASE UNCHANGED vars
  BY <1>5 DEF vars, db, promoVars, PromoInv, Exclusive, Tallied, Uses, Counting,
     Promised, One
<1> QED
  BY <1>1, <1>2, <1>3, <1>4, <1>5 DEF Next

\* The counter of a code counts its usages and stays within the limit, and nobody
\* has two purchases discounted by one code, however checkouts, redemptions and the
\* administrator interleave.
THEOREM CodesCounted == Spec => []PromoCounted
<1>1. PromoInv => PromoCounted
  BY DEF PromoInv, Tallied, PromoCounted, Uses
<1> QED
  BY <1>1, InitTyped, NextTyped, InitPromoInv, NextPromo, PTL DEF Spec

-----------------------------------------------------------------------------
(* The cart: why a checkout deletes no line it has not looked at             *)

Seen(r) == r.todo \cup r.drop \cup {g.line : g \in r.got}
             \cup (IF r.at = "line" THEN {} ELSE {r.line})

\* A checkout under way holds the user's row, and has seen every line of the user.
Looked(r) ==
  r.at \in {"line", "goods", "values", "promo"} /\ r.req.kind = "checkout" =>
    r.req.user \in r.rows /\ \A l \in cart : LineUser[l] = r.req.user => l \in Seen(r)

CartInv == \A s \in Sessions : Looked(tx[s])

\* A step by which no cart grows.
LEMMA PutCart ==
  ASSUME Typed, CartInv, NEW s \in Sessions, NEW r, Put(s, r), cart' \subseteq cart,
         Looked(r)
  PROVE  CartInv'
<1>1. tx' = [tx EXCEPT ![s] = r] /\ tx \in [Sessions -> Tx]
  BY DEF Put, Typed, TypeOK
<1>2. ASSUME NEW t \in Sessions PROVE Looked(tx[t])'
  <2>1. Looked(tx'[t])
    BY <1>1 DEF CartInv
  <2> QED
    BY <2>1 DEF Looked, Seen
<1> QED
  BY <1>2 DEF CartInv

\* Commit or rollback: the session looks at no cart any more.
LEMMA EndCart ==
  ASSUME Typed, CartInv, NEW s \in Sessions, End(s), cart' \subseteq cart
  PROVE  CartInv'
<1>1. Looked(Fresh("done"))
  BY DEF Fresh, Looked
<1> QED
  BY <1>1, PutCart DEF End

\* Every step of a session keeps the lines of a running checkout in its sight.
LEMMA StepCart ==
  ASSUME Typed, CartInv, NEW s \in Sessions, Step(s)
  PROVE  CartInv'
<1>0. /\ tx[s] \in Tx /\ Coherent(tx[s]) /\ Looked(tx[s])
      /\ Kind(s) = tx[s].req.kind /\ User(s) = tx[s].req.user
  BY DEF Typed, TypeOK, CartInv, Kind, User
<1> USE DEF db
\* What the session has seen does not become less.
<1>1. ASSUME NEW r, Put(s, r), r.req = tx[s].req, tx[s].rows \subseteq r.rows,
             tx[s].at \in {"line", "goods", "values", "promo"},
             r.req.kind = "checkout" => Seen(tx[s]) \subseteq Seen(r), cart' = cart
      PROVE  CartInv'
  <2>1. Looked(r)
    BY <1>0, <1>1 DEF Looked
  <2> QED
    BY <1>1, <2>1, PutCart
<1>2. CASE LockUser(s)
  <2>1. cart' = cart
    BY <1>2 DEF LockUser
  <2>2. ASSUME NEW r \in Tx, Put(s, r), r.req = tx[s].req,
               r.rows = tx[s].rows \cup {User(s)},
               r.req.kind = "checkout" => r.todo = {l \in cart : LineUser[l] = User(s)}
        PROVE  CartInv'
    <3>1. Looked(r)
      BY <1>0, <2>2 DEF Looked, Seen
    <3> QED
      BY <2>1, <2>2, <3>1, PutCart
  <2> QED
    BY <1>2, <2>1, <2>2, LockUserStep, EndCart
<1>3. CASE NextLine(s)
  <2>1. tx[s].at = "line" /\ cart' = cart
    BY <1>3 DEF NextLine
  <2>2. PICK r \in Tx : /\ Put(s, r) /\ r.at = "goods" /\ r.req = tx[s].req
                        /\ r.rows = tx[s].rows /\ r.got = tx[s].got
                        /\ r.line \in tx[s].todo /\ r.todo = tx[s].todo \ {r.line}
                        /\ r.drop = tx[s].drop
    BY <1>3, NextLineStep
  <2>3. Seen(tx[s]) \subseteq Seen(r)
    BY <2>1, <2>2 DEF Seen
  <2> QED
    BY <1>1, <2>1, <2>2, <2>3
<1>4. ASSUME tx[s].at \in {"goods", "values"}, Unavailable(s), cart' = cart
      PROVE  CartInv'
  <2>1. CASE End(s)
    BY <1>4, <2>1, EndCart
  <2>2. ASSUME NEW r \in Tx, Put(s, r), r.at = "line", r.req = tx[s].req,
               r.rows = tx[s].rows, r.got = tx[s].got,
               r.todo = tx[s].todo, r.drop = tx[s].drop \cup {tx[s].line}
        PROVE  CartInv'
    <3>1. Seen(tx[s]) \subseteq Seen(r)
      BY <1>4, <2>2 DEF Seen
    <3> QED
      BY <1>1, <1>4, <2>2, <3>1
  <2> QED
    BY <1>4, <2>1, <2>2, UnavailableStep
<1>5. CASE LockGoods(s)
  <2>1. tx[s].at = "goods" /\ cart' = cart
    BY <1>5 DEF LockGoods
  <2>2. ASSUME NEW r \in Tx, Put(s, r), r.at \in {"promo", "values"}, r.req = tx[s].req,
               r.rows = tx[s].rows \cup Wants(s), r.got = tx[s].got,
               r.line = tx[s].line, r.todo = tx[s].todo, r.drop = tx[s].drop
        PROVE  CartInv'
    <3>1. Seen(tx[s]) \subseteq Seen(r)
      BY <2>1, <2>2 DEF Seen
    <3> QED
      BY <1>1, <2>1, <2>2, <3>1
  <2> QED
    BY <1>4, <1>5, <2>1, <2>2, LockGoodsStep, EndCart
<1>6. CASE LockValues(s)
  <2>1. tx[s].at = "values" /\ cart' = cart
    BY <1>6 DEF LockValues
  <2>2. ASSUME NEW r \in Tx, NEW v, Put(s, r), r.at \in {"pay", "promo", "line"},
               r.req = tx[s].req, r.at = "pay" <=> r.req.kind = "buy",
               r.rows = tx[s].rows \cup Offer(s),
               r.line = tx[s].line, r.todo = tx[s].todo, r.drop = tx[s].drop,
               r.at = "promo" => r.got = tx[s].got,
               r.at # "promo" =>
                 r.got = tx[s].got \cup {[line |-> r.line, value |-> v,
                        price |-> tx[s].cost,
                        promo |-> IF r.req.kind = "buy" THEN Code(s) ELSE Null]}
        PROVE  CartInv'
    <3> DEFINE n == [line |-> r.line, value |-> v, price |-> tx[s].cost,
                     promo |-> IF r.req.kind = "buy" THEN Code(s) ELSE Null]
    <3>1. r.at # "promo" => n.line = r.line /\ r.got = tx[s].got \cup {n}
      BY <2>2
    <3> HIDE DEF n
    <3>2. Seen(tx[s]) \subseteq Seen(r)
      BY <2>1, <2>2, <3>1 DEF Seen
    <3> QED
      BY <1>1, <2>1, <2>2, <3>2
  <2> QED
    BY <1>4, <1>6, <2>1, <2>2, LockValuesStep
<1>7. CASE LockPromo(s)
  <2>1. tx[s].at = "promo" /\ cart' = cart
    BY <1>7 DEF LockPromo
  <2>2. ASSUME NEW r \in Tx, Put(s, r), r.req = tx[s].req,
               r.rows = tx[s].rows \cup Wants(s),
               r.line = tx[s].line, r.todo = tx[s].todo, r.drop = tx[s].drop,
               r.at # "line" => r.got = tx[s].got,
               r.at = "line" =>
                 r.got = tx[s].got \cup {[line |-> r.line, value |-> tx[s].value,
                        price |-> Reduced(tx[s].cost, Code(s)), promo |-> Code(s)]}
        PROVE  CartInv'
    <3> DEFINE n == [line |-> r.line, value |-> tx[s].value,
                     price |-> Reduced(tx[s].cost, Code(s)), promo |-> Code(s)]
    <3>1. r.at = "line" => n.line = r.line /\ r.got = tx[s].got \cup {n}
      BY <2>2
    <3> HIDE DEF n
    <3>2. Seen(tx[s]) \subseteq Seen(r)
      BY <2>1, <2>2, <3>1 DEF Seen
    <3> QED
      BY <1>1, <2>1, <2>2, <3>2
  <2> QED
    BY <1>7, <2>1, <2>2, LockPromoStep, EndCart
<1>8. CASE CommitBuy(s) \/ CommitPromo(s) \/ DropItem(s) \/ RefuseCheckout(s)
  BY <1>8, EndCart DEF CommitBuy, CommitPromo, DropItem, RefuseCheckout, Rollback
<1>9. CASE CommitCheckout(s) \/ CommitEmpty(s)
  BY <1>9, EndCart DEF CommitCheckout, CommitEmpty
<1>10. CASE CountLines(s)
  <2>1. tx[s].at = "count" /\ cart' = cart
    BY <1>10 DEF CountLines
  <2>2. ASSUME NEW r \in Tx, Put(s, r), r.at = "insert" PROVE CartInv'
    <3>1. Looked(r)
      BY <2>2 DEF Looked
    <3> QED
      BY <2>1, <2>2, <3>1, PutCart
  <2> QED
    BY <1>10, <2>1, <2>2, CountLinesStep, EndCart
<1>11. CASE LockDropped(s) \/ LoadDropped(s)
  <2>1. cart' = cart
    BY <1>11, DroppedReady DEF db, goodsVars, promoVars
  <2>2. ASSUME NEW r \in Tx, Put(s, r), r.at \in {"drop.rest", "drop.goods", "drop.promos"}
        PROVE  CartInv'
    <3>1. Looked(r)
      BY <2>2 DEF Looked
    <3> QED
      BY <2>1, <2>2, <3>1, PutCart
  <2> QED
    BY <1>11, <2>1, <2>2, LockDroppedStep, EndCart
\* A line is inserted: its user's row is free, so no checkout of that user runs.
<1>12. CASE InsertLine(s)
  <2> DEFINE l == tx[s].req.line
  <2>1. /\ ~ Held({LineUser[l]}) /\ cart' = cart \cup {l} /\ Put(s, Fresh("done"))
    BY <1>12 DEF InsertLine, End
  <2>2. tx' = [tx EXCEPT ![s] = Fresh("done")] /\ tx \in [Sessions -> Tx]
    BY <2>1 DEF Put, Typed, TypeOK
  <2>3. ASSUME NEW t \in Sessions PROVE Looked(tx[t])'
    <3>1. CASE t = s
      <4>1. tx'[t].at = "done"
        BY <2>2, <3>1 DEF Fresh
      <4> QED
        BY <4>1 DEF Looked
    <3>2. CASE t # s
      <4>1. tx'[t] = tx[t] /\ Looked(tx[t]) /\ LineUser[l] \notin tx[t].rows
        BY <2>1, <2>2, <3>2 DEF CartInv, Held
      <4> HIDE DEF l
      <4> QED
        BY <2>1, <4>1 DEF Looked, Seen
    <3> QED
      BY <3>1, <3>2
  <2> QED
    BY <2>3 DEF CartInv
<1> QED
  BY <1>2, <1>3, <1>5, <1>6, <1>7, <1>8, <1>9, <1>10, <1>11, <1>12 DEF Step

\* So does every step of the system.
LEMMA NextCart == Typed /\ CartInv /\ [Next]_vars => CartInv'
<1> SUFFICES ASSUME Typed, CartInv, [Next]_vars PROVE CartInv'
  OBVIOUS
<1>1. ASSUME NEW s \in Sessions, Step(s) PROVE CartInv'
  BY <1>1, StepCart
<1>2. ASSUME NEW s \in Sessions, Victim(s) \/ Fail(s) PROVE CartInv'
  BY <1>2, EndCart DEF Victim, Fail, Rollback, db
<1>3. ASSUME NEW s \in Sessions, NEW q \in Requests, Begin(s, q) PROVE CartInv'
  <2> DEFINE p == CASE q.kind \in {"checkout", "buy", "redeem"} -> "user"
                    [] q.kind = "input"  -> "promo"
                    [] q.kind = "add"    -> "count"
                    [] q.kind = "delete" -> "drop.values"
             r == [Fresh(p) EXCEPT !.req = q]
  <2>1. Put(s, r) /\ cart' = cart
    BY <1>3 DEF Begin, db
  <2>2. q.kind = "checkout" => p = "user"
    OBVIOUS
  <2> HIDE DEF p
  <2>3. r.at = p /\ r.req = q
    BY DEF Fresh
  <2> HIDE DEF r
  <2>4. Looked(r)
    BY <2>2, <2>3 DEF Looked
  <2> QED
    BY <2>1, <2>4, PutCart
<1>4. ASSUME Admin PROVE CartInv'
  <2>1. cart' \subseteq cart
    BY <1>4 DEF Admin, AdminBalanceChange, UpdateItem, RemoveLines, AddValue,
       DeleteValues, TogglePromo, DeletePromo, Expire
  <2>2. tx' = tx
    BY <1>4, AdminTyped
  <2> QED
    BY <2>1, <2>2 DEF CartInv, Looked, Seen
<1>5. CASE UNCHANGED vars
  BY <1>5 DEF vars, db, CartInv, Looked, Seen
<1> QED
  BY <1>1, <1>2, <1>3, <1>4, <1>5 DEF Next

\* When the checkout of a session ends, what leaves the carts are lines it has seen.
LEMMA StepLate ==
  ASSUME Typed, CartInv, [Next]_vars, NEW s \in Sessions,
         tx[s].at = "line", tx'[s].at = "done"
  PROVE  cart \ cart' \subseteq tx[s].drop \cup {g.line : g \in tx[s].got}
<1>0. /\ tx[s] \in Tx /\ Coherent(tx[s]) /\ Looked(tx[s]) /\ tx \in [Sessions -> Tx]
      /\ User(s) = tx[s].req.user
  BY DEF Typed, TypeOK, CartInv, User
<1>1. \A t \in Sessions : t # s => \A r : ~ Put(t, r)
  BY <1>0 DEF Put
<1>2. CASE CommitCheckout(s)
  <2>1. tx[s].todo = {} /\ cart' = {l \in cart : LineUser[l] # User(s)}
    BY <1>2 DEF CommitCheckout
  <2>2. tx[s].req.kind = "checkout"
    BY <1>0 DEF Coherent
  <2> QED
    BY <1>0, <2>1, <2>2 DEF Looked, Seen
<1>3. CASE CommitEmpty(s)
  BY <1>3 DEF CommitEmpty
<1>4. CASE cart' = cart
  BY <1>4
<1>5. CASE Admin \/ UNCHANGED vars
  <2>1. tx' = tx
    BY <1>5, AdminTyped DEF vars
  <2> QED
    BY <2>1
<1> QED
  <2>1. ASSUME NEW t \in Sessions, NEW q \in Requests, Begin(t, q) PROVE cart' = cart
    BY <2>1 DEF Begin, db
  <2>2. ASSUME NEW t \in Sessions, Victim(t) \/ Fail(t) PROVE cart' = cart
    BY <2>2 DEF Victim, Fail, Rollback, db
  <2>3. ASSUME NEW t \in Sessions, Step(t)
        PROVE  cart' = cart \/ CommitCheckout(s) \/ CommitEmpty(s)
    <3>1. ASSUME CommitCheckout(t) \/ CommitEmpty(t) \/ InsertLine(t)
          PROVE  t = s
      BY <1>1, <3>1 DEF CommitCheckout, CommitEmpty, InsertLine, End
    <3>2. ~ InsertLine(s)
      BY DEF InsertLine
    <3> QED
      BY <2>3, <3>1, <3>2 DEF Step, LockUser, NextLine, LockGoods, LockValues, LockPromo,
         CommitBuy, RefuseCheckout, CommitPromo, CountLines, LockDropped, LoadDropped, DropItem,
         Rollback, db
  <2> QED
    BY <1>2, <1>3, <1>4, <1>5, <2>1, <2>2, <2>3 DEF Next

\* A line put into the cart while a checkout runs is not deleted by it.
THEOREM LinesKept == Spec => LateLinesKept
<1>1. Init => CartInv
  <2> SUFFICES ASSUME Init PROVE CartInv
    OBVIOUS
  <2>1. \A s \in Sessions : tx[s].at = "idle"
    BY DEF Init, Fresh
  <2> QED
    BY <2>1 DEF CartInv, Looked
<1>2. Typed /\ CartInv /\ [Next]_vars =>
        [\A s \in Sessions : tx[s].at = "line" /\ tx'[s].at = "done" =>
           cart \ cart' \subseteq tx[s].drop \cup {g.line : g \in tx[s].got}]_vars
  BY StepLate
<1> QED
  BY <1>1, <1>2, InitTyped, NextTyped, NextCart, PTL DEF Spec, LateLinesKept

-----------------------------------------------------------------------------
(* The order of the locks                                                    *)

Stocked(r) == \/ r.at = "values"
              \/ r.at = "promo" /\ r.req.kind \in {"buy", "checkout"}

\* Whoever holds stock rows, but for a deletion, holds their item; and a session that
\* has not come to another line takes user, item, code in this order.
Ordered(r) ==
  /\ Stocked(r) => Item_(r) \in r.rows
  /\ r.req.kind # "delete" => \A v \in r.rows \cap Values : ItemOf[v] \in r.rows
  /\ r.req.kind \notin {"input", "delete"} /\ r.got \cup r.drop = {} =>
       /\ r.at = "user" => r.rows \cap Users = {}
       /\ r.at \in {"user", "line", "goods"} => r.rows \cap Goods = {}
       /\ (r.at \in {"user", "line", "goods", "promo"} \/ r.req.kind = "checkout") =>
            r.rows \cap Promos = {}

OrderInv == Exclusive /\ \A s \in Sessions : Ordered(tx[s])

\* The order of the locks is a matter of the record of the session that moves.
LEMMA PutOrdered ==
  ASSUME Typed, OrderInv, NEW s \in Sessions, NEW r \in Tx, Put(s, r),
         \/ r.rows \subseteq tx[s].rows
         \/ r.rows = tx[s].rows \cup Wants(s) /\ Ready(s),
         Ordered(r)
  PROVE  OrderInv'
<1>1. tx' = [tx EXCEPT ![s] = r] /\ tx \in [Sessions -> Tx]
  BY DEF Put, Typed, TypeOK
<1>2. Exclusive'
  BY PutExclusive DEF OrderInv
<1>3. ASSUME NEW t \in Sessions PROVE Ordered(tx[t])'
  <2>1. Ordered(tx'[t])
    BY <1>1 DEF OrderInv
  <2> QED
    BY <2>1 DEF Ordered, Stocked, Item_
<1> QED
  BY <1>2, <1>3 DEF OrderInv

\* A session that does nothing holds nothing.
LEMMA FreshOrdered ==
  ASSUME NEW at \in {"idle", "done"}
  PROVE  Ordered(Fresh(at)) /\ Fresh(at).rows = {}
<1>1. Fresh(at).at = at /\ Fresh(at).rows = {}
  BY DEF Fresh
<1> QED
  BY <1>1 DEF Ordered, Stocked

\* Commit or rollback gives the locks back.
LEMMA EndOrdered ==
  ASSUME Typed, OrderInv, NEW s \in Sessions, End(s)
  PROVE  OrderInv'
BY FreshOrdered, FreshTyped, PutOrdered DEF End

\* Every statement locks in the order.
LEMMA StepOrdered ==
  ASSUME Typed, OrderInv, NEW s \in Sessions, Step(s)
  PROVE  OrderInv'
<1>0. /\ tx[s] \in Tx /\ Coherent(tx[s]) /\ Ordered(tx[s])
      /\ Item(s) = Item_(tx[s]) /\ listed \subseteq Goods /\ stock \subseteq Values
  BY DEF Typed, TypeOK, TablesOK, OrderInv, Item, Item_, Kind
<1>1. /\ Users \cap (Goods \cup Values \cup Promos) = {}
      /\ Goods \cap (Values \cup Promos) = {} /\ Values \cap Promos = {}
  BY RowsAssumption
<1>2. CASE LockUser(s)
  <2>1. tx[s].at = "user" /\ Ready(s)
    BY <1>2 DEF LockUser
  <2>2. Wants(s) = {User(s)} /\ User(s) \in Users
    BY <2>1, SessionFacts DEF Wants
  <2>3. ASSUME NEW r \in Tx, Put(s, r), r.req = tx[s].req,
               r.at \in {"line", "goods", "promo", "pay"},
               r.at = "promo" => r.req.kind = "redeem",
               r.got = tx[s].got, r.drop = tx[s].drop,
               r.rows = tx[s].rows \cup {User(s)}
        PROVE  OrderInv'
    <3>1. Ordered(r)
      BY <1>0, <1>1, <2>1, <2>2, <2>3 DEF Ordered, Stocked
    <3> QED
      BY <2>1, <2>2, <2>3, <3>1, PutOrdered
  <2> QED
    BY <1>2, <2>3, LockUserStep, EndOrdered
<1>3. CASE NextLine(s)
  <2>1. tx[s].at = "line"
    BY <1>3 DEF NextLine
  <2>2. PICK r \in Tx : /\ Put(s, r) /\ r.at = "goods" /\ r.req = tx[s].req
                        /\ r.rows = tx[s].rows /\ r.got = tx[s].got
                        /\ r.drop = tx[s].drop
    BY <1>3, NextLineStep
  <2>3. Ordered(r)
    BY <1>0, <2>1, <2>2 DEF Ordered, Stocked
  <2> QED
    BY <2>2, <2>3, PutOrdered
<1>4. ASSUME tx[s].at \in {"goods", "values"}, Unavailable(s) PROVE OrderInv'
  <2>1. CASE End(s)
    BY <2>1, EndOrdered
  <2>2. ASSUME NEW r \in Tx, Put(s, r), r.at = "line", r.req = tx[s].req,
               r.rows = tx[s].rows, r.drop = tx[s].drop \cup {tx[s].line}
        PROVE  OrderInv'
    <3>1. Ordered(r)
      BY <1>0, <2>2 DEF Ordered, Stocked
    <3> QED
      BY <2>2, <3>1, PutOrdered
  <2> QED
    BY <1>4, <2>1, <2>2, UnavailableStep
<1>5. CASE LockGoods(s)
  <2>1. tx[s].at = "goods" /\ Ready(s)
    BY <1>5 DEF LockGoods
  <2>2. Wants(s) \subseteq Goods
    BY <1>0, <2>1 DEF Wants
  <2>3. ASSUME NEW r \in Tx, Put(s, r), r.at \in {"promo", "values"}, r.req = tx[s].req,
               Item(s) \in Wants(s), r.rows = tx[s].rows \cup Wants(s),
               r.line = tx[s].line, r.got = tx[s].got, r.drop = tx[s].drop
        PROVE  OrderInv'
    <3>1. Item_(r) = Item(s)
      BY <1>0, <2>3 DEF Item_
    <3>2. Ordered(r)
      BY <1>0, <1>1, <2>1, <2>2, <2>3, <3>1 DEF Ordered, Stocked
    <3> QED
      BY <2>1, <2>3, <3>2, PutOrdered
  <2> QED
    BY <1>4, <1>5, <2>1, <2>3, LockGoodsStep, EndOrdered
<1>6. CASE LockValues(s)
  <2>1. tx[s].at = "values" /\ Ready(s) /\ Wants(s) = Offer(s)
    BY <1>6 DEF LockValues, Wants
  <2>2. \A v \in Offer(s) : v \in Values /\ ItemOf[v] = Item(s)
    BY <1>0 DEF Offer
  <2>3. ASSUME NEW r \in Tx, Put(s, r), r.at \in {"pay", "promo", "line"},
               r.req = tx[s].req, r.rows = tx[s].rows \cup Offer(s),
               r.line = tx[s].line, r.drop = tx[s].drop,
               r.at = "pay" <=> r.req.kind = "buy",
               r.at = "promo" => r.got = tx[s].got,
               r.at # "promo" => r.got # {}
        PROVE  OrderInv'
    <3>1. Item_(r) = Item(s) /\ Item(s) \in tx[s].rows
      <4>1. Item_(r) = Item_(tx[s])
        BY <2>3 DEF Item_
      <4>2. Item_(tx[s]) \in tx[s].rows
        BY <1>0, <2>1 DEF Ordered, Stocked
      <4> QED
        BY <1>0, <4>1, <4>2
    <3>2. r.req.kind # "delete" => \A v \in r.rows \cap Values : ItemOf[v] \in r.rows
      BY <1>0, <2>2, <2>3, <3>1 DEF Ordered
    <3>3. r.req.kind \in {"buy", "checkout"}
      BY <1>0, <2>1, <2>3 DEF Coherent
    <3>4. r.at = "promo" /\ r.got \cup r.drop = {} => r.rows \cap Promos = {}
      BY <1>0, <1>1, <2>2, <2>3, <3>3 DEF Ordered
    <3>5. Ordered(r)
      BY <2>3, <3>1, <3>2, <3>3, <3>4 DEF Ordered, Stocked
    <3> QED
      BY <2>1, <2>3, <3>5, PutOrdered
  <2> QED
    BY <1>4, <1>6, <2>1, <2>3, LockValuesStep
<1>7. CASE LockPromo(s)
  <2>1. tx[s].at = "promo" /\ Ready(s)
    BY <1>7 DEF LockPromo
  <2>2. Wants(s) \subseteq Promos
    BY <2>1 DEF Wants
  <2>3. ASSUME NEW r \in Tx, Put(s, r), r.req = tx[s].req,
               r.rows = tx[s].rows \cup Wants(s), r.line = tx[s].line,
               r.drop = tx[s].drop,
               \/ r.at = "pay" /\ r.req.kind = "redeem"
               \/ r.at = "user" /\ r.req.kind = "input"
               \/ r.at = "values" /\ r.req.kind = "buy"
               \/ r.at = "line" /\ r.req.kind = "checkout",
               r.at = "line" => r.got # {}
        PROVE  OrderInv'
    <3>1. Item_(r) = Item(s)
      BY <1>0, <2>3 DEF Item_
    <3>2. Stocked(r) => Item_(r) \in r.rows
      BY <1>0, <2>1, <2>3, <3>1 DEF Ordered, Stocked
    <3>3. r.req.kind # "delete" => \A v \in r.rows \cap Values : ItemOf[v] \in r.rows
      BY <1>0, <1>1, <2>2, <2>3 DEF Ordered
    <3>4. Ordered(r)
      BY <2>3, <3>2, <3>3 DEF Ordered
    <3> QED
      BY <2>1, <2>3, <3>4, PutOrdered
  <2> QED
    BY <1>7, <2>3, LockPromoStep, EndOrdered
<1>8. CASE CountLines(s)
  <2>1. tx[s].at = "count"
    BY <1>8 DEF CountLines
  <2>2. ASSUME NEW r \in Tx, Put(s, r), r.at = "insert", r.req = tx[s].req,
               r.rows = tx[s].rows
        PROVE  OrderInv'
    <3>1. Ordered(r)
      BY <1>0, <2>1, <2>2 DEF Ordered, Stocked, Coherent
    <3> QED
      BY <2>2, <3>1, PutOrdered
  <2> QED
    BY <1>8, <2>2, CountLinesStep, EndOrdered
<1>9. CASE LockDropped(s) \/ LoadDropped(s)
  <2>1. Ready(s)
    BY <1>9, DroppedReady DEF db, goodsVars, promoVars
  <2>2. ASSUME NEW r \in Tx, Put(s, r), Coherent(r),
               r.at \in {"drop.rest", "drop.goods", "drop.promos"}, r.rows = tx[s].rows \cup Wants(s)
        PROVE  OrderInv'
    <3>1. Ordered(r)
      BY <2>2 DEF Ordered, Stocked, Coherent
    <3> QED
      BY <2>1, <2>2, <3>1, PutOrdered
  <2> QED
    BY <1>9, <2>2, LockDroppedStep, EndOrdered
<1> QED
  BY <1>2, <1>3, <1>5, <1>6, <1>7, <1>8, <1>9, EndOrdered DEF Step, CommitBuy,
     CommitCheckout, CommitEmpty, RefuseCheckout, CommitPromo, InsertLine, DropItem, Rollback

\* At first nothing is locked.
LEMMA InitOrdered == Init => OrderInv
<1> SUFFICES ASSUME Init PROVE OrderInv
  OBVIOUS
<1>1. \A s \in Sessions : tx[s] = Fresh("idle")
  BY DEF Init
<1> QED
  BY <1>1, FreshOrdered DEF OrderInv, Exclusive

\* So does every step of the system.
LEMMA NextOrdered == Typed /\ OrderInv /\ [Next]_vars => OrderInv'
<1> SUFFICES ASSUME Typed, OrderInv, [Next]_vars PROVE OrderInv'
  OBVIOUS
<1>1. ASSUME NEW s \in Sessions, Step(s) PROVE OrderInv'
  BY <1>1, StepOrdered
<1>2. ASSUME NEW s \in Sessions, Victim(s) \/ Fail(s) PROVE OrderInv'
  BY <1>2, EndOrdered DEF Victim, Fail, Rollback
<1>3. ASSUME NEW s \in Sessions, NEW q \in Requests, Begin(s, q) PROVE OrderInv'
  <2> DEFINE p == CASE q.kind \in {"checkout", "buy", "redeem"} -> "user"
                    [] q.kind = "input"  -> "promo"
                    [] q.kind = "add"    -> "count"
                    [] q.kind = "delete" -> "drop.values"
             r == [Fresh(p) EXCEPT !.req = q]
  <2>1. Put(s, r)
    BY <1>3 DEF Begin
  <2>2. r \in Tx
    BY <1>3, <2>1, BeginTyped DEF Put, Typed, TypeOK
  <2>3. /\ q.kind \in {"checkout", "buy", "redeem"} => p = "user"
        /\ q.kind \in Kinds /\ p # "values"
    BY RequestsAssumption DEF Request, Kinds
  <2> HIDE DEF p
  <2>4. r.at = p /\ r.rows = {} /\ r.req = q
    BY DEF Fresh
  <2> HIDE DEF r
  <2>5. Ordered(r)
    BY <2>3, <2>4 DEF Ordered, Stocked
  <2> QED
    BY <2>1, <2>2, <2>4, <2>5, PutOrdered
<1>4. CASE Admin \/ UNCHANGED vars
  <2>1. tx' = tx
    BY <1>4, AdminTyped DEF vars
  <2> QED
    BY <2>1 DEF OrderInv, Exclusive, Ordered, Stocked, Item_
<1> QED
  BY <1>1, <1>2, <1>3, <1>4 DEF Next

\* In a circle of sessions of the usual order nobody could wait: not for stock, whose
\* item he holds; so nobody for a code, for those who hold one wait for stock; so nobody
\* for an item, and nobody for a user.
LEMMA NoCircle ==
  ASSUME Typed, OrderInv, NEW C \in SUBSET Sessions, C # {}, Cycle(C),
         \A s \in C : Kind(s) \notin {"input", "delete"} /\ tx[s].got \cup tx[s].drop = {}
  PROVE  FALSE
<1>0. \A s \in Sessions : /\ tx[s] \in Tx /\ Coherent(tx[s]) /\ Ordered(tx[s])
                          /\ Item(s) = Item_(tx[s]) /\ Kind(s) = tx[s].req.kind
  BY DEF Typed, TypeOK, OrderInv, Item, Item_, Kind
<1>1. \A s, t \in Sessions : Waits(s, t) => tx[s].rows \cap tx[t].rows = {}
  BY DEF Waits, OrderInv, Exclusive
<1>2. \A s \in C : \E t \in C : Waits(s, t)
  BY DEF Cycle
<1>3. \A s \in C : tx[s].at \in {"user", "goods", "promo", "values"}
  <2> SUFFICES ASSUME NEW s \in C PROVE tx[s].at \in {"user", "goods", "promo", "values"}
    OBVIOUS
  <2>1. Wants(s) # {}
    BY <1>2 DEF Waits
  <2>2. tx[s].at \notin {"drop.values", "drop.goods", "drop.promos"}
    BY <1>0 DEF Coherent
  <2> QED
    BY <2>1, <2>2 DEF Wants
<1>4. ASSUME NEW s \in C, NEW t \in C, Waits(s, t), tx[s].at = "values" PROVE FALSE
  <2>1. PICK v \in tx[t].rows : v \in stock /\ ItemOf[v] = Item(s)
    <3>1. Wants(s) = Offer(s) /\ Wants(s) \cap tx[t].rows # {}
      BY <1>4 DEF Waits, Wants
    <3> QED
      BY <3>1 DEF Offer
  <2>2. v \in Values /\ Item(s) \in tx[s].rows
    BY <1>0, <1>4, <2>1 DEF Ordered, Stocked, Typed, TypeOK, TablesOK
  <2>3. Item(s) \in tx[t].rows
    BY <1>0, <2>1, <2>2 DEF Ordered
  <2> QED
    BY <1>1, <1>4, <2>2, <2>3
<1>5. \A s \in C : tx[s].at # "values"
  BY <1>2, <1>4
<1>6. \A s \in C : tx[s].at # "promo"
  <2> SUFFICES ASSUME NEW s \in C, NEW t \in C, Waits(s, t), tx[s].at = "promo" PROVE FALSE
    BY <1>2
  <2>1. tx[t].rows \cap Promos # {}
    BY DEF Waits, Wants
  <2> QED
    BY <1>0, <1>3, <1>5, <2>1 DEF Ordered
<1>7. \A s \in C : tx[s].at # "goods"
  <2> SUFFICES ASSUME NEW s \in C, NEW t \in C, Waits(s, t), tx[s].at = "goods" PROVE FALSE
    BY <1>2
  <2>1. tx[t].rows \cap Goods # {}
    BY DEF Waits, Wants, Typed, TypeOK, TablesOK
  <2> QED
    BY <1>0, <1>3, <1>5, <1>6, <2>1 DEF Ordered
<1> QED
  <2>1. PICK s \in C, t \in C : Waits(s, t) /\ tx[s].at = "user" /\ tx[t].at = "user"
    BY <1>2, <1>3, <1>5, <1>6, <1>7
  <2>2. User(s) \in Users /\ User(s) \in tx[t].rows
    BY <2>1, SessionFacts DEF Waits, Wants
  <2> QED
    BY <1>0, <2>1, <2>2 DEF Ordered

\* A deadlock takes a promo code typed in, a deletion, or a checkout at a later line.
THEOREM OneOrder == Spec => []DeadlockTakesAnotherOrder
<1>1. Typed /\ OrderInv => DeadlockTakesAnotherOrder
  BY NoCircle DEF DeadlockTakesAnotherOrder
<1> QED
  BY <1>1, InitOrdered, InitTyped, NextTyped, NextOrdered, PTL DEF Spec

-----------------------------------------------------------------------------
(* The promise of the shop                                                   *)

\* The sum of Shop is the sum over the costs of its deals.
LEMMA CostSum ==
  ASSUME NEW D, IsFiniteSet(D)
  PROVE  Promise!MapThenSumSet(Promise!Cost, D) = Sum([d \in D |-> Promise!Cost(d)])
<1> DEFINE f == [d \in D |-> Promise!Cost(d)]
           Adds(i) == i = [s \in SUBSET D |->
             IF s = {} THEN 0 ELSE Promise!Cost(Pick(s)) + i[s \ {Pick(s)}]]
           it == CHOOSE i : Adds(i)
<1>1. Promise!MapThenSumSet(Promise!Cost, D) = it[D]
  BY DEF Promise!MapThenSumSet, Promise!MapThenFoldSet, Pick
<1>2. PICK h : Summed(h, f)
  BY SumExists
<1>3. \A s \in SUBSET D : s # {} => Pick(s) \in s
  BY DEF Pick
<1>4. \A s \in SUBSET D : s # {} => Promise!Cost(Pick(s)) = f[Pick(s)]
  BY <1>3
<1> HIDE DEF f
<1>5. DOMAIN f = D
  BY DEF f
<1>6. Adds(h)
  BY <1>2, <1>4, <1>5 DEF Summed
<1>7. Adds(it)
  <2> HIDE DEF Adds
  <2> QED
    BY <1>6
<1> HIDE DEF it
<1>8. Summed(it, f)
  BY <1>4, <1>5, <1>7 DEF Summed
<1> QED
  BY <1>1, <1>5, <1>8, SumOf DEF f

\* What a set of purchases costs, as the session has computed it.
Paid(G) == Sum([g \in G |-> g.price])

\* One more line adds its price to what is paid.
LEMMA PaidMore ==
  ASSUME NEW G, IsFiniteSet(G), NEW n, n \notin G, n.price \in Int,
         \A g \in G : g.price \in Int
  PROVE  IsFiniteSet(G \cup {n}) /\ Paid(G \cup {n}) = Paid(G) + n.price
<1> DEFINE f == [g \in G \cup {n} |-> g.price]
           e == [g \in G |-> g.price]
<1>1. IsFiniteSet(G \cup {n})
  BY FS_AddElement
<1>2. /\ DOMAIN f = G \cup {n} /\ n \in DOMAIN f /\ f[n] = n.price
      /\ \A g \in DOMAIN f : f[g] \in Int
      /\ e = [g \in DOMAIN f \ {n} |-> f[g]]
  OBVIOUS
<1>3. Paid(G \cup {n}) = Sum(f) /\ Paid(G) = Sum(e)
  BY DEF Paid
<1> HIDE DEF f, e
<1>4. Sum(f) = f[n] + Sum(e)
  BY <1>1, <1>2, SumMore
<1>5. Sum(f) \in Int /\ Sum(e) \in Int
  <2>1. PICK h : Summed(h, f)
    BY <1>1, <1>2, SumExists
  <2>2. Sum(f) = h[DOMAIN f] /\ h[DOMAIN f] \in Int
    BY <1>1, <1>2, <2>1, SumOf, SumTyped
  <2>3. IsFiniteSet(DOMAIN e) /\ \A g \in DOMAIN e : e[g] \in Int
    BY <1>2, FS_Subset, <1>1
  <2>4. PICK k : Summed(k, e)
    BY <2>3, SumExists
  <2> QED
    BY <2>2, <2>3, <2>4, SumOf, SumTyped
<1> QED
  BY <1>1, <1>2, <1>3, <1>4, <1>5

\* Nothing bought costs nothing.
LEMMA PaidNothing == IsFiniteSet({}) /\ Paid({}) = 0
BY SumNone, FS_EmptySet DEF Paid

\* Promo code p applies to item i, and c is the price of i after its discount.
Apt(p, i) == Type[p] # "balance" /\ promo[p].item \in {Null, i}
Fair(i, c, p) == c = Reduced(price[i], p) /\ (p # Null => Apt(p, i))

\* The code a purchase has checked before it takes the stock row.
Given(r) == IF r.req.kind = "buy" /\ r.at = "values" THEN r.req.promo ELSE Null

\* What a session has read of prices and codes is what the tables say, and what
\* it will pay is the sum.
Priced(r) ==
  /\ IsFiniteSet(r.got) /\ r.total = Paid(r.got)
  /\ \A g \in r.got : Fair(ItemOf[g.value], g.price, g.promo)
  /\ \A p \in Promised(r) : promo[p].active
  /\ r.req.kind = "redeem" /\ r.at = "pay" => Type[r.req.promo] = "balance"
  /\ r.req.kind = "buy" /\ r.at = "pay" => r.got # {}
  /\ Stocked(r) => Fair(Item_(r), r.cost, Given(r))
  /\ r.req.kind = "checkout" /\ r.at = "promo" => ItemOf[r.value] = Item_(r)

PricedInv == \A s \in Sessions : Priced(tx[s])

\* The locks that keep it so, and what they keep.
ShopInv == MoneyInv /\ StockInv /\ PromoInv /\ OrderInv /\ PricedInv

\* A session without an operation has priced nothing.
LEMMA FreshPriced ==
  ASSUME NEW at \in {"idle", "done"}
  PROVE  Priced(Fresh(at))
<1>1. Fresh(at).got = {} /\ Fresh(at).at = at /\ Fresh(at).total = 0
  BY DEF Fresh
<1>2. Promised(Fresh(at)) = {}
  BY <1>1 DEF Promised
<1> QED
  BY <1>1, <1>2, PaidNothing DEF Priced, Stocked

\* A step that changes no price and no code.
LEMMA PutPriced ==
  ASSUME Typed, PricedInv, NEW s \in Sessions, NEW r \in Tx, Put(s, r),
         UNCHANGED <<price, promo>>, Priced(r)
  PROVE  PricedInv'
<1>1. tx' = [tx EXCEPT ![s] = r] /\ tx \in [Sessions -> Tx]
  BY DEF Put, Typed, TypeOK
<1>2. ASSUME NEW t \in Sessions PROVE Priced(tx[t])'
  <2>1. Priced(tx'[t])
    BY <1>1 DEF PricedInv
  <2> QED
    BY <2>1 DEF Priced, Promised, Stocked, Fair, Apt, Given, Item_, Paid
<1> QED
  BY <1>2 DEF PricedInv

\* A session that goes on while the prices and the codes it has locked stay as
\* they are; an item that is deleted leaves its codes unbound.
LEMMA OtherPriced ==
  ASSUME Typed, StockInv, PromoInv, OrderInv, PricedInv,
         NEW t \in Sessions, tx'[t] = tx[t],
         \A i \in Goods \cap tx[t].rows : price'[i] = price[i],
         \A p \in Promos \cap tx[t].rows : promo'[p].active = promo[p].active,
         \A p \in Promos : promo'[p].item \in {Null, promo[p].item}
  PROVE  Priced(tx[t])'
<1> DEFINE r == tx[t]
<1>1. /\ Priced(r) /\ Picked(r) /\ Ordered(r) /\ Counting(r)
      /\ r \in Tx /\ Coherent(r)
  BY DEF Typed, TypeOK, StockInv, PromoInv, OrderInv, PricedInv
<1>2. ASSUME NEW i \in Goods \cap r.rows, NEW c, NEW p \in Promos \cup {Null},
             Fair(i, c, p)
      PROVE  c = Reduced(price'[i], p)
             /\ (p # Null => Type[p] # "balance" /\ promo'[p].item \in {Null, i})
  BY <1>2 DEF Fair, Apt
<1>3. ASSUME NEW g \in r.got
      PROVE  /\ g.price = Reduced(price'[ItemOf[g.value]], g.promo)
             /\ g.promo # Null => /\ Type[g.promo] # "balance"
                                  /\ promo'[g.promo].item \in {Null, ItemOf[g.value]}
  <2>1. g \in Purchase /\ g.value \in r.rows /\ r.req.kind # "delete"
    BY <1>1 DEF Picked, Tx
  <2>2. g.value \in Values /\ g.promo \in Promos \cup {Null}
    BY <2>1 DEF Purchase
  <2>3. ItemOf[g.value] \in Goods \cap r.rows
    BY <1>1, <2>1, <2>2, StockAssumption DEF Ordered
  <2> QED
    BY <1>1, <1>2, <2>2, <2>3 DEF Priced
<1>4. ASSUME NEW p \in Promised(r) PROVE promo'[p].active
  BY <1>1 DEF Counting, Priced
<1>5. ASSUME Stocked(r)
      PROVE  /\ r.cost = Reduced(price'[Item_(r)], Given(r))
             /\ Given(r) # Null => /\ Type[Given(r)] # "balance"
                                   /\ promo'[Given(r)].item \in {Null, Item_(r)}
  <2>1. Fair(Item_(r), r.cost, Given(r)) /\ Item_(r) \in r.rows
    BY <1>1, <1>5 DEF Priced, Ordered
  <2>2. r.req \in Request /\ r.req.kind \in {"buy", "checkout"}
    BY <1>1, <1>5, RequestsAssumption DEF Stocked, Coherent
  <2>3. Given(r) \in Promos \cup {Null}
    BY <2>2 DEF Given, Request
  <2>4. Item_(r) \in Goods
    <3>1. CASE r.req.kind = "checkout"
      <4>1. r.line \in Lines
        BY <1>1, <1>5, <3>1 DEF Stocked, Coherent
      <4> QED
        BY <3>1, <4>1, CartAssumption DEF Item_
    <3>2. CASE r.req.kind = "buy"
      <4>1. r.req \in Requests
        BY <1>1, <1>5 DEF Stocked, Coherent
      <4> QED
        BY <2>2, <3>2, <4>1, RequestsAssumption DEF Item_, Request
    <3> QED
      BY <2>2, <3>1, <3>2
  <2> QED
    BY <1>2, <2>1, <2>3, <2>4
<1>6. tx'[t] = r
  OBVIOUS
<1> HIDE DEF r
<1>7. /\ IsFiniteSet(r.got) /\ r.total = Paid(r.got)
      /\ r.req.kind = "redeem" /\ r.at = "pay" => Type[r.req.promo] = "balance"
      /\ r.req.kind = "buy" /\ r.at = "pay" => r.got # {}
      /\ r.req.kind = "checkout" /\ r.at = "promo" => ItemOf[r.value] = Item_(r)
  BY <1>1 DEF Priced
<1> QED
  BY <1>3, <1>4, <1>5, <1>6, <1>7
  DEF Priced, Promised, Stocked, Fair, Apt, Given, Item_, Paid

\* A session ends; the others see the codes and the prices they have locked.
LEMMA EndPriced ==
  ASSUME Typed, ShopInv, NEW s \in Sessions, End(s), UNCHANGED price,
         \A p \in Promos : /\ promo'[p].active = promo[p].active
                           /\ promo'[p].item \in {Null, promo[p].item}
  PROVE  PricedInv'
<1>1. Put(s, Fresh("done")) /\ Fresh("done") \in Tx
  BY FreshTyped DEF End
<1>2. tx' = [tx EXCEPT ![s] = Fresh("done")] /\ tx \in [Sessions -> Tx]
  BY <1>1 DEF Put, Typed, TypeOK
<1>3. ASSUME NEW t \in Sessions PROVE Priced(tx[t])'
  <2>1. CASE t = s
    <3>1. tx'[t] = Fresh("done") /\ Fresh("done").got = {} /\ Fresh("done").at = "done"
          /\ Fresh("done").total = 0
      BY <1>2, <2>1 DEF Fresh
    <3>2. Promised(tx[t])' = {}
      BY <3>1 DEF Promised
    <3> QED
      BY <3>1, <3>2, PaidNothing DEF Priced, Stocked
  <2>2. CASE t # s
    BY <1>2, <2>2, OtherPriced DEF ShopInv
  <2> QED
    BY <2>1, <2>2
<1> QED
  BY <1>3 DEF PricedInv

\* A commit changes of a code nothing but its counter.
LEMMA WritePriced ==
  ASSUME Typed, ShopInv, NEW s \in Sessions, End(s), UNCHANGED price,
         NEW a, NEW P, Write(s, a, P)
  PROVE  PricedInv'
<1>1. promo \in [Promos -> PromoRow]
  BY DEF Typed, TypeOK, TablesOK
<1>2. \A p \in Promos : promo'[p].active = promo[p].active /\ promo'[p].item = promo[p].item
  BY <1>1 DEF Write, PromoRow
<1> QED
  BY <1>2, EndPriced

\* One more purchase at its price.
LEMMA ClaimPriced ==
  ASSUME Typed, ShopInv, NEW s \in Sessions, NEW r, NEW n,
         r.got = tx[s].got \cup {n}, r.total = tx[s].total + n.price,
         r.req = tx[s].req, ~ Stocked(r),
         n.price \in Int, \A g \in tx[s].got : g.value # n.value,
         Fair(ItemOf[n.value], n.price, n.promo),
         \A p \in Promised(r) : promo[p].active,
         r.at = "pay" => r.req.kind # "redeem"
  PROVE  Priced(r)
<1>1. tx[s] \in Tx /\ Priced(tx[s])
  BY DEF Typed, TypeOK, ShopInv, PricedInv
<1>2. \A g \in tx[s].got : g.price \in Int
  BY <1>1 DEF Tx, Purchase
<1>3. n \notin tx[s].got
  OBVIOUS
<1>4. IsFiniteSet(tx[s].got) /\ tx[s].total = Paid(tx[s].got)
  BY <1>1 DEF Priced
<1>5. IsFiniteSet(r.got) /\ r.total = Paid(r.got)
  BY <1>2, <1>3, <1>4, PaidMore
<1>6. \A g \in r.got : Fair(ItemOf[g.value], g.price, g.promo)
  BY <1>1 DEF Priced
<1> QED
  BY <1>5, <1>6 DEF Priced, Stocked

\* Every step of a session keeps its prices and its codes.
LEMMA StepPriced ==
  ASSUME Typed, ShopInv, NEW s \in Sessions, Step(s)
  PROVE  PricedInv'
<1>0. /\ tx[s] \in Tx /\ Coherent(tx[s]) /\ Picked(tx[s]) /\ Counting(tx[s])
      /\ One(tx[s]) /\ Priced(tx[s]) /\ Kind(s) = tx[s].req.kind
      /\ Item(s) = Item_(tx[s]) /\ Code(s) = Code_(tx[s])
  BY DEF Typed, TypeOK, ShopInv, StockInv, PromoInv, PricedInv, Kind, Item, Code,
         Item_, Code_
<1> USE DEF db, goodsVars, promoVars
<1>1. ASSUME NEW r \in Tx, r.req = tx[s].req, r.got = tx[s].got,
             r.total = tx[s].total, Promised(r) \subseteq Promised(tx[s]),
             ~ Stocked(r), r.at = "pay" => r.req.kind = "input"
      PROVE  Priced(r)
  BY <1>0, <1>1 DEF Priced, Stocked
<1>2. ASSUME NEW r \in Tx, Put(s, r), Priced(r), UNCHANGED <<price, promo>>
      PROVE  PricedInv'
  BY <1>2, PutPriced DEF ShopInv
<1>3. ASSUME End(s), UNCHANGED <<price, promo>> PROVE PricedInv'
  BY <1>3, EndPriced
<1>4. CASE LockUser(s)
  <2>1. tx[s].at = "user" /\ UNCHANGED <<price, promo>>
    BY <1>4 DEF LockUser
  <2>2. ASSUME NEW r \in Tx, Put(s, r), r.req = tx[s].req, r.got = tx[s].got,
               r.total = tx[s].total, r.at \in {"line", "goods", "promo", "pay"},
               r.at = "pay" => r.req.kind = "input",
               r.at = "promo" => r.req.kind = "redeem"
        PROVE  PricedInv'
    <3>1. Promised(r) \subseteq Promised(tx[s]) /\ ~ Stocked(r)
      BY <2>1, <2>2 DEF Promised, Stocked
    <3> QED
      BY <1>1, <1>2, <2>1, <2>2, <3>1
  <2> QED
    BY <1>3, <1>4, <2>1, <2>2, LockUserStep
<1>5. CASE NextLine(s)
  <2>1. UNCHANGED <<price, promo>>
    BY <1>5 DEF NextLine
  <2>2. PICK r \in Tx : /\ Put(s, r) /\ r.at = "goods" /\ r.req = tx[s].req
                        /\ r.got = tx[s].got /\ r.total = tx[s].total
    BY <1>5, NextLineStep
  <2>3. Promised(r) \subseteq Promised(tx[s]) /\ ~ Stocked(r)
    BY <2>2 DEF Promised, Stocked
  <2>4. Priced(r)
    BY <1>1, <2>2, <2>3
  <2> QED
    BY <1>2, <2>1, <2>2, <2>4
<1>6. ASSUME tx[s].at \in {"goods", "values"}, Unavailable(s), UNCHANGED <<price, promo>>
      PROVE  PricedInv'
  <2>1. CASE End(s)
    BY <1>3, <1>6, <2>1
  <2>2. ASSUME NEW r \in Tx, Put(s, r), r.at = "line", r.req = tx[s].req,
               r.got = tx[s].got, r.total = tx[s].total
        PROVE  PricedInv'
    <3>1. Promised(r) \subseteq Promised(tx[s]) /\ ~ Stocked(r)
      BY <2>2 DEF Promised, Stocked
    <3> QED
      BY <1>1, <1>2, <1>6, <2>2, <3>1
  <2> QED
    BY <1>6, <2>1, <2>2, UnavailableStep
<1>7. CASE LockGoods(s)
  <2>1. tx[s].at = "goods" /\ UNCHANGED <<price, promo>>
    BY <1>7 DEF LockGoods
  <2>2. ASSUME NEW r \in Tx, Put(s, r), r.req = tx[s].req, r.got = tx[s].got,
               r.at \in {"promo", "values"}, r.total = tx[s].total, r.line = tx[s].line,
               r.cost = price[Item(s)], r.at = "promo" => r.req.kind = "buy",
               r.at = "values" /\ r.req.kind = "buy" => r.req.promo = Null
        PROVE  PricedInv'
    <3>1. Promised(r) \subseteq Promised(tx[s])
      BY <2>2 DEF Promised
    <3>2. Item_(r) = Item(s)
      BY <1>0, <2>2 DEF Item_
    <3>3. Given(r) = Null
      BY <2>2 DEF Given
    <3>4. Fair(Item_(r), r.cost, Given(r))
      BY <2>2, <3>2, <3>3 DEF Fair, Reduced
    <3>5. Priced(r)
      BY <1>0, <2>2, <3>1, <3>4 DEF Priced
    <3> QED
      BY <1>2, <2>1, <2>2, <3>5
  <2> QED
    BY <1>3, <1>6, <1>7, <2>1, <2>2, LockGoodsStep
<1>8. CASE LockValues(s)
  <2>1. /\ tx[s].at = "values" /\ UNCHANGED <<price, promo>>
        /\ tx[s].req.kind \in {"buy", "checkout"}
    BY <1>0, <1>8 DEF LockValues, Coherent
  <2>2. Fair(Item(s), tx[s].cost, Given(tx[s]))
    BY <1>0, <2>1 DEF Priced, Stocked
  <2>3. ASSUME NEW r \in Tx, NEW v \in Offer(s), Put(s, r), r.req = tx[s].req,
               r.at \in {"pay", "promo", "line"}, r.line = tx[s].line,
               r.at = "pay" <=> r.req.kind = "buy",
               r.at = "promo" => /\ r.got = tx[s].got /\ r.total = tx[s].total
                                 /\ r.value = v /\ r.cost = tx[s].cost,
               r.at # "promo" =>
                   /\ r.total = tx[s].total + tx[s].cost
                   /\ r.got = tx[s].got \cup {[line |-> r.line, value |-> v,
                        price |-> tx[s].cost,
                        promo |-> IF r.req.kind = "buy" THEN Code(s) ELSE Null]}
        PROVE  PricedInv'
    <3>1. ItemOf[v] = Item(s) /\ \A g \in tx[s].got : g.value # v
      BY DEF Offer, Claimed
    <3>2. Item_(r) = Item(s)
      BY <1>0, <2>3 DEF Item_
    <3>3. CASE r.at = "promo"
      <4>1. Promised(r) \subseteq Promised(tx[s])
        BY <2>3, <3>3 DEF Promised
      <4>2. r.req.kind # "buy" /\ Given(r) = Null /\ Given(tx[s]) = Null
        BY <2>3, <3>3 DEF Given
      <4>3. Fair(Item_(r), r.cost, Given(r))
        BY <2>2, <2>3, <3>2, <3>3, <4>2
      <4>4. Priced(r)
        BY <1>0, <2>3, <3>1, <3>2, <3>3, <4>1, <4>3 DEF Priced
      <4> QED
        BY <1>2, <2>1, <2>3, <4>4
    <3>4. CASE r.at # "promo"
      <4> DEFINE n == [line |-> r.line, value |-> v, price |-> tx[s].cost,
                       promo |-> IF r.req.kind = "buy" THEN Code(s) ELSE Null]
      <4>1. n.promo = Given(tx[s])
        BY <1>0, <2>1, <2>3 DEF Given, Code_
      <4>2. n.value = v /\ n.price = tx[s].cost /\ tx[s].cost \in Int
        BY <1>0 DEF Tx
      <4>3. r.got = tx[s].got \cup {n}
        BY <2>3, <3>4
      <4> HIDE DEF n
      <4>4. Promised(r) \subseteq Promised(tx[s])
        BY <2>1, <2>3, <3>4, <4>1, <4>3 DEF Promised, Given
      <4>5. Fair(ItemOf[n.value], n.price, n.promo)
        BY <2>2, <3>1, <4>1, <4>2
      <4>6. \A p \in Promised(r) : promo[p].active
        BY <1>0, <4>4 DEF Priced
      <4>7. ~ Stocked(r) /\ r.req.kind # "redeem"
        BY <2>1, <2>3, <3>4 DEF Stocked
      <4>8. \A g \in tx[s].got : g.value # n.value
        BY <3>1, <4>2
      <4>9. r.total = tx[s].total + n.price
        BY <2>3, <3>4, <4>2
      <4>10. Priced(r)
        BY <2>3, <4>2, <4>3, <4>5, <4>6, <4>7, <4>8, <4>9, ClaimPriced
      <4> QED
        BY <1>2, <2>1, <2>3, <4>10
    <3> QED
      BY <3>3, <3>4
  <2> QED
    BY <1>6, <1>8, <2>1, <2>3, LockValuesStep
<1>9. CASE LockPromo(s)
  <2>1. tx[s].at = "promo" /\ UNCHANGED <<price, promo>>
    BY <1>9 DEF LockPromo
  <2> DEFINE p == Code(s)
  <2>2. p \in Promos /\ p # Null
    BY <1>0, <2>1, SessionFacts, RowsAssumption DEF Coherent, Rows
  <2>3. ASSUME NEW r \in Tx, Put(s, r), Valid(s, p), r.req = tx[s].req,
               r.line = tx[s].line,
               \/ r.at = "pay" /\ r.req.kind = "redeem"
               \/ r.at = "user" /\ r.req.kind = "input"
               \/ r.at = "values" /\ r.req.kind = "buy"
               \/ r.at = "line" /\ r.req.kind = "checkout",
               r.at # "line" => r.got = tx[s].got /\ r.total = tx[s].total,
               r.at = "values" => r.cost = Reduced(tx[s].cost, p),
               r.at = "line" =>
                 /\ r.total = tx[s].total + Reduced(tx[s].cost, p)
                 /\ r.got = tx[s].got \cup {[line |-> r.line, value |-> tx[s].value,
                        price |-> Reduced(tx[s].cost, p), promo |-> p]}
        PROVE  PricedInv'
    <3>1. promo[p].active /\ (r.req.kind = "redeem" => Type[p] = "balance")
      BY <1>0, <2>3 DEF Valid
    <3>2. r.req.kind \in {"buy", "checkout"} =>
            /\ Apt(p, Item(s)) /\ tx[s].cost = price[Item(s)]
      <4>1. ASSUME r.req.kind \in {"buy", "checkout"} PROVE tx[s].cost = price[Item(s)]
        <5>1. Stocked(tx[s]) /\ Given(tx[s]) = Null
          BY <2>1, <2>3, <4>1 DEF Stocked, Given
        <5> QED
          BY <1>0, <5>1 DEF Priced, Fair, Reduced
      <4>2. ASSUME r.req.kind \in {"buy", "checkout"} PROVE Apt(p, Item(s))
        BY <1>0, <2>3, <4>2 DEF Valid, Apt
      <4> QED
        BY <4>1, <4>2
    <3>3. CASE r.at # "line"
      <4>1. p = r.req.promo
        BY <1>0, <2>3, <3>3 DEF Code_
      <4>2. Promised(r) \subseteq Promised(tx[s]) \cup {p}
        BY <2>3, <3>3, <4>1 DEF Promised
      <4>3. \A q \in Promised(r) : promo[q].active
        BY <1>0, <3>1, <4>2 DEF Priced
      <4>4. ASSUME Stocked(r) PROVE Fair(Item_(r), r.cost, Given(r))
        <5>1. r.at = "values" /\ r.req.kind = "buy"
          BY <2>3, <4>4 DEF Stocked
        <5>2. Given(r) = p /\ Item_(r) = Item(s)
          BY <1>0, <2>3, <4>1, <5>1 DEF Given, Item_
        <5> HIDE DEF p
        <5> QED
          BY <2>3, <3>2, <5>1, <5>2 DEF Fair
      <4>5. r.req.kind = "redeem" /\ r.at = "pay" => Type[r.req.promo] = "balance"
        BY <3>1, <4>1
      <4>6. IsFiniteSet(r.got) /\ r.total = Paid(r.got)
            /\ \A g \in r.got : Fair(ItemOf[g.value], g.price, g.promo)
        BY <1>0, <2>3, <3>3 DEF Priced
      <4>7. /\ ~ (r.req.kind = "buy" /\ r.at = "pay")
            /\ ~ (r.req.kind = "checkout" /\ r.at = "promo")
        BY <2>3
      <4>8. Priced(r)
        BY <4>3, <4>4, <4>5, <4>6, <4>7 DEF Priced
      <4> QED
        BY <1>2, <2>1, <2>3, <4>8
    <3>4. CASE r.at = "line"
      <4> DEFINE n == [line |-> r.line, value |-> tx[s].value,
                       price |-> Reduced(tx[s].cost, p), promo |-> p]
      <4>1. /\ n.promo = p /\ n.value = tx[s].value /\ n.price = Reduced(tx[s].cost, p)
            /\ r.got = tx[s].got \cup {n} /\ r.req.kind = "checkout"
        BY <2>3, <3>4
      <4> HIDE DEF n
      <4>2. Reduced(tx[s].cost, p) \in Int
        BY <1>0, <2>2, ReducedNat DEF Tx
      <4> HIDE DEF p
      <4>3. Promised(r) \subseteq Promised(tx[s]) \cup {p}
        BY <3>4, <4>1 DEF Promised
      <4>4. \A q \in Promised(r) : promo[q].active
        BY <1>0, <3>1, <4>3 DEF Priced
      <4>5. ItemOf[n.value] = Item(s) /\ \A g \in tx[s].got : g.value # n.value
        BY <1>0, <2>1, <2>3, <4>1 DEF Priced, Picked
      <4>6. Fair(ItemOf[n.value], n.price, n.promo)
        BY <3>2, <4>1, <4>5 DEF Fair
      <4>7. ~ Stocked(r) /\ r.total = tx[s].total + n.price /\ n.price \in Int
        BY <2>3, <3>4, <4>1, <4>2 DEF Stocked
      <4>8. Priced(r)
        BY <2>3, <3>4, <4>1, <4>4, <4>5, <4>6, <4>7, ClaimPriced
      <4> QED
        BY <1>2, <2>1, <2>3, <4>8
    <3> QED
      BY <3>3, <3>4
  <2> QED
    BY <1>3, <1>9, <2>1, <2>3, LockPromoStep
<1>10. CASE CommitBuy(s) \/ CommitCheckout(s) \/ CommitPromo(s)
  BY <1>10, WritePriced DEF CommitBuy, CommitCheckout, CommitPromo, Sell
<1>11. CASE CommitEmpty(s) \/ RefuseCheckout(s) \/ InsertLine(s)
  BY <1>3, <1>11 DEF CommitEmpty, RefuseCheckout, InsertLine, Rollback
<1>12. CASE CountLines(s)
  <2>1. UNCHANGED <<price, promo>>
    BY <1>12 DEF CountLines
  <2>2. ASSUME NEW r \in Tx, Put(s, r), r.at = "insert", r.req = tx[s].req,
               r.got = tx[s].got, r.total = tx[s].total
        PROVE  PricedInv'
    <3>1. Promised(r) \subseteq Promised(tx[s]) /\ ~ Stocked(r)
      BY <2>2 DEF Promised, Stocked
    <3> QED
      BY <1>1, <1>2, <2>1, <2>2, <3>1
  <2> QED
    BY <1>3, <1>12, <2>1, <2>2, CountLinesStep
<1>13. CASE LockDropped(s) \/ LoadDropped(s)
  <2>1. UNCHANGED <<price, promo>>
    BY <1>13, DroppedReady DEF db, goodsVars, promoVars
  <2>2. ASSUME NEW r \in Tx, Put(s, r), r.at \in {"drop.rest", "drop.goods", "drop.promos"},
               r.req = tx[s].req, r.got = tx[s].got, r.total = tx[s].total
        PROVE  PricedInv'
    <3>1. Promised(r) \subseteq Promised(tx[s]) /\ ~ Stocked(r)
      BY <2>2 DEF Promised, Stocked
    <3> QED
      BY <1>1, <1>2, <2>1, <2>2, <3>1
  <2> QED
    BY <1>3, <1>13, <2>1, <2>2, LockDroppedStep
<1>14. CASE DropItem(s)
  <2>1. /\ End(s) /\ UNCHANGED price
        /\ promo' = [p \in Promos |-> IF promo[p].item = Item(s)
                       THEN [promo[p] EXCEPT !.item = Null] ELSE promo[p]]
    BY <1>14 DEF DropItem
  <2>2. promo \in [Promos -> PromoRow]
    BY DEF Typed, TypeOK, TablesOK
  <2>3. \A p \in Promos : /\ promo'[p].active = promo[p].active
                          /\ promo'[p].item \in {Null, promo[p].item}
    BY <2>1, <2>2 DEF PromoRow
  <2> QED
    BY <2>1, <2>3, EndPriced
<1> QED
  BY <1>4, <1>5, <1>7, <1>8, <1>9, <1>10, <1>11, <1>12, <1>13, <1>14 DEF Step

\* The administrator waits for whoever holds an item or a code.
LEMMA AdminPriced ==
  ASSUME Typed, ShopInv, Admin PROVE PricedInv'
<1>0. /\ tx' = tx /\ price \in [Goods -> Nat] /\ promo \in [Promos -> PromoRow]
  BY AdminTyped DEF Typed, TypeOK, TablesOK
<1> USE DEF goodsVars, promoVars
<1>1. ASSUME \A t \in Sessions : \A i \in Goods \cap tx[t].rows : price'[i] = price[i],
             \A t \in Sessions : \A p \in Promos \cap tx[t].rows :
               promo'[p].active = promo[p].active,
             \A p \in Promos : promo'[p].item = promo[p].item
      PROVE  PricedInv'
  <2>1. ASSUME NEW t \in Sessions PROVE Priced(tx[t])'
    BY <1>0, <1>1, OtherPriced DEF ShopInv
  <2> QED
    BY <2>1 DEF PricedInv
<1>2. ASSUME NEW g \in Goods, UpdateItem(g) PROVE PricedInv'
  <2>1. /\ ~ Held({g}) /\ UNCHANGED promo
        /\ \E c : price' = [price EXCEPT ![g] = c]
    BY <1>2 DEF UpdateItem
  <2>2. \A t \in Sessions : \A i \in Goods \cap tx[t].rows : price'[i] = price[i]
    BY <1>0, <2>1 DEF Held
  <2> QED
    BY <1>1, <2>1, <2>2
<1>3. ASSUME NEW p \in Promos, TogglePromo(p) \/ DeletePromo(p) PROVE PricedInv'
  <2>1. ~ Held({p}) /\ UNCHANGED price
    BY <1>3 DEF TogglePromo, DeletePromo
  <2>2. \A q \in Promos : promo'[q].item = promo[q].item
                          /\ (q # p => promo'[q].active = promo[q].active)
    BY <1>0, <1>3 DEF TogglePromo, DeletePromo, PromoRow
  <2>3. \A t \in Sessions : p \notin tx[t].rows
    BY <2>1 DEF Held
  <2> QED
    BY <1>1, <2>1, <2>2, <2>3
<1>4. ASSUME UNCHANGED <<price, promo>> PROVE PricedInv'
  BY <1>1, <1>4
<1> QED
  BY <1>2, <1>3, <1>4 DEF Admin, AdminBalanceChange, AddValue, DeleteValues,
     RemoveLines, Expire

\* The shop starts with nothing priced.
LEMMA InitPriced == Init => PricedInv
BY FreshPriced DEF Init, PricedInv

\* So does every step of the system.
LEMMA NextShopInv == Typed /\ ShopInv /\ [Next]_vars => ShopInv'
<1> SUFFICES ASSUME Typed, ShopInv, [Next]_vars PROVE ShopInv'
  OBVIOUS
<1>1. MoneyInv' /\ StockInv' /\ PromoInv' /\ OrderInv'
  BY NextMoney, NextStock, NextPromo, NextOrdered DEF ShopInv
<1>2. ASSUME NEW s \in Sessions, Step(s) PROVE PricedInv'
  BY <1>2, StepPriced
<1>3. ASSUME NEW s \in Sessions, Victim(s) \/ Fail(s) PROVE PricedInv'
  <2>1. End(s) /\ UNCHANGED <<price, promo>>
    BY <1>3 DEF Victim, Fail, Rollback, db, goodsVars, promoVars
  <2> QED
    BY <2>1, EndPriced
<1>4. ASSUME NEW s \in Sessions, NEW q \in Requests, Begin(s, q) PROVE PricedInv'
  <2> DEFINE p == CASE q.kind \in {"checkout", "buy", "redeem"} -> "user"
                    [] q.kind = "input"  -> "promo"
                    [] q.kind = "add"    -> "count"
                    [] q.kind = "delete" -> "drop.values"
             r == [Fresh(p) EXCEPT !.req = q]
  <2>1. Put(s, r) /\ UNCHANGED <<price, promo>>
    BY <1>4 DEF Begin, db, goodsVars, promoVars
  <2>2. r \in Tx
    BY <1>4, <2>1, BeginTyped DEF Put, Typed, TypeOK
  <2>3. /\ q.kind = "checkout" => p = "user"
        /\ q.kind = "buy" => p = "user"
        /\ q.kind = "redeem" => p = "user"
        /\ q.kind = "input" => p = "promo"
        /\ q.kind = "add" => p = "count"
        /\ q.kind = "delete" => p = "drop.values"
    OBVIOUS
  <2>4. q.kind \in Kinds
    BY RequestsAssumption DEF Request
  <2> HIDE DEF p
  <2>5. r.at = p /\ r.got = {} /\ r.req = q /\ r.total = 0
    BY DEF Fresh
  <2> HIDE DEF r
  <2>6. Promised(r) = {} /\ ~ Stocked(r) /\ r.at # "pay"
        /\ ~ (r.req.kind = "checkout" /\ r.at = "promo")
    BY <2>3, <2>4, <2>5 DEF Promised, Stocked, Kinds
  <2>7. Priced(r)
    BY <2>5, <2>6, PaidNothing DEF Priced
  <2> QED
    BY <2>1, <2>2, <2>7, PutPriced DEF ShopInv
<1>5. ASSUME Admin PROVE PricedInv'
  BY <1>5, AdminPriced
<1>6. ASSUME UNCHANGED vars PROVE PricedInv'
  <2>1. UNCHANGED <<price, promo, tx>>
    BY <1>6 DEF vars, db, goodsVars, promoVars
  <2>2. \A s \in Sessions : Priced(tx[s])'
    BY <2>1, OtherPriced DEF ShopInv
  <2> QED
    BY <2>2 DEF PricedInv
<1>7. PricedInv'
  BY <1>2, <1>3, <1>4, <1>5, <1>6 DEF Next
<1> QED
  BY <1>1, <1>7 DEF ShopInv

-----------------------------------------------------------------------------
(* The steps of the transactions as steps of Shop *)

\* What a session will buy, as deals of Shop.
Deal(g) == [value |-> g.value, promo |-> g.promo]
Dealt(s) == {Deal(g) : g \in tx[s].got}

\* A code a session has promised a usage of is usable at its commit.
LEMMA PromisedUsable ==
  ASSUME Typed, ShopInv, NEW s \in Sessions, NEW p \in Promised(tx[s])
  PROVE  p \in Promos /\ Promise!Usable(p, User(s))
BY DEF ShopInv, PromoInv, Counting, PricedInv, Priced, Promise!Usable, User

\* The deals exist, at the prices the session has computed, no row and no code twice.
LEMMA DealtFair ==
  ASSUME Typed, ShopInv, NEW s \in Sessions, tx[s].req.kind # "delete",
         \A g, h \in tx[s].got : g # h => g.promo # h.promo \/ g.promo = Null
  PROVE  /\ Dealt(s) \subseteq Promise!Deals(User(s))
         /\ Promise!Distinct(Dealt(s))
         /\ Promise!MapThenSumSet(Promise!Cost, Dealt(s)) = tx[s].total
<1> DEFINE G == tx[s].got
           D == Dealt(s)
<1>0. /\ tx[s] \in Tx /\ Picked(tx[s]) /\ Priced(tx[s])
  BY DEF Typed, TypeOK, ShopInv, StockInv, PricedInv
<1>1. \A g \in G : /\ g \in Purchase /\ g.value \in stock /\ g.promo \in Promos \cup {Null}
                   /\ Fair(ItemOf[g.value], g.price, g.promo) /\ g.price \in Nat
  BY <1>0 DEF Picked, Priced, Tx, Purchase
<1>2. \A g \in G : g.promo # Null => g.promo \in Promised(tx[s])
  BY DEF Promised
<1>3. \A g : Deal(g).value = g.value /\ Deal(g).promo = g.promo
  BY DEF Deal
<1>4. ASSUME NEW g \in G PROVE Deal(g) \in Promise!Deals(User(s))
  <2>1. g.promo \in {p \in Promos : Promise!Usable(p, User(s))} \cup {Null}
    BY <1>2, PromisedUsable
  <2>2. Deal(g) \in [value : stock, promo : {p \in Promos : Promise!Usable(p, User(s))}
                                              \cup {Null}]
    BY <1>1, <2>1 DEF Deal
  <2>3. Deal(g).promo # Null => /\ Type[Deal(g).promo] # "balance"
                                /\ promo[Deal(g).promo].item
                                     \in {Null, ItemOf[Deal(g).value]}
    BY <1>1, <1>3 DEF Fair, Apt
  <2> QED
    BY <2>2, <2>3 DEF Promise!Deals
<1>5. D \subseteq Promise!Deals(User(s))
  BY <1>4 DEF Dealt
<1>6. \A g, h \in G : g.value = h.value => g = h
  BY <1>0 DEF Picked
<1>7. Promise!Distinct(D)
  <2> SUFFICES ASSUME NEW d \in D, NEW e \in D, d # e
               PROVE  d.value # e.value /\ (d.promo # e.promo \/ d.promo = Null)
    BY DEF Promise!Distinct
  <2>1. PICK g \in G, h \in G : d = Deal(g) /\ e = Deal(h)
    BY DEF Dealt
  <2>2. g # h
    BY <2>1
  <2> QED
    BY <1>3, <1>6, <2>1, <2>2
<1>8. Promise!MapThenSumSet(Promise!Cost, D) = tx[s].total
  <2> DEFINE f == [g \in G |-> g.price]
             c == [d \in D |-> Promise!Cost(d)]
             b == [g \in G |-> Deal(g)]
  <2>1. IsFiniteSet(G) /\ tx[s].total = Sum(f)
    BY <1>0 DEF Priced, Paid
  <2>2. \A g \in G : Promise!Cost(Deal(g)) = g.price
    BY <1>1, <1>3 DEF Promise!Cost, Fair
  <2>3. b \in Surjection(G, D)
    BY DEF Surjection, Dealt
  <2>4. IsFiniteSet(D)
    BY <2>1, <2>3, FS_Surjection
  <2>5. /\ DOMAIN c = {b[g] : g \in G}
        /\ \A g, h \in G : b[g] = b[h] => g = h
    <3>1. \A g \in G : b[g] = Deal(g) /\ b[g].value = g.value
      BY <1>3
    <3>2. DOMAIN c = {Deal(g) : g \in G}
      BY DEF Dealt
    <3> HIDE DEF b
    <3> QED
      BY <1>6, <3>1, <3>2
  <2>6. \A g \in G : c[b[g]] = f[g] /\ f[g] \in Int
    BY <1>1, <2>2 DEF Dealt
  <2>7. DOMAIN f = G
    OBVIOUS
  <2> HIDE DEF b, c, f
  <2>8. Sum(c) = Sum(f)
    BY <2>1, <2>5, <2>6, <2>7, SumRenamed
  <2> QED
    BY <2>1, <2>4, <2>8, CostSum DEF c
<1> QED
  BY <1>5, <1>7, <1>8

\* A commit that sells is one purchase of Shop, however long it took to prepare.
LEMMA SellBuys ==
  ASSUME Typed, ShopInv, NEW s \in Sessions, Reading(tx[s]), tx[s].req.kind # "delete",
         \A g, h \in tx[s].got : g # h => g.promo # h.promo \/ g.promo = Null,
         tx[s].got # {}, tx[s].total <= tx[s].bal, Sell(s), UNCHANGED price
  PROVE  User(s) \in Users /\ Promise!Buy(User(s))
<1> DEFINE u == User(s)
           D == Dealt(s)
           codes == {d.promo : d \in D} \ {Null}
<1>1. /\ u \in Users /\ tx[s] \in Tx /\ Current(tx[s]) /\ Counting(tx[s])
      /\ balance \in [Users -> Int] /\ promo \in [Promos -> PromoRow]
  BY SessionFacts DEF Typed, TypeOK, TablesOK, ShopInv, MoneyInv, PromoInv, Reading
<1>2. tx[s].bal = balance[u] /\ tx[s].total \in Int /\ tx[s].bal \in Int
  BY <1>1 DEF Current, User, Tx
<1>3. /\ D \subseteq Promise!Deals(u) /\ Promise!Distinct(D)
      /\ Promise!MapThenSumSet(Promise!Cost, D) = tx[s].total
  BY DealtFair
<1>4. \A g : Deal(g).value = g.value /\ Deal(g).promo = g.promo
  BY DEF Deal
<1>5. D # {} /\ {d.value : d \in D} = Claimed(s) /\ codes = Codes(s)
  BY <1>4 DEF Dealt, Claimed, Codes
<1>6. Write(s, 0 - tx[s].total, Codes(s)) /\ stock' = stock \ (Claimed(s) \ Infinite)
  BY DEF Sell
<1>7. balance' = [balance EXCEPT ![u] = balance[u] - tx[s].total]
  <2>1. tx[s].bal + (0 - tx[s].total) = balance[u] - tx[s].total
    BY <1>2
  <2> QED
    BY <1>6, <2>1 DEF Write
<1>8. Promise!UseCodes(codes, u)
  <2>1. \A p \in Codes(s) : tx[s].uses[p] = promo[p].uses
    BY <1>1 DEF Counting, Codes, Promised
  <2>2. promo' = [p \in Promos |-> IF p \in Codes(s)
                    THEN [promo[p] EXCEPT !.uses = tx[s].uses[p] + 1] ELSE promo[p]]
    BY <1>6 DEF Write
  <2>3. \A p \in Codes(s) : [promo[p] EXCEPT !.uses = tx[s].uses[p] + 1]
                              = [promo[p] EXCEPT !.uses = @ + 1]
    BY <2>1
  <2>4. promo' = [p \in Promos |-> IF p \in Codes(s)
                    THEN [promo[p] EXCEPT !.uses = @ + 1] ELSE promo[p]]
    BY <2>2, <2>3
  <2>5. used' = used \cup (Codes(s) \X {u})
    BY <1>6 DEF Write
  <2> HIDE DEF codes, u
  <2> QED
    BY <1>5, <2>4, <2>5 DEF Promise!UseCodes
<1> HIDE DEF D, codes, u
<1>9. Promise!MapThenSumSet(Promise!Cost, D) <= balance[u]
  BY <1>2, <1>3
<1> QED
  BY <1>1, <1>3, <1>5, <1>6, <1>7, <1>8, <1>9 DEF Promise!Buy, codes, u

\* The two commits of a promo code that tops up the balance are a redemption.
LEMMA PromoRedeems ==
  ASSUME Typed, ShopInv, NEW s \in Sessions, CommitPromo(s)
  PROVE  User(s) \in Users /\ Code(s) \in Promos /\ Promise!Redeem(User(s), Code(s))
<1> DEFINE u == User(s)
           p == Code(s)
<1>1. /\ tx[s].at = "pay" /\ Kind(s) \in {"redeem", "input"}
      /\ Kind(s) = tx[s].req.kind /\ tx[s].req \in Request
      /\ u \in Users /\ tx[s] \in Tx /\ Coherent(tx[s])
      /\ Current(tx[s]) /\ Counting(tx[s]) /\ Priced(tx[s])
      /\ balance \in [Users -> Int] /\ promo \in [Promos -> PromoRow]
  BY SessionFacts DEF CommitPromo, Typed, TypeOK, TablesOK, ShopInv, MoneyInv, PromoInv,
     PricedInv
<1>2. p = tx[s].req.promo /\ p \in Promos
  BY <1>1 DEF Code, Coherent
<1>3. p \in Promised(tx[s])
  BY <1>1, <1>2, RowsAssumption DEF Promised, Rows
<1>4. tx[s].bal = balance[u] /\ tx[s].uses[p] = promo[p].uses
  BY <1>1, <1>3 DEF Current, User, Reading, Counting
<1>5. Promise!Usable(p, u)
  BY <1>3, PromisedUsable
<1>6. /\ balance' = [balance EXCEPT ![u] = balance[u] + Bonus(balance[u], p)]
      /\ UNCHANGED <<price, stock>>
  <2>1. Kind(s) = "redeem" => Worth[p] = Bonus(balance[u], p)
    BY <1>1, <1>2 DEF Priced, Bonus
  <2>2. Write(s, Bonus(balance[u], p), {p})
    BY <1>4, <2>1 DEF CommitPromo
  <2> QED
    BY <1>4, <2>2 DEF Write, CommitPromo, goodsVars
<1>7. Promise!UseCodes({p}, u)
  <2>1. PICK a : Write(s, a, {p})
    BY DEF CommitPromo
  <2>2. promo' = [q \in Promos |-> IF q \in {p}
                    THEN [promo[q] EXCEPT !.uses = tx[s].uses[q] + 1] ELSE promo[q]]
        /\ used' = used \cup ({p} \X {u})
    BY <2>1 DEF Write
  <2>3. \A q \in {p} : [promo[q] EXCEPT !.uses = tx[s].uses[q] + 1]
                         = [promo[q] EXCEPT !.uses = @ + 1]
    BY <1>4
  <2>4. promo' = [q \in Promos |-> IF q \in {p}
                    THEN [promo[q] EXCEPT !.uses = @ + 1] ELSE promo[q]]
    BY <2>2, <2>3
  <2> QED
    BY <2>2, <2>4 DEF Promise!UseCodes
<1> HIDE DEF u, p
<1> QED
  BY <1>1, <1>2, <1>5, <1>6, <1>7 DEF Promise!Redeem, u, p

\* Every step of a session is a purchase, a redemption or a deletion of Shop, or not
\* seen there.
LEMMA StepShop ==
  ASSUME Typed, ShopInv, NEW s \in Sessions, Step(s)
  PROVE  Promise!Next \/ UNCHANGED Promise!vars
<1> USE DEF db, goodsVars, promoVars
<1>0. /\ tx[s] \in Tx /\ Coherent(tx[s]) /\ Covered(tx[s]) /\ One(tx[s])
      /\ Priced(tx[s]) /\ Kind(s) = tx[s].req.kind
  BY DEF Typed, TypeOK, ShopInv, MoneyInv, PromoInv, PricedInv, Kind
<1>1. ASSUME UNCHANGED <<balance, price, stock, promo, used>>
      PROVE  UNCHANGED Promise!vars
  BY <1>1 DEF Promise!vars
<1>2. CASE CommitBuy(s)
  <2>1. tx[s].at = "pay" /\ tx[s].req.kind = "buy" /\ Sell(s) /\ UNCHANGED price
    BY <1>0, <1>2 DEF CommitBuy
  <2>2. /\ Reading(tx[s]) /\ tx[s].got # {} /\ tx[s].total <= tx[s].bal
        /\ \A g, h \in tx[s].got : g # h => g.promo # h.promo \/ g.promo = Null
    BY <1>0, <2>1 DEF Reading, Priced, Covered, One
  <2> QED
    BY <2>1, <2>2, SellBuys DEF Promise!Next
<1>3. CASE CommitCheckout(s)
  <2>1. /\ tx[s].at = "line" /\ Sell(s) /\ UNCHANGED price
        /\ tx[s].got # {} /\ ~ Broke(s)
    BY <1>3 DEF CommitCheckout
  <2>2. /\ Reading(tx[s]) /\ tx[s].req.kind = "checkout" /\ tx[s].total <= tx[s].bal
        /\ \A g, h \in tx[s].got : g # h => g.promo # h.promo \/ g.promo = Null
    BY <1>0, <2>1 DEF Reading, Coherent, Broke, Tx
  <2> QED
    BY <2>1, <2>2, SellBuys DEF Promise!Next
<1>4. CASE CommitPromo(s)
  BY <1>4, PromoRedeems DEF Promise!Next
<1>5. CASE DropItem(s)
  <2>1. /\ UNCHANGED <<balance, price, used>> /\ stock' \subseteq stock
        /\ promo' = [p \in Promos |-> IF promo[p].item = Item(s)
                       THEN [promo[p] EXCEPT !.item = Null] ELSE promo[p]]
    BY <1>5 DEF DropItem
  <2>2. \A p \in Promos : promo'[p] \in {promo[p], [promo[p] EXCEPT !.item = Null]}
    BY <2>1
  <2>3. stock' \in SUBSET Values
    BY <2>1 DEF Typed, TypeOK, TablesOK
  <2> QED
    BY <2>1, <2>2, <2>3 DEF Promise!Next, Promise!Manage
<1> QED
  BY <1>1, <1>2, <1>3, <1>4, <1>5 DEF Step, LockUser, NextLine, LockGoods, LockValues,
     LockPromo, CommitEmpty, RefuseCheckout, Rollback, CountLines, InsertLine, LockDropped,
     LoadDropped

\* What the administrator does is the administrator's doing in Shop too.
LEMMA AdminShop ==
  ASSUME Typed, ShopInv, Admin
  PROVE  Promise!Next \/ UNCHANGED Promise!vars
<1> USE DEF goodsVars, promoVars
<1>0. /\ balance \in [Users -> Int] /\ \A u \in Users : balance[u] >= 0
      /\ price \in [Goods -> Nat] /\ promo \in [Promos -> PromoRow] /\ stock \subseteq Values
  BY DEF Typed, TypeOK, TablesOK, ShopInv, MoneyInv, NoOverdraft
<1>1. ASSUME NEW u \in Users, NEW a \in Amounts, AdminBalanceChange(u, a)
      PROVE  Promise!Manage
  <2>1. /\ balance' = [balance EXCEPT ![u] = balance[u] + a] /\ a \in Int
        /\ a < 0 => balance[u] >= 0 - a
        /\ UNCHANGED <<price, stock, promo, used>>
    BY <1>1, MoneyAssumption DEF AdminBalanceChange
  <2>2. balance'[u] = balance[u] + a /\ balance'[u] \in Nat
    BY <1>0, <2>1
  <2>3. balance' = [balance EXCEPT ![u] = balance'[u]]
    BY <2>1, <2>2
  <2> QED
    BY <2>1, <2>2, <2>3 DEF Promise!Manage
<1>2. ASSUME NEW g \in Goods, UpdateItem(g) PROVE Promise!Manage
  <2>1. PICK c \in Prices : price' = [price EXCEPT ![g] = c]
    BY <1>2 DEF UpdateItem
  <2>2. UNCHANGED <<balance, stock, promo, used>>
    BY <1>2 DEF UpdateItem
  <2>3. price'[g] = c /\ price'[g] \in Nat
    BY <1>0, <2>1, MoneyAssumption
  <2>4. price' = [price EXCEPT ![g] = price'[g]]
    BY <2>1, <2>3
  <2> QED
    BY <2>2, <2>3, <2>4 DEF Promise!Manage
<1>3. ASSUME NEW v \in Values, AddValue(v) PROVE Promise!Manage
  <2>1. stock' \in SUBSET Values /\ UNCHANGED <<balance, price, used, promo>>
    BY <1>0, <1>3 DEF AddValue
  <2> QED
    BY <2>1 DEF Promise!Manage
<1>4. ASSUME DeleteValues PROVE Promise!Manage
  <2>1. stock' \in SUBSET Values /\ UNCHANGED <<balance, price, used, promo>>
    BY <1>0, <1>4 DEF DeleteValues
  <2> QED
    BY <2>1 DEF Promise!Manage
<1>5. ASSUME NEW p \in Promos, TogglePromo(p) \/ DeletePromo(p) PROVE Promise!Manage
  BY <1>5 DEF TogglePromo, DeletePromo, Promise!Manage
<1>6. ASSUME RemoveLines \/ \E p \in Promos : Expire(p) PROVE UNCHANGED Promise!vars
  BY <1>6 DEF RemoveLines, Expire, Promise!vars
<1> QED
  BY <1>1, <1>2, <1>3, <1>4, <1>5, <1>6 DEF Admin, Promise!Next

\* Every step is a step of the abstract shop or leaves it alone.
LEMMA NextShop ==
  Typed /\ ShopInv /\ [Next]_vars => [Promise!Next]_(Promise!vars)
<1> SUFFICES ASSUME Typed, ShopInv, [Next]_vars
    PROVE  Promise!Next \/ UNCHANGED Promise!vars
  OBVIOUS
<1>1. ASSUME NEW s \in Sessions, Step(s) PROVE Promise!Next \/ UNCHANGED Promise!vars
  BY <1>1, StepShop
<1>2. ASSUME NEW s \in Sessions,
             Victim(s) \/ Fail(s) \/ \E q \in Requests : Begin(s, q)
      PROVE  UNCHANGED Promise!vars
  BY <1>2 DEF Victim, Fail, Rollback, Begin, db, goodsVars, promoVars, Promise!vars
<1>3. ASSUME Admin PROVE Promise!Next \/ UNCHANGED Promise!vars
  BY <1>3, AdminShop
<1>4. ASSUME UNCHANGED vars PROVE UNCHANGED Promise!vars
  BY <1>4 DEF vars, db, goodsVars, promoVars, Promise!vars
<1> QED
  BY <1>1, <1>2, <1>3, <1>4 DEF Next

\* The initial states are those of the abstract shop.
LEMMA InitShop == Init => Promise!Init
<1> SUFFICES ASSUME Init PROVE Promise!Init
  OBVIOUS
<1>1. balance \in [Users -> Nat] /\ price \in [Goods -> Nat]
  BY MoneyAssumption DEF Init
<1>2. stock \subseteq Values /\ used = {}
  BY StockAssumption DEF Init
<1>3. \A p \in Promos : promo[p].row /\ promo[p].uses = 0
  BY DEF Init
<1> QED
  BY <1>1, <1>2, <1>3 DEF Promise!Init

\* The transactions implement Shop: whatever interleaves with them, every purchase,
\* checkout and redemption that commits happened at once, at the prices and with the
\* codes and the stock of the moment of its commit, for the sum of its prices.
THEOREM PromiseKept == Spec => KeepsPromise
<1>1. Init => ShopInv
  BY InitTyped, InitMoney, InitStockInv, InitPromoInv, InitOrdered, InitPriced DEF ShopInv
<1>2. Typed /\ ShopInv /\ [Next]_vars => ShopInv' /\ [Promise!Next]_(Promise!vars)
  BY NextShopInv, NextShop
<1> QED
  BY <1>1, <1>2, InitTyped, NextTyped, InitShop, PTL DEF Spec, KeepsPromise, Promise!Spec
=============================================================================
