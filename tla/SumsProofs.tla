------------------------------ MODULE SumsProofs ------------------------------
(***************************************************************************)
(* The lemmas about Total that the books of the contract's products need:  *)
(* it is a natural number, 0 where nothing is owed, monotone, and one      *)
(* changed amount changes it by the difference.                            *)
(***************************************************************************)
EXTENDS Sums, FiniteSetTheorems, TLAPS

\* The units of one amount.
LEMMA Column ==
    ASSUME NEW x, NEW n \in Nat
    PROVE  IsFiniteSet({x} \X (1 .. n)) /\ Cardinality({x} \X (1 .. n)) = n
<1>1. IsFiniteSet({x}) /\ Cardinality({x}) = 1
  BY FS_Singleton
<1>2. IsFiniteSet(1 .. n) /\ Cardinality(1 .. n) = n
  BY FS_Interval
<1>3. /\ IsFiniteSet({x} \X (1 .. n))
      /\ Cardinality({x} \X (1 .. n)) = Cardinality({x}) * Cardinality(1 .. n)
  BY <1>1, <1>2, FS_Product
<1> QED
  BY <1>1, <1>2, <1>3

\* A finite table has finitely many units.
LEMMA UnitsFinite ==
    ASSUME NEW S, IsFiniteSet(S), NEW f \in [S -> Nat]
    PROVE  IsFiniteSet(Units(f))
<1> DEFINE columns == {{x} \X (1 .. f[x]) : x \in S}
           column == [x \in S |-> {x} \X (1 .. f[x])]
<1>1. column \in Surjection(S, columns)
  <2>1. column \in [S -> columns]
    OBVIOUS
  <2>2. \A T \in columns : \E x \in S : column[x] = T
    OBVIOUS
  <2> QED
    BY <2>1, <2>2, Zenon DEF Surjection
<1>2. IsFiniteSet(columns)
  BY <1>1, FS_Surjection
<1>3. \A T \in columns : IsFiniteSet(T)
  <2>1. \A x \in S : f[x] \in Nat
    OBVIOUS
  <2>2. \A x \in S : IsFiniteSet({x} \X (1 .. f[x]))
    BY <2>1, Column
  <2> QED
    BY <2>2
<1>4. IsFiniteSet(UNION columns)
  BY <1>2, <1>3, FS_UNION
<1>5. DOMAIN f = S
  OBVIOUS
<1> QED
  BY <1>4, <1>5, Zenon DEF Units

\* The pairs Total counts.
LEMMA UnitsOf ==
    ASSUME NEW S, NEW f \in [S -> Nat], NEW u
    PROVE  u \in Units(f) <=> \E x \in S, k \in Nat : u = <<x, k>> /\ k \in 1 .. f[x]
BY DEF Units

LEMMA TotalType ==
    ASSUME NEW S, IsFiniteSet(S), NEW f \in [S -> Nat]
    PROVE  Total(f) \in Nat
BY UnitsFinite, FS_CardinalityType DEF Total

\* Where every amount is 0 there is nothing to count.
LEMMA TotalZero ==
    ASSUME NEW S, NEW f \in [S -> Nat], \A x \in S : f[x] = 0
    PROVE  Total(f) = 0
<1>1. Units(f) = {}
  <2> SUFFICES ASSUME NEW u \in Units(f) PROVE FALSE
    OBVIOUS
  <2>1. PICK x \in S, k \in Nat : u = <<x, k>> /\ k \in 1 .. f[x]
    BY UnitsOf
  <2> QED
    BY <2>1
<1> QED
  BY <1>1, FS_EmptySet DEF Total

\* A table that is nowhere larger has no larger total.
LEMMA TotalMonotone ==
    ASSUME NEW S, IsFiniteSet(S), NEW f \in [S -> Nat], NEW g \in [S -> Nat],
           \A x \in S : f[x] <= g[x]
    PROVE  Total(f) <= Total(g)
<1>1. Units(f) \subseteq Units(g)
  <2> SUFFICES ASSUME NEW u \in Units(f) PROVE u \in Units(g)
    OBVIOUS
  <2>1. PICK x \in S, k \in Nat : u = <<x, k>> /\ k \in 1 .. f[x]
    BY UnitsOf
  <2>2. k \in 1 .. g[x]
    BY <2>1
  <2> QED
    BY <2>1, <2>2, UnitsOf
<1>2. IsFiniteSet(Units(g))
  BY UnitsFinite
<1> QED
  BY <1>1, <1>2, FS_Subset DEF Total

\* One amount and the rest of the table.
LEMMA TotalSplit ==
    ASSUME NEW S, IsFiniteSet(S), NEW f \in [S -> Nat], NEW x \in S
    PROVE  LET rest == {u \in Units(f) : u[1] # x}
           IN  /\ Cardinality(rest) \in Nat
               /\ Total(f) = Cardinality(rest) + f[x]
<1> DEFINE rest == {u \in Units(f) : u[1] # x}
           column == {x} \X (1 .. f[x])
<1>1. IsFiniteSet(column) /\ Cardinality(column) = f[x]
  BY Column
<1>2. IsFiniteSet(rest) /\ Cardinality(rest) \in Nat
  BY UnitsFinite, FS_Subset, FS_CardinalityType
<1>3. Units(f) = rest \cup column
  <2>1. ASSUME NEW u \in Units(f) PROVE u \in rest \cup column
    <3>1. PICK y \in S, k \in Nat : u = <<y, k>> /\ k \in 1 .. f[y]
      BY UnitsOf
    <3> QED
      BY <3>1
  <2>2. ASSUME NEW u \in column PROVE u \in Units(f)
    <3>1. PICK k \in 1 .. f[x] : u = <<x, k>>
      OBVIOUS
    <3> QED
      BY <3>1, UnitsOf
  <2> QED
    BY <2>1, <2>2
<1>4. rest \cap column = {}
  OBVIOUS
<1> HIDE DEF rest, column
<1>5. Cardinality(rest \cap column) = 0
  BY <1>4, FS_EmptySet
<1>6. Total(f) = Cardinality(rest) + Cardinality(column) - Cardinality(rest \cap column)
  BY <1>1, <1>2, <1>3, FS_Union DEF Total
<1>7. Cardinality(rest) \in Nat /\ Total(f) = Cardinality(rest) + f[x]
  BY <1>1, <1>2, <1>5, <1>6
<1> QED
  BY <1>7 DEF rest

\* A table that differs in one place differs in its total by as much.
LEMMA TotalChange ==
    ASSUME NEW S, IsFiniteSet(S), NEW f \in [S -> Nat], NEW g \in [S -> Nat],
           NEW x \in S, \A y \in S \ {x} : g[y] = f[y]
    PROVE  Total(g) = Total(f) - f[x] + g[x]
<1> DEFINE restF == {u \in Units(f) : u[1] # x}
           restG == {u \in Units(g) : u[1] # x}
<1>1. Cardinality(restF) \in Nat /\ Total(f) = Cardinality(restF) + f[x]
  BY TotalSplit
<1>2. Cardinality(restG) \in Nat /\ Total(g) = Cardinality(restG) + g[x]
  BY TotalSplit
<1>3. restF = restG
  <2>1. ASSUME NEW u, u[1] # x PROVE u \in Units(f) <=> u \in Units(g)
    <3>1. u \in Units(f) <=> \E y \in S, k \in Nat : u = <<y, k>> /\ k \in 1 .. f[y]
      BY UnitsOf
    <3>2. u \in Units(g) <=> \E y \in S, k \in Nat : u = <<y, k>> /\ k \in 1 .. g[y]
      BY UnitsOf
    <3>3. \A y, k : u = <<y, k>> => y # x
      BY <2>1
    <3> QED
      BY <3>1, <3>2, <3>3
  <2> QED
    BY <2>1
<1> HIDE DEF restF, restG
<1> QED
  BY <1>1, <1>2, <1>3

\* Amounts that are added where there was nothing add their total.
LEMMA TotalAdds ==
    ASSUME NEW S, IsFiniteSet(S), NEW A \in SUBSET S,
           NEW f \in [S -> Nat], NEW g \in [S -> Nat], NEW h \in [A -> Nat],
           \A x \in S \ A : g[x] = f[x],
           \A x \in A : f[x] = 0 /\ g[x] = h[x]
    PROVE  Total(g) = Total(f) + Total(h)
<1>1. IsFiniteSet(A)
  BY FS_Subset
<1>2. /\ IsFiniteSet(Units(f)) /\ IsFiniteSet(Units(h))
      /\ Total(f) \in Nat /\ Total(h) \in Nat
  BY <1>1, UnitsFinite, TotalType
<1>3. Units(g) = Units(f) \cup Units(h)
  <2>1. ASSUME NEW u \in Units(g) PROVE u \in Units(f) \cup Units(h)
    <3>1. PICK x \in S, k \in Nat : u = <<x, k>> /\ k \in 1 .. g[x]
      BY UnitsOf
    <3>2. CASE x \in A
      BY <3>1, <3>2, UnitsOf
    <3>3. CASE x \notin A
      BY <3>1, <3>3, UnitsOf
    <3> QED
      BY <3>2, <3>3
  <2>2. ASSUME NEW u \in Units(f) PROVE u \in Units(g)
    <3>1. PICK x \in S, k \in Nat : u = <<x, k>> /\ k \in 1 .. f[x]
      BY UnitsOf
    <3>2. x \notin A
      BY <3>1
    <3> QED
      BY <3>1, <3>2, UnitsOf
  <2>3. ASSUME NEW u \in Units(h) PROVE u \in Units(g)
    <3>1. PICK x \in A, k \in Nat : u = <<x, k>> /\ k \in 1 .. h[x]
      BY UnitsOf
    <3> QED
      BY <3>1, UnitsOf
  <2> QED
    BY <2>1, <2>2, <2>3
<1>4. Units(f) \cap Units(h) = {}
  <2> SUFFICES ASSUME NEW u, u \in Units(f), u \in Units(h) PROVE FALSE
    OBVIOUS
  <2>1. PICK x \in S, k \in Nat : u = <<x, k>> /\ k \in 1 .. f[x]
    BY UnitsOf
  <2>2. PICK y \in A, m \in Nat : u = <<y, m>> /\ m \in 1 .. h[y]
    BY UnitsOf
  <2> QED
    BY <2>1, <2>2
<1>5. Cardinality(Units(f) \cap Units(h)) = 0
  BY <1>4, FS_EmptySet
<1>6. Cardinality(Units(g)) = Cardinality(Units(f)) + Cardinality(Units(h))
                              - Cardinality(Units(f) \cap Units(h))
  BY <1>2, <1>3, FS_Union
<1> QED
  BY <1>2, <1>5, <1>6 DEF Total

\* A table that gets one more entry.
LEMMA TotalGrows ==
    ASSUME NEW S, IsFiniteSet(S), NEW x \in S, NEW h \in [S \ {x} -> Nat], NEW g \in [S -> Nat],
           \A y \in S \ {x} : g[y] = h[y]
    PROVE  Total(g) = Total(h) + g[x]
<1> DEFINE zero == [y \in S |-> 0]
           f == [y \in S |-> IF y = x THEN g[x] ELSE 0]
<1>1. g[x] \in Nat
  OBVIOUS
<1>2. zero \in [S -> Nat] /\ f \in [S -> Nat] /\ Total(zero) = 0
  BY <1>1, TotalZero
<1>3. zero[x] = 0 /\ f[x] = g[x] /\ \A y \in S \ {x} : f[y] = zero[y] /\ f[y] = 0
  OBVIOUS
<1>4. S \ {x} \in SUBSET S /\ \A y \in S \ (S \ {x}) : g[y] = f[y]
  BY <1>3
<1>5. IsFiniteSet(S \ {x}) /\ Total(h) \in Nat
  BY FS_Subset, TotalType
<1> HIDE DEF zero, f
<1>6. Total(f) = Total(zero) - zero[x] + f[x]
  BY <1>2, <1>3, TotalChange
<1>7. Total(g) = Total(f) + Total(h)
  BY <1>2, <1>3, <1>4, TotalAdds
<1> QED
  BY <1>1, <1>2, <1>3, <1>5, <1>6, <1>7

\* The same amounts under other names.
LEMMA TotalRenamed ==
    ASSUME NEW A, NEW B, IsFiniteSet(B), NEW h \in [A -> Nat], NEW k \in [B -> Nat],
           NEW b \in Bijection(B, A), \A x \in B : k[x] = h[b[x]]
    PROVE  Total(k) = Total(h)
<1> DEFINE ub == [u \in Units(k) |-> <<b[u[1]], u[2]>>]
<1>1. /\ \A x \in B : b[x] \in A
      /\ \A x, y \in B : b[x] = b[y] => x = y
      /\ \A a \in A : \E x \in B : b[x] = a
  BY DEF Bijection, Injection, Surjection, IsInjective
<1>2. ub \in [Units(k) -> Units(h)]
  <2> SUFFICES ASSUME NEW u \in Units(k) PROVE <<b[u[1]], u[2]>> \in Units(h)
    OBVIOUS
  <2>1. PICK x \in B, n \in Nat : u = <<x, n>> /\ n \in 1 .. k[x]
    BY UnitsOf
  <2>2. b[x] \in A /\ n \in 1 .. h[b[x]] /\ u[1] = x /\ u[2] = n
    BY <1>1, <2>1
  <2> QED
    BY <2>2, UnitsOf
<1>3. \A u, v \in Units(k) : ub[u] = ub[v] => u = v
  <2> SUFFICES ASSUME NEW u \in Units(k), NEW v \in Units(k), ub[u] = ub[v] PROVE u = v
    OBVIOUS
  <2>1. PICK x \in B, n \in Nat : u = <<x, n>>
    BY UnitsOf
  <2>2. PICK y \in B, m \in Nat : v = <<y, m>>
    BY UnitsOf
  <2>3. b[x] = b[y] /\ n = m
    BY <2>1, <2>2
  <2> QED
    BY <1>1, <2>1, <2>2, <2>3
<1>4. \A w \in Units(h) : \E u \in Units(k) : ub[u] = w
  <2> SUFFICES ASSUME NEW w \in Units(h) PROVE \E u \in Units(k) : ub[u] = w
    OBVIOUS
  <2>1. PICK a \in A, n \in Nat : w = <<a, n>> /\ n \in 1 .. h[a]
    BY UnitsOf
  <2>2. PICK x \in B : b[x] = a
    BY <1>1
  <2>3. <<x, n>> \in Units(k)
    BY <2>1, <2>2, UnitsOf
  <2>4. ub[<<x, n>>] = w
    BY <2>1, <2>2, <2>3
  <2> QED
    BY <2>3, <2>4
<1> HIDE DEF ub
<1>5. ub \in Bijection(Units(k), Units(h))
  BY <1>2, <1>3, <1>4 DEF Bijection, Injection, Surjection, IsInjective
<1>6. ExistsBijection(Units(k), Units(h)) /\ IsFiniteSet(Units(k))
  BY <1>5, UnitsFinite DEF ExistsBijection
<1> QED
  BY <1>6, FS_Bijection DEF Total

\* A function that differs from another in one place only.
LEMMA OnePlace ==
    ASSUME NEW S, NEW f, f = [i \in S |-> f[i]], NEW g, g = [i \in S |-> g[i]],
           NEW x \in S, NEW v, \A i \in S : g[i] = IF i = x THEN v ELSE f[i]
    PROVE  g = [f EXCEPT ![x] = v]
OBVIOUS

-----------------------------------------------------------------------------
\* The part of a table of debts that one token is owed.
LEMMA OfTokenType ==
    ASSUME NEW S, NEW owed \in [S -> Nat], NEW asset, NEW t
    PROVE  /\ OfToken(owed, asset, t) \in [S -> Nat]
           /\ \A x \in S : OfToken(owed, asset, t)[x] = IF asset[x] = t THEN owed[x] ELSE 0
BY DEF OfToken

LEMMA OwedTotalType ==
    ASSUME NEW S, IsFiniteSet(S), NEW owed \in [S -> Nat], NEW asset, NEW t
    PROVE  Total(OfToken(owed, asset, t)) \in Nat
BY OfTokenType, TotalType

\* A debt id in token t is incurred, grows or is paid, and no other changes.
OneDebt(S, owed, owed2, asset, asset2, id, t) ==
    /\ IsFiniteSet(S) /\ id \in S
    /\ owed \in [S -> Nat] /\ owed2 \in [S -> Nat]
    /\ \A x \in S \ {id} : owed2[x] = owed[x] /\ asset2[x] = asset[x]
    /\ asset2[id] = t
    /\ asset[id] = t \/ owed[id] = 0

\* It moves what is owed in its token by as much, and nothing in any other.
LEMMA OwedMoves ==
    ASSUME NEW S, NEW owed, NEW owed2, NEW asset, NEW asset2, NEW id, NEW t, NEW u,
           OneDebt(S, owed, owed2, asset, asset2, id, t)
    PROVE  Total(OfToken(owed2, asset2, u)) =
             Total(OfToken(owed, asset, u)) + (IF u = t THEN owed2[id] - owed[id] ELSE 0)
<1>0. /\ IsFiniteSet(S) /\ id \in S
      /\ owed \in [S -> Nat] /\ owed2 \in [S -> Nat]
      /\ \A x \in S \ {id} : owed2[x] = owed[x] /\ asset2[x] = asset[x]
      /\ asset2[id] = t
      /\ asset[id] = t \/ owed[id] = 0
  BY DEF OneDebt
<1> DEFINE f == OfToken(owed, asset, u)
           g == OfToken(owed2, asset2, u)
<1>1. /\ f \in [S -> Nat] /\ \A x \in S : f[x] = IF asset[x] = u THEN owed[x] ELSE 0
      /\ g \in [S -> Nat] /\ \A x \in S : g[x] = IF asset2[x] = u THEN owed2[x] ELSE 0
  BY <1>0, OfTokenType
<1> HIDE DEF f, g
<1>2. \A x \in S \ {id} : g[x] = f[x]
  BY <1>0, <1>1
<1>3. Total(g) = Total(f) - f[id] + g[id] /\ Total(f) \in Nat
  BY <1>0, <1>1, <1>2, TotalChange, TotalType
<1>4. owed[id] \in Nat /\ owed2[id] \in Nat
  BY <1>0
<1>5. CASE u = t
  <2>1. f[id] = owed[id] /\ g[id] = owed2[id]
    BY <1>0, <1>1, <1>5
  <2> QED
    BY <1>3, <1>4, <1>5, <2>1 DEF f, g
<1>6. CASE u # t
  <2>1. f[id] = 0 /\ g[id] = 0
    BY <1>0, <1>1, <1>6
  <2> QED
    BY <1>3, <1>6, <2>1 DEF f, g
<1> QED
  BY <1>5, <1>6

-----------------------------------------------------------------------------
(***************************************************************************)
(* Induction over a loop, as a fact about sets, which needs no operator as *)
(* a parameter: a set of natural numbers with 0 and the successor of each  *)
(* of its members has them all.                                            *)
(***************************************************************************)
LEMMA SmallestOf ==
    ASSUME NEW T \in SUBSET Nat, T # {}
    PROVE  \E m \in T : \A y \in T : m <= y
<1> DEFINE Below(x) == 0 .. x - 1
<1>1. PICK R, S, Q : /\ R = StrictSubsetOrdering(Nat) /\ S = FiniteSubsetsOf(Nat)
                     /\ Q = {Below(x) : x \in T}
  OBVIOUS
<1>2. IsWellFoundedOn(R, S)
  BY <1>1, FS_StrictSubsetOrderingWellFounded
<1>3. \A x \in T : Below(x) \in SUBSET Nat /\ IsFiniteSet(Below(x))
  BY FS_Interval
<1>4. Q \subseteq S /\ Q # {}
  BY <1>1, <1>3 DEF FiniteSubsetsOf
<1>5. PICK q \in Q : \A p \in Q : ~ (<<p, q>> \in R)
  BY <1>2, <1>4, WFMin
<1>6. PICK x \in T : q = Below(x)
  BY <1>1, <1>5
<1>7. ASSUME NEW y \in T, y < x PROVE FALSE
  <2>1. Below(y) \subseteq Below(x) /\ y \in Below(x) /\ y \notin Below(y)
    BY <1>7
  <2>2. <<Below(y), q>> \in R
    BY <1>1, <1>3, <1>6, <2>1 DEF StrictSubsetOrdering
  <2> QED
    BY <1>1, <1>5, <2>2
<1> QED
  BY <1>7

LEMMA SetOfNaturals ==
    ASSUME NEW T \in SUBSET Nat, 0 \in T, \A n \in T : n + 1 \in T
    PROVE  T = Nat
<1> SUFFICES ASSUME Nat \ T # {} PROVE FALSE
  OBVIOUS
<1>1. PICK m \in Nat \ T : \A y \in Nat \ T : m <= y
  BY SmallestOf
<1>2. m - 1 \in Nat /\ m - 1 \in T
  BY <1>1
<1>3. (m - 1) + 1 \in T
  BY <1>2
<1> QED
  BY <1>1, <1>3
===============================================================================
