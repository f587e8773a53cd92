--------------------------- MODULE RowEditProofs ---------------------------
(***************************************************************************)
(* The row statements of the drivers and a table page over them.           *)
(***************************************************************************)
EXTENDS RowEdit, FiniteSetTheorems, FunctionTheorems, SequenceTheorems, TLAPS

-----------------------------------------------------------------------------
(* Counting in an order.                                                   *)

\* B gives those before each element of S.
Orders(B, S) ==
  /\ B \in [S -> SUBSET S]
  /\ \A a \in S : a \notin B[a]
  /\ \A a, b \in S : a # b => a \in B[b] \/ b \in B[a]
  /\ \A a, b \in S : a \in B[b] => B[a] \subseteq B[b]

\* The number of those before it is a place of its own for each element, and
\* every place is taken.
PlacesOf(B, S) ==
  /\ \A a \in S : Cardinality(B[a]) \in 0 .. Cardinality(S) - 1
  /\ \A a, b \in S : a \in B[b] => Cardinality(B[a]) < Cardinality(B[b])
  /\ \A a, b \in S : Cardinality(B[a]) = Cardinality(B[b]) => a = b
  /\ \A n \in 0 .. Cardinality(S) - 1 : \E a \in S : Cardinality(B[a]) = n

\* So it is in every finite set, whatever the order.
LEMMA Places ==
  ASSUME NEW S, IsFiniteSet(S), NEW B, Orders(B, S)
  PROVE  PlacesOf(B, S)
  <1> DEFINE N == Cardinality(S)
             T == 0 .. N - 1
             f == [a \in S |-> Cardinality(B[a])]
  <1>0. /\ B \in [S -> SUBSET S]
        /\ \A a \in S : a \notin B[a]
        /\ \A a, b \in S : a # b => a \in B[b] \/ b \in B[a]
        /\ \A a, b \in S : a \in B[b] => B[a] \subseteq B[b]
    BY DEF Orders
  <1>1. N \in Nat
    BY FS_CardinalityType
  <1>2. ASSUME NEW a \in S
        PROVE  IsFiniteSet(B[a]) /\ Cardinality(B[a]) \in T
    <2>1. IsFiniteSet(B[a]) /\ B[a] \in SUBSET (S \ {a})
      BY <1>0, FS_Subset
    <2>2. IsFiniteSet(S \ {a}) /\ Cardinality(S \ {a}) = N - 1
      BY FS_RemoveElement
    <2>3. Cardinality(B[a]) \in Nat /\ Cardinality(B[a]) <= N - 1
      BY <2>1, <2>2, FS_Subset, FS_CardinalityType
    <2> HIDE DEF N
    <2>4. Cardinality(B[a]) \in 0 .. N - 1
      BY <1>1, <2>3
    <2> QED BY <2>1, <2>4
  <1>3. ASSUME NEW a \in S, NEW b \in S, a \in B[b]
        PROVE  Cardinality(B[a]) < Cardinality(B[b])
    <2>1. B[a] \in SUBSET B[b] /\ B[a] # B[b]
      BY <1>0, <1>3
    <2>2. /\ Cardinality(B[a]) <= Cardinality(B[b])
          /\ Cardinality(B[a]) # Cardinality(B[b])
      BY <1>2, <2>1, FS_Subset
    <2>3. Cardinality(B[a]) \in Nat /\ Cardinality(B[b]) \in Nat
      BY <1>2, FS_CardinalityType
    <2> QED BY <2>2, <2>3
  <1>4. ASSUME NEW a \in S, NEW b \in S, Cardinality(B[a]) = Cardinality(B[b])
        PROVE  a = b
    <2>1. Cardinality(B[a]) \in Nat /\ Cardinality(B[b]) \in Nat
      BY <1>2, FS_CardinalityType
    <2> QED BY <1>0, <1>3, <1>4, <2>1
  <1>5. f \in Surjection(S, T)
    <2>1. f \in [S -> T]
      BY <1>2
    <2>2. f \in Injection(S, T)
      BY <1>4, <2>1 DEF Injection, IsInjective
    <2>3. IsFiniteSet(T) /\ Cardinality(T) = N
      <3> HIDE DEF N
      <3>1. IsFiniteSet(0 .. N - 1) /\ Cardinality(0 .. N - 1) = IF 0 > N - 1 THEN 0 ELSE N - 1 - 0 + 1
        BY <1>1, FS_Interval
      <3> QED BY <1>1, <3>1
    <2> QED BY <2>2, <2>3, FS_Injection
  <1>6. \A n \in T : \E a \in S : f[a] = n
    BY <1>5 DEF Surjection
  <1> QED BY <1>2, <1>3, <1>4, <1>6 DEF PlacesOf

\* Some numbers, taken in order.
Upto(I, i) == {j \in I : j <= i}

\* The n-th of a set of indices is there, and numbers grow with the indices.
LEMMA Numbered ==
  ASSUME NEW I, NEW n \in Nat, I \subseteq 1 .. n
  PROVE  /\ IsFiniteSet(I) /\ Cardinality(I) \in Nat
         /\ \A i \in I : /\ Cardinality(Upto(I, i)) \in 1 .. Cardinality(I)
                         /\ Nth(I, Cardinality(Upto(I, i))) = i
         /\ \A k \in 1 .. Cardinality(I) : Nth(I, k) \in I /\ Cardinality(Upto(I, Nth(I, k))) = k
  <1> DEFINE B == [i \in I |-> {j \in I : j < i}]
  <1>1. IsFiniteSet(I) /\ Cardinality(I) \in Nat
    <2>1. IsFiniteSet(1 .. n) /\ I \in SUBSET (1 .. n)
      BY FS_Interval
    <2> QED BY <2>1, FS_Subset, FS_CardinalityType
  <1>2. \A i \in I : i \in Nat
    OBVIOUS
  <1>3. Orders(B, I)
    <2>1. B \in [I -> SUBSET I]
      OBVIOUS
    <2>2. \A a, b \in I : a \in B[b] <=> a < b
      OBVIOUS
    <2> HIDE DEF B
    <2>3. \A a, b \in I : a \in B[b] => B[a] \subseteq B[b]
      <3> SUFFICES ASSUME NEW a \in I, NEW b \in I, a \in B[b], NEW c \in B[a]
                   PROVE  c \in B[b]
        OBVIOUS
      <3>1. c \in I
        BY <2>1
      <3>2. c < a /\ a < b
        BY <2>2, <3>1
      <3>3. a \in Nat /\ b \in Nat /\ c \in Nat
        BY <1>2, <3>1
      <3>4. c < b
        BY <3>2, <3>3
      <3> QED BY <2>2, <3>1, <3>4
    <2>4. \A a \in I : a \notin B[a]
      BY <1>2, <2>2
    <2>5. \A a, b \in I : a # b => a \in B[b] \/ b \in B[a]
      BY <1>2, <2>2
    <2> QED BY <2>1, <2>3, <2>4, <2>5 DEF Orders
  <1>4. ASSUME NEW i \in I
        PROVE  Cardinality(Upto(I, i)) = Cardinality(B[i]) + 1
    <2>1. \A j \in I : j <= i <=> j < i \/ j = i
      BY <1>2
    <2>2. Upto(I, i) = {j \in I : j < i} \cup {i}
      BY <2>1 DEF Upto
    <2>3. B[i] = {j \in I : j < i}
      OBVIOUS
    <2>4. IsFiniteSet(B[i]) /\ i \notin B[i]
      BY <1>1, <1>3, FS_Subset DEF Orders
    <2> HIDE DEF B
    <2> QED BY <2>2, <2>3, <2>4, FS_AddElement
  <1> HIDE DEF B
  <1>5. PlacesOf(B, I)
    BY <1>1, <1>3, Places
  <1>5a. /\ \A a \in I : Cardinality(B[a]) \in 0 .. Cardinality(I) - 1
         /\ \A a, b \in I : Cardinality(B[a]) = Cardinality(B[b]) => a = b
         /\ \A k \in 0 .. Cardinality(I) - 1 : \E a \in I : Cardinality(B[a]) = k
    BY <1>5 DEF PlacesOf
  <1>6. ASSUME NEW i \in I
        PROVE  Cardinality(Upto(I, i)) \in 1 .. Cardinality(I)
    BY <1>1, <1>4, <1>5a
  <1>7. \A a, b \in I : Cardinality(Upto(I, a)) = Cardinality(Upto(I, b)) => a = b
    <2>1. \A a \in I : Cardinality(B[a]) \in Int
      BY <1>1, <1>5a
    <2> QED BY <1>4, <1>5a, <2>1
  <1>8. \A k \in 1 .. Cardinality(I) : \E a \in I : Cardinality(Upto(I, a)) = k
    <2>1. ASSUME NEW k \in 1 .. Cardinality(I)
          PROVE  \E a \in I : Cardinality(Upto(I, a)) = k
      <3>1. k - 1 \in 0 .. Cardinality(I) - 1
        BY <1>1
      <3>2. PICK a \in I : Cardinality(B[a]) = k - 1
        BY <1>5a, <3>1
      <3>3. Cardinality(Upto(I, a)) = k
        BY <1>1, <1>4, <3>2
      <3> QED BY <3>3
    <2> QED BY <2>1
  <1>9. ASSUME NEW k \in 1 .. Cardinality(I)
        PROVE  Nth(I, k) \in I /\ Cardinality(Upto(I, Nth(I, k))) = k
    BY <1>8 DEF Nth, Upto
  <1>10. ASSUME NEW i \in I
         PROVE  Nth(I, Cardinality(Upto(I, i))) = i
    BY <1>6, <1>7, <1>9
  <1> QED BY <1>1, <1>6, <1>9, <1>10


-----------------------------------------------------------------------------
(* What a statement binds.                                                 *)

Numbers(A, n) == n \in Nat /\ A \subseteq 1 .. n
Shifted(n, B) == {n + b : b \in B}

\* Counting what comes before in two lists, the second after the first.
LEMMA CountBoth ==
  ASSUME NEW n, NEW m, NEW A, NEW B, Numbers(A, n), Numbers(B, m)
  PROVE  Cardinality(A \cup Shifted(n, B)) = Cardinality(A) + Cardinality(B)
  <1> DEFINE C == {n + b : b \in B}
             f == [b \in B |-> n + b]
  <1>0. n \in Nat /\ m \in Nat /\ A \subseteq 1 .. n /\ B \subseteq 1 .. m
    BY DEF Numbers
  <1>1. IsFiniteSet(A) /\ IsFiniteSet(B)
    BY <1>0, Numbered
  <1>2. \A b \in B : b \in Nat /\ b > 0
    BY <1>0
  <1>3. f \in [B -> C] /\ \A c \in C : \E b \in B : f[b] = c
    BY <1>0
  <1>4. \A a, b \in B : f[a] = f[b] => a = b
    BY <1>0, <1>2
  <1>5. ExistsBijection(B, C)
    <2>1. f \in Bijection(B, C)
      BY <1>3, <1>4 DEF Bijection, Injection, IsInjective, Surjection
    <2> QED BY <2>1 DEF ExistsBijection
  <1>6. IsFiniteSet(C) /\ Cardinality(C) = Cardinality(B)
    BY <1>1, <1>5, FS_Bijection
  <1>7. A \cap C = {}
    <2>1. \A c \in C : c > n
      BY <1>0, <1>2
    <2>2. \A a \in A : ~(a > n)
      BY <1>0
    <2> QED BY <2>1, <2>2
  <1>8. Cardinality(A \cup C) = Cardinality(A) + Cardinality(C) - Cardinality(A \cap C)
    BY <1>1, <1>6, FS_Union
  <1>9. Cardinality(A) \in Nat /\ Cardinality(B) \in Nat
    BY <1>1, FS_CardinalityType
  <1>10. Cardinality(A \cap C) = 0
    BY <1>7, FS_EmptySet
  <1> HIDE DEF C
  <1>11. Cardinality(A \cup C) = Cardinality(A) + Cardinality(B)
    BY <1>6, <1>8, <1>9, <1>10
  <1> QED BY <1>11 DEF C, Shifted

\* The values of some cells of a list: each at its place among them.
InOrder(cells, I) ==
  /\ Cardinality(I) \in Nat
  /\ Values(cells, I) \in Seq({cells[i].value : i \in DOMAIN cells})
  /\ Len(Values(cells, I)) = Cardinality(I)
  /\ \A i \in I : /\ Cardinality(Upto(I, i)) \in 1 .. Cardinality(I)
                  /\ Values(cells, I)[Cardinality(Upto(I, i))] = cells[i].value

\* So it is for every list.
LEMMA ValuesInOrder ==
  ASSUME NEW S, NEW cells \in Seq(S), NEW I, I \subseteq DOMAIN cells
  PROVE  InOrder(cells, I)
  <1> DEFINE n == Len(cells)
             V == {cells[i].value : i \in DOMAIN cells}
  <1>1. n \in Nat /\ I \subseteq 1 .. n /\ DOMAIN cells = 1 .. n
    OBVIOUS
  <1> HIDE DEF n
  <1>2. IsFiniteSet(I) /\ Cardinality(I) \in Nat
    BY <1>1, Numbered
  <1>3. \A i \in I : /\ Cardinality(Upto(I, i)) \in 1 .. Cardinality(I)
                     /\ Nth(I, Cardinality(Upto(I, i))) = i
    BY <1>1, Numbered
  <1>4. \A k \in 1 .. Cardinality(I) : Nth(I, k) \in I
    BY <1>1, Numbered
  <1>5. \A k \in 1 .. Cardinality(I) : cells[Nth(I, k)].value \in V
    BY <1>4
  <1>6. Values(cells, I) = [k \in 1 .. Cardinality(I) |-> cells[Nth(I, k)].value]
    BY DEF Values
  <1>7. Values(cells, I) \in Seq(V) /\ Len(Values(cells, I)) = Cardinality(I)
    <2> HIDE DEF V
    <2> QED BY <1>2, <1>5, <1>6
  <1>8. ASSUME NEW i \in I
        PROVE  Values(cells, I)[Cardinality(Upto(I, i))] = cells[i].value
    BY <1>3, <1>6
  <1> QED BY <1>2, <1>3, <1>7, <1>8 DEF InOrder

\* The binds of a statement with assigned cells a and compared cells b.
Binds(a, b) == SetBinds(a) \o KeyBinds(b)

\* What a statement with SET and WHERE binds: the two lists, one behind the other.
LEMMA BoundInOrder ==
  ASSUME NEW S, NEW a \in Seq(S), NEW b \in Seq(S)
  PROVE  /\ SetBound(a) \subseteq DOMAIN a /\ KeyBound(b) \subseteq DOMAIN b
         /\ Cardinality(SetBound(a)) \in Nat /\ Cardinality(KeyBound(b)) \in Nat
         /\ Len(Binds(a, b)) = Cardinality(SetBound(a)) + Cardinality(KeyBound(b))
         /\ \A i \in SetBound(a) :
              /\ Cardinality(Upto(SetBound(a), i)) \in 1 .. Cardinality(SetBound(a))
              /\ Binds(a, b)[Cardinality(Upto(SetBound(a), i))] = a[i].value
         /\ \A j \in KeyBound(b) :
              /\ Cardinality(Upto(KeyBound(b), j)) \in 1 .. Cardinality(KeyBound(b))
              /\ Binds(a, b)[Cardinality(SetBound(a)) + Cardinality(Upto(KeyBound(b), j))]
                   = b[j].value
  <1> DEFINE A == SetBound(a)
             B == KeyBound(b)
             VA == {a[i].value : i \in DOMAIN a}
             VB == {b[i].value : i \in DOMAIN b}
             U == VA \cup VB
             s == SetBinds(a)
             t == KeyBinds(b)
  <1>1. A \subseteq DOMAIN a /\ B \subseteq DOMAIN b
    BY DEF SetBound, KeyBound
  <1>2. /\ Cardinality(A) \in Nat /\ s \in Seq(VA) /\ Len(s) = Cardinality(A)
        /\ \A i \in A : /\ Cardinality(Upto(A, i)) \in 1 .. Cardinality(A)
                        /\ s[Cardinality(Upto(A, i))] = a[i].value
    <2>1. s = Values(a, A)
      BY DEF SetBinds
    <2> HIDE DEF A, B, s, t
    <2>2. InOrder(a, A)
      BY <1>1, ValuesInOrder
    <2> QED BY <2>1, <2>2 DEF InOrder
  <1>3. /\ Cardinality(B) \in Nat /\ t \in Seq(VB) /\ Len(t) = Cardinality(B)
        /\ \A j \in B : /\ Cardinality(Upto(B, j)) \in 1 .. Cardinality(B)
                        /\ t[Cardinality(Upto(B, j))] = b[j].value
    <2>1. t = Values(b, B)
      BY DEF KeyBinds
    <2> HIDE DEF A, B, s, t
    <2>2. InOrder(b, B)
      BY <1>1, ValuesInOrder
    <2> QED BY <2>1, <2>2 DEF InOrder
  <1>4. s \in Seq(U) /\ t \in Seq(U)
    <2>1. VA \subseteq U /\ VB \subseteq U
      OBVIOUS
    <2> HIDE DEF VA, VB, U, s, t
    <2> QED BY <1>2, <1>3, <2>1
  <1> HIDE DEF A, B, VA, VB, U, s, t
  <1>5. /\ Len(s \o t) = Len(s) + Len(t)
        /\ \A k \in 1 .. Len(s) : (s \o t)[k] = s[k]
        /\ \A k \in 1 .. Len(t) : (s \o t)[Len(s) + k] = t[k]
    BY <1>4
  <1>6. Binds(a, b) = s \o t
    BY DEF Binds, s, t
  <1>7. \A i \in A : /\ Cardinality(Upto(A, i)) \in 1 .. Cardinality(A)
                     /\ Binds(a, b)[Cardinality(Upto(A, i))] = a[i].value
    BY <1>2, <1>5, <1>6
  <1>8. \A j \in B : /\ Cardinality(Upto(B, j)) \in 1 .. Cardinality(B)
                     /\ Binds(a, b)[Cardinality(A) + Cardinality(Upto(B, j))] = b[j].value
    BY <1>2, <1>3, <1>5, <1>6
  <1>9. Len(Binds(a, b)) = Cardinality(A) + Cardinality(B)
    BY <1>2, <1>3, <1>5, <1>6
  <1>10. Cardinality(A) \in Nat /\ Cardinality(B) \in Nat
    BY <1>2, <1>3
  <1> HIDE <1>2, <1>3, <1>4, <1>5
  <1> QED BY ONLY <1>1, <1>7, <1>8, <1>9, <1>10 DEF A, B

-----------------------------------------------------------------------------
(* What the server makes of a statement. a are the cells it assigns, b     *)
(* those it compares.                                                      *)

Now(cell) ==
  IF TemporalKind(cell.data_type) = "Date" THEN Clock.today
  ELSE IF TemporalKind(cell.data_type) = "Time" THEN Clock.noon
  ELSE Clock.both

\* What a cell stands for where it is assigned, and where it is compared.
Given(cell)   == IF IsExpression(cell) THEN Now(cell) ELSE Store(cell.column, cell.value)
Compared(cell) == IF cell.value = NULL THEN NULL ELSE Given(cell)

\* An operand for a cell.
Takes(o, cell) ==
  /\ o.column = cell.column
  /\ IF IsExpression(cell) THEN o.kind = "expr" /\ Evaluate(o.e) = Now(cell)
     ELSE o.kind \in {"bind", "?"}

Compares(o, cell) ==
  IF cell.value = NULL THEN o.column = cell.column /\ o.kind = "null"
  ELSE Takes(o, cell)

\* The two ways to tell which value a placeholder takes.
Positional(st, a, b) ==
  /\ \A i \in SetBound(a) : st.set[i].kind = "?"
  /\ \A j \in KeyBound(b) : st.where[j].kind = "?"

ByNumber(st, a, b) ==
  /\ \A i \in SetBound(a) :
       st.set[i].kind = "bind" /\ st.set[i].n = Cardinality(Upto(SetBound(a), i))
  /\ \A j \in KeyBound(b) :
       /\ st.where[j].kind = "bind"
       /\ st.where[j].n = Cardinality(SetBound(a)) + Cardinality(Upto(KeyBound(b), j))

Follows(st, a, b) ==
  /\ st.ok
  /\ \E T : st.set \in Seq(T) /\ st.where \in Seq(T)
  /\ Len(st.set) = Len(a) /\ Len(st.where) = Len(b)
  /\ st.binds = Binds(a, b)
  /\ \A i \in DOMAIN a : Takes(st.set[i], a[i])
  /\ \A j \in DOMAIN b : Compares(st.where[j], b[j])
  /\ Positional(st, a, b) \/ ByNumber(st, a, b)

\* The operands of such a statement are the cells, in order.
LEMMA OperandsInOrder ==
  ASSUME NEW S, NEW a \in Seq(S), NEW b \in Seq(S), NEW st, Follows(st, a, b)
  PROVE  /\ Len(a) \in Nat /\ Len(b) \in Nat
         /\ DOMAIN a = 1 .. Len(a) /\ DOMAIN b = 1 .. Len(b)
         /\ DOMAIN st.set = 1 .. Len(a) /\ DOMAIN st.where = 1 .. Len(b)
         /\ DOMAIN Operands(st) = 1 .. Len(a) + Len(b)
         /\ \A i \in 1 .. Len(a) : Operands(st)[i] = st.set[i]
         /\ \A j \in 1 .. Len(b) : Operands(st)[Len(a) + j] = st.where[j]
  <1>1. PICK T : st.set \in Seq(T) /\ st.where \in Seq(T)
    BY DEF Follows
  <1>2. Len(st.set) = Len(a) /\ Len(st.where) = Len(b)
    BY DEF Follows
  <1> DEFINE s == st.set
             w == st.where
  <1>3. s \in Seq(T) /\ w \in Seq(T) /\ Len(s) = Len(a) /\ Len(w) = Len(b)
    BY <1>1, <1>2
  <1> HIDE DEF s, w
  <1>4. /\ Len(a) \in Nat /\ Len(b) \in Nat
        /\ DOMAIN a = 1 .. Len(a) /\ DOMAIN b = 1 .. Len(b)
        /\ DOMAIN s = 1 .. Len(a) /\ DOMAIN w = 1 .. Len(b)
    BY <1>3
  <1>5. /\ DOMAIN (s \o w) = 1 .. Len(a) + Len(b)
        /\ \A i \in 1 .. Len(a) : (s \o w)[i] = s[i]
        /\ \A j \in 1 .. Len(b) : (s \o w)[Len(a) + j] = w[j]
    BY <1>3
  <1>6. Operands(st) = s \o w
    BY DEF Operands, s, w
  <1> QED BY <1>4, <1>5, <1>6 DEF s, w

\* A number that follows the length of the first list belongs to the second.
LEMMA KindsInOrder ==
  ASSUME NEW S, NEW a \in Seq(S), NEW b \in Seq(S), NEW st, Follows(st, a, b)
  PROVE  /\ \A i \in DOMAIN a : st.set[i].kind \in {"bind", "?"} <=> i \in SetBound(a)
         /\ \A j \in DOMAIN b : st.where[j].kind \in {"bind", "?"} <=> j \in KeyBound(b)
  <1>1. ASSUME NEW i \in DOMAIN a
        PROVE  st.set[i].kind \in {"bind", "?"} <=> i \in SetBound(a)
    BY DEF Follows, Takes, SetBound
  <1>2. ASSUME NEW j \in DOMAIN b
        PROVE  st.where[j].kind \in {"bind", "?"} <=> j \in KeyBound(b)
    BY DEF Follows, Takes, Compares, KeyBound
  <1> QED BY <1>1, <1>2

\* Either way a placeholder takes the value of its cell.
LEMMA ParametersInOrder ==
  ASSUME NEW S, NEW a \in Seq(S), NEW b \in Seq(S), NEW st, Follows(st, a, b)
  PROVE  /\ \A i \in SetBound(a) : Parameter(st, i) = Cardinality(Upto(SetBound(a), i))
         /\ \A j \in KeyBound(b) :
              Parameter(st, Len(a) + j)
                = Cardinality(SetBound(a)) + Cardinality(Upto(KeyBound(b), j))
  <1> DEFINE A == SetBound(a)
             B == KeyBound(b)
             n == Len(a)
             m == Len(b)
  <1>1. /\ n \in Nat /\ m \in Nat /\ DOMAIN a = 1 .. n /\ DOMAIN b = 1 .. m
        /\ DOMAIN Operands(st) = 1 .. n + m
        /\ \A i \in 1 .. n : Operands(st)[i] = st.set[i]
        /\ \A j \in 1 .. m : Operands(st)[n + j] = st.where[j]
    BY OperandsInOrder
  <1>2. A \subseteq 1 .. n /\ B \subseteq 1 .. m
    BY <1>1 DEF SetBound, KeyBound
  <1>3. /\ \A i \in 1 .. n : st.set[i].kind \in {"bind", "?"} <=> i \in A
        /\ \A j \in 1 .. m : st.where[j].kind \in {"bind", "?"} <=> j \in B
    BY <1>1, KindsInOrder
  <1> HIDE DEF A, B, n, m
  <1>4. CASE ByNumber(st, a, b)
    <2>1. ASSUME NEW i \in A
          PROVE  Parameter(st, i) = Cardinality(Upto(A, i))
      <3>1. st.set[i].kind = "bind" /\ st.set[i].n = Cardinality(Upto(A, i))
        BY <1>4 DEF ByNumber, A
      <3>2. Operands(st)[i] = st.set[i]
        BY <1>1, <1>2
      <3> QED BY <3>1, <3>2 DEF Parameter
    <2>2. ASSUME NEW j \in B
          PROVE  Parameter(st, n + j) = Cardinality(A) + Cardinality(Upto(B, j))
      <3>1. /\ st.where[j].kind = "bind"
            /\ st.where[j].n = Cardinality(A) + Cardinality(Upto(B, j))
        BY <1>4 DEF ByNumber, A, B
      <3>2. Operands(st)[n + j] = st.where[j]
        BY <1>1, <1>2
      <3> QED BY <3>1, <3>2 DEF Parameter
    <2> QED BY <2>1, <2>2 DEF A, B, n
  <1>5. CASE Positional(st, a, b)
    <2> DEFINE Marks(p) == {q \in 1 .. p : Operands(st)[q].kind = "?"}
    <2>1. \A i \in A : st.set[i].kind = "?"
      BY <1>5 DEF Positional, A
    <2>2. \A j \in B : st.where[j].kind = "?"
      BY <1>5 DEF Positional, B
    <2>3. \A q \in 1 .. n : Operands(st)[q].kind = "?" <=> q \in A
      BY <1>1, <1>3, <2>1
    <2>4. \A j \in 1 .. m : Operands(st)[n + j].kind = "?" <=> j \in B
      BY <1>1, <1>3, <2>2
    <2>5. ASSUME NEW i \in A
          PROVE  Parameter(st, i) = Cardinality(Upto(A, i))
      <3>1. i \in 1 .. n
        BY <1>2
      <3>2. \A q : q \in 1 .. i <=> q \in 1 .. n /\ q <= i
        BY <1>1, <3>1
      <3>3. Marks(i) = Upto(A, i)
        BY <1>2, <2>3, <3>2 DEF Upto
      <3>4. Operands(st)[i].kind # "bind"
        BY <2>3, <3>1
      <3>5. Parameter(st, i) = Cardinality(Marks(i))
        BY <3>4 DEF Parameter
      <3> QED BY <3>3, <3>5
    <2>6. ASSUME NEW j \in B
          PROVE  Parameter(st, n + j) = Cardinality(A) + Cardinality(Upto(B, j))
      <3>1. j \in 1 .. m
        BY <1>2
      <3>2. Upto(B, j) \subseteq 1 .. m
        BY <1>2 DEF Upto
      <3>3. ASSUME NEW q \in Marks(n + j)
            PROVE  q \in A \cup {n + k : k \in Upto(B, j)}
        <4>1. CASE q <= n
          BY <1>1, <2>3, <4>1
        <4>2. CASE ~(q <= n)
          <5>1. q - n \in 1 .. m /\ q - n <= j /\ q = n + (q - n)
            BY <1>1, <3>1, <4>2
          <5>2. q - n \in B
            BY <2>4, <5>1
          <5>3. q - n \in Upto(B, j)
            BY <5>1, <5>2 DEF Upto
          <5> QED BY <5>1, <5>3
        <4> QED BY <4>1, <4>2
      <3>4. A \subseteq Marks(n + j)
        BY <1>1, <1>2, <2>3, <3>1
      <3>5. ASSUME NEW k \in Upto(B, j)
            PROVE  n + k \in Marks(n + j)
        <4>1. k \in B /\ k \in 1 .. m /\ k <= j
          BY <3>2 DEF Upto
        <4>2. n + k \in 1 .. n + j
          BY <1>1, <3>1, <4>1
        <4>3. Operands(st)[n + k].kind = "?"
          BY <2>4, <4>1
        <4> QED BY <4>2, <4>3
      <3> HIDE DEF Marks
      <3>6. Marks(n + j) = A \cup {n + k : k \in Upto(B, j)}
        BY <3>3, <3>4, <3>5
      <3>7. Cardinality(A \cup {n + k : k \in Upto(B, j)})
              = Cardinality(A) + Cardinality(Upto(B, j))
        <4>1. PICK C : C = Upto(B, j)
          OBVIOUS
        <4>2. Numbers(C, m) /\ Numbers(A, n)
          BY <1>1, <1>2, <3>2, <4>1 DEF Numbers
        <4>3. Cardinality(A \cup Shifted(n, C)) = Cardinality(A) + Cardinality(C)
          BY <4>2, CountBoth
        <4> QED BY <4>1, <4>3 DEF Shifted
      <3>8. Operands(st)[n + j].kind # "bind"
        BY <2>4, <3>1
      <3>9. Parameter(st, n + j) = Cardinality(Marks(n + j))
        BY <3>8 DEF Parameter, Marks
      <3> QED BY <3>6, <3>7, <3>9
    <2> QED BY <2>5, <2>6 DEF A, B, n
  <1> QED BY <1>4, <1>5 DEF Follows

\* A server accepts the statement.
LEMMA StatementWellBound ==
  ASSUME NEW S, NEW a \in Seq(S), NEW b \in Seq(S), NEW st, Follows(st, a, b)
  PROVE  WellBound(st)
  <1> DEFINE A == SetBound(a)
             B == KeyBound(b)
             n == Len(a)
             m == Len(b)
             x == Cardinality(A)
             y == Cardinality(B)
             N == {Parameter(st, i) : i \in Placeholders(st)}
  <1>1. /\ n \in Nat /\ m \in Nat /\ DOMAIN a = 1 .. n /\ DOMAIN b = 1 .. m
        /\ DOMAIN Operands(st) = 1 .. n + m
        /\ \A i \in 1 .. n : Operands(st)[i] = st.set[i]
        /\ \A j \in 1 .. m : Operands(st)[n + j] = st.where[j]
    BY OperandsInOrder
  <1>2. A \subseteq 1 .. n /\ B \subseteq 1 .. m
    BY <1>1 DEF SetBound, KeyBound
  <1>3. /\ \A i \in 1 .. n : st.set[i].kind \in {"bind", "?"} <=> i \in A
        /\ \A j \in 1 .. m : st.where[j].kind \in {"bind", "?"} <=> j \in B
    BY <1>1, KindsInOrder
  <1>4. /\ \A i \in A : Parameter(st, i) = Cardinality(Upto(A, i))
        /\ \A j \in B : Parameter(st, n + j) = x + Cardinality(Upto(B, j))
    BY ParametersInOrder
  <1> HIDE DEF A, B, n, m
  <1>5. /\ x \in Nat
        /\ \A i \in A : Cardinality(Upto(A, i)) \in 1 .. x
        /\ \A k \in 1 .. x : Nth(A, k) \in A /\ Cardinality(Upto(A, Nth(A, k))) = k
    BY <1>1, <1>2, Numbered
  <1>6. /\ y \in Nat
        /\ \A j \in B : Cardinality(Upto(B, j)) \in 1 .. y
        /\ \A k \in 1 .. y : Nth(B, k) \in B /\ Cardinality(Upto(B, Nth(B, k))) = k
    BY <1>1, <1>2, Numbered
  <1> HIDE DEF x, y
  <1>7. \A i \in A : i \in Placeholders(st)
    BY <1>1, <1>2, <1>3 DEF Placeholders
  <1>8. \A j \in B : n + j \in Placeholders(st)
    BY <1>1, <1>2, <1>3 DEF Placeholders
  <1>9. ASSUME NEW p \in Placeholders(st)
        PROVE  p \in A \/ \E j \in B : p = n + j
    <2>1. p \in 1 .. n + m /\ Operands(st)[p].kind \in {"bind", "?"}
      BY <1>1 DEF Placeholders
    <2>2. CASE p <= n
      BY <1>1, <1>3, <2>1, <2>2
    <2>3. CASE ~(p <= n)
      <3>1. p - n \in 1 .. m /\ p = n + (p - n)
        BY <1>1, <2>1, <2>3
      <3>2. p - n \in B
        BY <1>1, <1>3, <2>1, <3>1
      <3> QED BY <3>1, <3>2
    <2> QED BY <2>2, <2>3
  <1>10. ASSUME NEW k \in N
         PROVE  k \in 1 .. x + y
    <2>1. PICK p \in Placeholders(st) : k = Parameter(st, p)
      OBVIOUS
    <2>2. CASE p \in A
      BY <1>4, <1>5, <1>6, <2>1, <2>2
    <2>3. ASSUME NEW j \in B, p = n + j
          PROVE  k \in 1 .. x + y
      BY <1>4, <1>5, <1>6, <2>1, <2>3
    <2> QED BY <1>9, <2>2, <2>3
  <1>11. ASSUME NEW k \in 1 .. x + y
         PROVE  k \in N
    <2>1. CASE k <= x
      <3>1. k \in 1 .. x
        BY <1>5, <1>6, <2>1
      <3>2. Nth(A, k) \in A /\ Parameter(st, Nth(A, k)) = k
        BY <1>4, <1>5, <3>1
      <3> QED BY <1>7, <3>2
    <2>2. CASE ~(k <= x)
      <3>1. k - x \in 1 .. y /\ k = x + (k - x)
        BY <1>5, <1>6, <2>2
      <3>2. Nth(B, k - x) \in B /\ Parameter(st, n + Nth(B, k - x)) = k
        BY <1>4, <1>6, <3>1
      <3> QED BY <1>8, <3>2
    <2> QED BY <2>1, <2>2
  <1>12. Len(st.binds) = x + y
    BY BoundInOrder DEF Follows, A, B, x, y
  <1> HIDE DEF N
  <1>13. N = 1 .. x + y
    BY <1>10, <1>11
  <1> QED BY <1>12, <1>13 DEF WellBound, N

\* Every operand is what its cell stands for.
LEMMA StatementTakes ==
  ASSUME NEW S, NEW a \in Seq(S), NEW b \in Seq(S), NEW st, Follows(st, a, b)
  PROVE  /\ \A i \in DOMAIN a : OperandValue(st, i) = Given(a[i])
         /\ \A j \in DOMAIN b : OperandValue(st, Len(st.set) + j) = Compared(b[j])
  <1> DEFINE A == SetBound(a)
             B == KeyBound(b)
             n == Len(a)
             m == Len(b)
             x == Cardinality(A)
  <1>1. /\ n \in Nat /\ m \in Nat /\ DOMAIN a = 1 .. n /\ DOMAIN b = 1 .. m
        /\ DOMAIN Operands(st) = 1 .. n + m
        /\ \A i \in 1 .. n : Operands(st)[i] = st.set[i]
        /\ \A j \in 1 .. m : Operands(st)[n + j] = st.where[j]
    BY OperandsInOrder
  <1>2. /\ \A i \in A : Parameter(st, i) = Cardinality(Upto(A, i))
        /\ \A j \in B : Parameter(st, n + j) = x + Cardinality(Upto(B, j))
    BY ParametersInOrder
  <1>3. /\ \A i \in A : Binds(a, b)[Cardinality(Upto(A, i))] = a[i].value
        /\ \A j \in B : Binds(a, b)[x + Cardinality(Upto(B, j))] = b[j].value
    <2>1. \A i \in A : Binds(a, b)[Cardinality(Upto(A, i))] = a[i].value
      BY BoundInOrder
    <2>2. \A j \in B : Binds(a, b)[x + Cardinality(Upto(B, j))] = b[j].value
      BY BoundInOrder
    <2> QED BY <2>1, <2>2
  <1>4. st.binds = Binds(a, b) /\ Len(st.set) = n
    BY DEF Follows
  <1> HIDE DEF n, m, x
  <1>5. ASSUME NEW i \in DOMAIN a
        PROVE  OperandValue(st, i) = Given(a[i])
    <2>1. Takes(st.set[i], a[i]) /\ Operands(st)[i] = st.set[i]
      BY <1>1 DEF Follows
    <2>2. CASE IsExpression(a[i])
      BY <2>1, <2>2 DEF Takes, OperandValue, Given
    <2>3. CASE ~IsExpression(a[i])
      <3>1. i \in A
        BY <2>3 DEF SetBound
      <3>2. st.binds[Parameter(st, i)] = a[i].value
        BY <1>2, <1>3, <1>4, <3>1
      <3> QED BY <2>1, <2>3, <3>2 DEF Takes, OperandValue, Given
    <2> QED BY <2>2, <2>3
  <1>6. ASSUME NEW j \in DOMAIN b
        PROVE  OperandValue(st, n + j) = Compared(b[j])
    <2>1. Compares(st.where[j], b[j]) /\ Operands(st)[n + j] = st.where[j]
      BY <1>1 DEF Follows
    <2>2. CASE b[j].value = NULL
      BY <2>1, <2>2 DEF Compares, OperandValue, Compared
    <2>3. CASE b[j].value # NULL /\ IsExpression(b[j])
      BY <2>1, <2>3 DEF Compares, Takes, OperandValue, Given, Compared
    <2>4. CASE b[j].value # NULL /\ ~IsExpression(b[j])
      <3>1. j \in B
        BY <2>4 DEF KeyBound
      <3>2. st.binds[Parameter(st, n + j)] = b[j].value
        BY <1>2, <1>3, <1>4, <3>1
      <3> QED BY <2>1, <2>4, <3>2 DEF Compares, Takes, OperandValue, Given, Compared
    <2> QED BY <2>2, <2>3, <2>4
  <1> QED BY <1>4, <1>5, <1>6

-----------------------------------------------------------------------------
(* The statements of the drivers follow their cells.                       *)

\* The driver modules know the same expressions.
LEMMA SameWords ==
  /\ \A cell : Pg!IsExpression(cell) <=> IsExpression(cell)
  /\ \A cell : MySql!IsExpression(cell) <=> IsExpression(cell)
  /\ \A cell : Sqlite!IsExpression(cell) <=> IsExpression(cell)
  /\ \A type : Pg!TemporalKind(type) = TemporalKind(type)
  /\ \A type : MySql!TemporalKind(type) = TemporalKind(type)
  /\ \A type : Sqlite!TemporalKind(type) = TemporalKind(type)
  <1>1. \A type : Pg!TemporalKind(type) = TemporalKind(type)
    BY DEF Pg!TemporalKind, TemporalKind, Pg!Words, Words
  <1>2. \A type : MySql!TemporalKind(type) = TemporalKind(type)
    BY DEF MySql!TemporalKind, TemporalKind, MySql!Words, Words
  <1>3. \A type : Sqlite!TemporalKind(type) = TemporalKind(type)
    BY DEF Sqlite!TemporalKind, TemporalKind, Sqlite!Words, Words
  <1>4. \A cell : Pg!IsExpression(cell) <=> IsExpression(cell)
    BY <1>1 DEF Pg!IsExpression, IsExpression, Pg!UsesNow, UsesNow, Pg!NowText, NowText
  <1>5. \A cell : MySql!IsExpression(cell) <=> IsExpression(cell)
    BY <1>2 DEF MySql!IsExpression, IsExpression, MySql!UsesNow, UsesNow, MySql!NowText, NowText
  <1>6. \A cell : Sqlite!IsExpression(cell) <=> IsExpression(cell)
    BY <1>3 DEF Sqlite!IsExpression, IsExpression, Sqlite!UsesNow, UsesNow, Sqlite!NowText,
                NowText
  <1> QED BY <1>1, <1>2, <1>3, <1>4, <1>5, <1>6

\* They count alike.
LEMMA SameCardinality ==
  /\ \A X : Pg!Cardinality(X) = Cardinality(X)
  /\ \A X : MySql!Cardinality(X) = Cardinality(X)
  /\ \A X : Sqlite!Cardinality(X) = Cardinality(X)
  BY DEF Pg!Cardinality, MySql!Cardinality, Sqlite!Cardinality, Cardinality

\* They pick the same values.
LEMMA SameValues ==
  ASSUME NEW cells, NEW I
  PROVE  /\ Pg!Values(cells, I) = Values(cells, I)
         /\ MySql!Values(cells, I) = Values(cells, I)
         /\ Sqlite!Values(cells, I) = Values(cells, I)
  <1>1. \A n : Pg!Nth(I, n) = Nth(I, n)
    BY SameCardinality DEF Pg!Nth, Nth
  <1>2. \A n : MySql!Nth(I, n) = Nth(I, n)
    BY SameCardinality DEF MySql!Nth, Nth
  <1>3. \A n : Sqlite!Nth(I, n) = Nth(I, n)
    BY SameCardinality DEF Sqlite!Nth, Nth
  <1>4. Pg!Values(cells, I) = Values(cells, I)
    BY <1>1, SameCardinality DEF Pg!Values, Values
  <1>5. MySql!Values(cells, I) = Values(cells, I)
    BY <1>2, SameCardinality DEF MySql!Values, Values
  <1>6. Sqlite!Values(cells, I) = Values(cells, I)
    BY <1>3, SameCardinality DEF Sqlite!Values, Values
  <1> QED BY <1>4, <1>5, <1>6

\* They bind the same.
LEMMA SameBinds ==
  ASSUME NEW cells
  PROVE  /\ Pg!SetBinds(cells) = SetBinds(cells) /\ Pg!KeyBinds(cells) = KeyBinds(cells)
         /\ MySql!SetBinds(cells) = SetBinds(cells) /\ MySql!KeyBinds(cells) = KeyBinds(cells)
         /\ Sqlite!SetBinds(cells) = SetBinds(cells) /\ Sqlite!KeyBinds(cells) = KeyBinds(cells)
  <1>1. /\ Pg!SetBound(cells) = SetBound(cells) /\ Pg!KeyBound(cells) = KeyBound(cells)
        /\ MySql!SetBound(cells) = SetBound(cells) /\ MySql!KeyBound(cells) = KeyBound(cells)
        /\ Sqlite!SetBound(cells) = SetBound(cells) /\ Sqlite!KeyBound(cells) = KeyBound(cells)
    BY SameWords DEF Pg!SetBound, MySql!SetBound, Sqlite!SetBound, SetBound,
                     Pg!KeyBound, MySql!KeyBound, Sqlite!KeyBound, KeyBound
  <1>2. Pg!SetBinds(cells) = SetBinds(cells) /\ Pg!KeyBinds(cells) = KeyBinds(cells)
    BY <1>1, SameValues DEF Pg!SetBinds, SetBinds, Pg!KeyBinds, KeyBinds
  <1>3. MySql!SetBinds(cells) = SetBinds(cells) /\ MySql!KeyBinds(cells) = KeyBinds(cells)
    BY <1>1, SameValues DEF MySql!SetBinds, SetBinds, MySql!KeyBinds, KeyBinds
  <1>4. Sqlite!SetBinds(cells) = SetBinds(cells) /\ Sqlite!KeyBinds(cells) = KeyBinds(cells)
    BY <1>1, SameValues DEF Sqlite!SetBinds, SetBinds, Sqlite!KeyBinds, KeyBinds
  <1> QED BY <1>2, <1>3, <1>4

\* Every driver has an expression for the server's clock.
LEMMA SameClock ==
  /\ \A cell : Evaluate(Pg!current_temporal_expression(cell)) = Now(cell)
  /\ \A cell : Evaluate(MySql!current_temporal_expression(cell)) = Now(cell)
  /\ \A cell : Evaluate(Sqlite!current_temporal_expression(cell)) = Now(cell)
  <1>1. \A cell : Evaluate(Pg!current_temporal_expression(cell)) = Now(cell)
    BY SameWords DEF Pg!current_temporal_expression, Evaluate, Now
  <1>2. \A cell : Evaluate(MySql!current_temporal_expression(cell)) = Now(cell)
    BY SameWords DEF MySql!current_temporal_expression, Evaluate, Now
  <1>3. \A cell : Evaluate(Sqlite!current_temporal_expression(cell)) = Now(cell)
    BY SameWords DEF Sqlite!current_temporal_expression, Evaluate, Now
  <1> QED BY <1>1, <1>2, <1>3

\* A clause of a statement, of the cells it is made from.
IsClause(s, a) == (\E T : s \in Seq(T)) /\ Len(s) = Len(a)
AllTake(s, a) == \A i \in DOMAIN a : Takes(s[i], a[i])
AllCompare(s, a) == \A i \in DOMAIN a : Compares(s[i], a[i])
AllMarked(s, I) == \A i \in I : s[i].kind = "?"
AllNumbered(s, I, used) ==
  \A i \in I : s[i].kind = "bind" /\ s[i].n = used + Cardinality(Upto(I, i))

\* A clause made of as many operands as cells is one.
LEMMA ClauseMade ==
  ASSUME NEW S, NEW a \in Seq(S), NEW s, DOMAIN s = DOMAIN a, s = [i \in DOMAIN s |-> s[i]]
  PROVE  IsClause(s, a)
  <1> DEFINE T == {s[i] : i \in DOMAIN s}
             n == Len(a)
  <1>1. n \in Nat /\ DOMAIN s = 1 .. n
    OBVIOUS
  <1>2. \A i \in 1 .. n : s[i] \in T
    BY <1>1
  <1> HIDE DEF T, n
  <1>3. s \in [1 .. n -> T]
    BY <1>1, <1>2
  <1>4. s \in Seq(T) /\ Len(s) = n
    BY <1>1, <1>3
  <1> QED BY <1>4 DEF IsClause, n

\* A statement of such clauses follows its cells.
LEMMA Follow ==
  ASSUME NEW S, NEW a \in Seq(S), NEW b \in Seq(S), NEW s, NEW w,
         IsClause(s, a), IsClause(w, b), AllTake(s, a), AllCompare(w, b),
         \/ AllMarked(s, SetBound(a)) /\ AllMarked(w, KeyBound(b))
         \/ /\ AllNumbered(s, SetBound(a), 0)
            /\ AllNumbered(w, KeyBound(b), Cardinality(SetBound(a)))
  PROVE  Follows(Statement(s, w, Binds(a, b)), a, b)
  <1> DEFINE st == Statement(s, w, Binds(a, b))
  <1>1. st.ok /\ st.set = s /\ st.where = w /\ st.binds = Binds(a, b)
    BY DEF Statement
  <1> HIDE DEF st
  <1>2. PICK T, U : s \in Seq(T) /\ w \in Seq(U)
    BY DEF IsClause
  <1>3. s \in Seq(T \cup U) /\ w \in Seq(T \cup U)
    <2> DEFINE V == T \cup U
    <2>1. T \subseteq V /\ U \subseteq V
      OBVIOUS
    <2> HIDE DEF V
    <2>2. s \in Seq(V) /\ w \in Seq(V)
      BY <1>2, <2>1
    <2> QED BY <2>2 DEF V
  <1>4. Len(s) = Len(a) /\ Len(w) = Len(b)
    BY DEF IsClause
  <1>5. CASE AllMarked(s, SetBound(a)) /\ AllMarked(w, KeyBound(b))
    <2>1. Positional(st, a, b)
      BY <1>1, <1>5 DEF Positional, AllMarked
    <2> QED BY <1>1, <1>3, <1>4, <2>1 DEF Follows, AllTake, AllCompare, st
  <1>6. CASE /\ AllNumbered(s, SetBound(a), 0)
             /\ AllNumbered(w, KeyBound(b), Cardinality(SetBound(a)))
    <2>1. \A i \in SetBound(a) : Cardinality(Upto(SetBound(a), i)) \in Int
      BY BoundInOrder
    <2>2. ByNumber(st, a, b)
      BY <1>1, <1>6, <2>1 DEF ByNumber, AllNumbered
    <2> QED BY <1>1, <1>3, <1>4, <2>2 DEF Follows, AllTake, AllCompare, st
  <1> QED BY <1>5, <1>6

\* What is bound up to a cell.
LEMMA BoundUpTo ==
  ASSUME NEW S, NEW a \in Seq(S), NEW i \in DOMAIN a
  PROVE  /\ Len(SetBinds(SubSeq(a, 1, i))) = Cardinality(Upto(SetBound(a), i))
         /\ Len(KeyBinds(SubSeq(a, 1, i))) = Cardinality(Upto(KeyBound(a), i))
  <1> DEFINE p == SubSeq(a, 1, i)
  <1>1. i \in 1 .. Len(a) /\ Len(a) \in Nat /\ DOMAIN a = 1 .. Len(a)
    OBVIOUS
  <1>2. p \in Seq(S) /\ DOMAIN p = 1 .. i /\ \A j \in 1 .. i : p[j] = a[j]
    BY <1>1
  <1> HIDE DEF p
  <1>3. \A j : j \in 1 .. i <=> j \in DOMAIN a /\ j <= i
    BY <1>1
  <1>4. SetBound(p) = Upto(SetBound(a), i)
    BY <1>2, <1>3 DEF SetBound, Upto
  <1>5. KeyBound(p) = Upto(KeyBound(a), i)
    BY <1>2, <1>3 DEF KeyBound, Upto
  <1>6. SetBound(p) \subseteq DOMAIN p /\ KeyBound(p) \subseteq DOMAIN p
    BY DEF SetBound, KeyBound
  <1>7. InOrder(p, SetBound(p)) /\ InOrder(p, KeyBound(p))
    BY <1>2, <1>6, ValuesInOrder
  <1>8. Len(SetBinds(p)) = Cardinality(SetBound(p))
    BY <1>7 DEF SetBinds, InOrder
  <1>9. Len(KeyBinds(p)) = Cardinality(KeyBound(p))
    BY <1>7 DEF KeyBinds, InOrder
  <1>10. /\ Len(SetBinds(p)) = Cardinality(Upto(SetBound(a), i))
         /\ Len(KeyBinds(p)) = Cardinality(Upto(KeyBound(a), i))
    BY <1>4, <1>5, <1>8, <1>9
  <1> QED BY <1>10 DEF p

\* Of nothing, nothing is bound.
LEMMA NothingBound == SetBinds(<<>>) = <<>> /\ KeyBinds(<<>>) = <<>>
  <1>1. SetBound(<<>>) = {} /\ KeyBound(<<>>) = {}
    BY DEF SetBound, KeyBound
  <1>2. Cardinality({}) = 0
    BY FS_EmptySet
  <1>3. Values(<<>>, {}) = <<>>
    BY <1>2 DEF Values
  <1> QED BY <1>1, <1>3 DEF SetBinds, KeyBinds

\* A statement without WHERE, or without SET, binds the rest.
LEMMA NothingToBind ==
  ASSUME NEW S, NEW a \in Seq(S)
  PROVE  SetBinds(a) = Binds(a, <<>>) /\ KeyBinds(a) = Binds(<<>>, a)
  <1>1. SetBound(a) \subseteq DOMAIN a /\ KeyBound(a) \subseteq DOMAIN a
    BY DEF SetBound, KeyBound
  <1>2. InOrder(a, SetBound(a)) /\ InOrder(a, KeyBound(a))
    BY <1>1, ValuesInOrder
  <1>3. PICK T : SetBinds(a) \in Seq(T)
    BY <1>2 DEF InOrder, SetBinds
  <1>4. PICK U : KeyBinds(a) \in Seq(U)
    BY <1>2 DEF InOrder, KeyBinds
  <1>5. \A s \in Seq(T) : s \o <<>> = s
    OBVIOUS
  <1>6. \A s \in Seq(U) : <<>> \o s = s
    OBVIOUS
  <1> QED BY <1>3, <1>4, <1>5, <1>6, NothingBound DEF Binds

\* The fields of an operand.
LEMMA OperandFields ==
  ASSUME NEW column, NEW kind, NEW n, NEW e
  PROVE  /\ Pg!Operand(column, kind, n, e).column = column
         /\ Pg!Operand(column, kind, n, e).kind = kind
         /\ Pg!Operand(column, kind, n, e).n = n
         /\ Pg!Operand(column, kind, n, e).e = e
         /\ MySql!Operand(column, kind, n, e).column = column
         /\ MySql!Operand(column, kind, n, e).kind = kind
         /\ MySql!Operand(column, kind, n, e).e = e
         /\ Sqlite!Operand(column, kind, n, e).column = column
         /\ Sqlite!Operand(column, kind, n, e).kind = kind
         /\ Sqlite!Operand(column, kind, n, e).e = e
  BY DEF Pg!Operand, MySql!Operand, Sqlite!Operand

\* The fields of the operands without a value.
LEMMA MarkFields ==
  ASSUME NEW column
  PROVE  /\ Pg!IsNull(column).column = column /\ Pg!IsNull(column).kind = "null"
         /\ MySql!IsNull(column).column = column /\ MySql!IsNull(column).kind = "null"
         /\ Sqlite!IsNull(column).column = column /\ Sqlite!IsNull(column).kind = "null"
         /\ MySql!Question(column).column = column /\ MySql!Question(column).kind = "?"
         /\ Sqlite!Question(column).column = column /\ Sqlite!Question(column).kind = "?"
  BY DEF Pg!IsNull, MySql!IsNull, Sqlite!IsNull, MySql!Question, Sqlite!Question,
         Pg!Operand, MySql!Operand, Sqlite!Operand

\* PostgreSQL numbers its placeholders.
LEMMA PgSet ==
  ASSUME NEW S, NEW a \in Seq(S)
  PROVE  /\ IsClause(Pg!SetClause(a, 0), a)
         /\ AllTake(Pg!SetClause(a, 0), a)
         /\ AllNumbered(Pg!SetClause(a, 0), SetBound(a), 0)
  <1>1. PICK s : s = Pg!SetClause(a, 0)
    OBVIOUS
  <1>2. /\ DOMAIN s = DOMAIN a /\ s = [i \in DOMAIN s |-> s[i]]
        /\ \A i \in DOMAIN a :
             s[i] = IF IsExpression(a[i])
                    THEN Pg!Expression(a[i].column, Pg!current_temporal_expression(a[i]))
                    ELSE Pg!cast_placeholder(a[i].column, 0 + Len(SetBinds(SubSeq(a, 1, i))),
                                             a[i].data_type)
    BY <1>1, SameWords, SameBinds DEF Pg!SetClause
  <1>3. IsClause(s, a)
    BY <1>2, ClauseMade
  <1>4. ASSUME NEW i \in DOMAIN a
        PROVE  Takes(s[i], a[i])
    <2>1. CASE IsExpression(a[i])
      <3>1. s[i] = Pg!Expression(a[i].column, Pg!current_temporal_expression(a[i]))
        BY <1>2, <2>1
      <3> QED BY <2>1, <3>1, SameClock, OperandFields DEF Takes, Pg!Expression
    <2>2. CASE ~IsExpression(a[i])
      <3>1. s[i] = Pg!cast_placeholder(a[i].column,
                                  0 + Len(SetBinds(SubSeq(a, 1, i))), a[i].data_type)
        BY <1>2, <2>2
      <3> QED BY <2>2, <3>1, OperandFields DEF Takes, Pg!cast_placeholder
    <2> QED BY <2>1, <2>2
  <1>5. ASSUME NEW i \in SetBound(a)
        PROVE  s[i].kind = "bind" /\ s[i].n = 0 + Cardinality(Upto(SetBound(a), i))
    <2>1. i \in DOMAIN a /\ ~IsExpression(a[i])
      BY DEF SetBound
    <2>2. Len(SetBinds(SubSeq(a, 1, i))) = Cardinality(Upto(SetBound(a), i))
      BY <2>1, BoundUpTo
    <2>3. s[i] = Pg!cast_placeholder(a[i].column, 0 + Len(SetBinds(SubSeq(a, 1, i))),
                                    a[i].data_type)
      BY <1>2, <2>1
    <2> QED BY <2>2, <2>3, OperandFields DEF Pg!cast_placeholder
  <1> QED BY <1>1, <1>3, <1>4, <1>5 DEF AllTake, AllNumbered

\* The same of PostgreSQL's WHERE.
LEMMA PgWhere ==
  ASSUME NEW S, NEW b \in Seq(S), NEW used
  PROVE  /\ IsClause(Pg!WhereClause(b, used), b)
         /\ AllCompare(Pg!WhereClause(b, used), b)
         /\ AllNumbered(Pg!WhereClause(b, used), KeyBound(b), used)
  <1>1. PICK w : w = Pg!WhereClause(b, used)
    OBVIOUS
  <1>2. /\ DOMAIN w = DOMAIN b /\ w = [i \in DOMAIN w |-> w[i]]
        /\ \A i \in DOMAIN b :
             w[i] = IF b[i].value = NULL THEN Pg!IsNull(b[i].column)
                    ELSE IF IsExpression(b[i])
                    THEN Pg!Expression(b[i].column, Pg!current_temporal_expression(b[i]))
                    ELSE Pg!cast_placeholder(b[i].column, used + Len(KeyBinds(SubSeq(b, 1, i))),
                                             b[i].data_type)
    BY <1>1, SameWords, SameBinds DEF Pg!WhereClause
  <1>3. IsClause(w, b)
    BY <1>2, ClauseMade
  <1>4. ASSUME NEW i \in DOMAIN b
        PROVE  Compares(w[i], b[i])
    <2>1. CASE b[i].value = NULL
      <3>1. w[i] = Pg!IsNull(b[i].column)
        BY <1>2, <2>1
      <3> QED BY <2>1, <3>1, MarkFields DEF Compares, Takes
    <2>2. CASE b[i].value # NULL /\ IsExpression(b[i])
      <3>1. w[i] = Pg!Expression(b[i].column, Pg!current_temporal_expression(b[i]))
        BY <1>2, <2>2
      <3> QED BY <2>2, <3>1, SameClock, OperandFields DEF Compares, Takes, Pg!Expression
    <2>3. CASE b[i].value # NULL /\ ~IsExpression(b[i])
      <3>1. w[i] = Pg!cast_placeholder(b[i].column,
                                  used + Len(KeyBinds(SubSeq(b, 1, i))), b[i].data_type)
        BY <1>2, <2>3
      <3> QED BY <2>3, <3>1, OperandFields DEF Compares, Takes, Pg!cast_placeholder
    <2> QED BY <2>1, <2>2, <2>3
  <1>5. ASSUME NEW i \in KeyBound(b)
        PROVE  w[i].kind = "bind" /\ w[i].n = used + Cardinality(Upto(KeyBound(b), i))
    <2>1. i \in DOMAIN b /\ b[i].value # NULL /\ ~IsExpression(b[i])
      BY DEF KeyBound
    <2>2. Len(KeyBinds(SubSeq(b, 1, i))) = Cardinality(Upto(KeyBound(b), i))
      BY <2>1, BoundUpTo
    <2>3. w[i] = Pg!cast_placeholder(b[i].column, used + Len(KeyBinds(SubSeq(b, 1, i))),
                                    b[i].data_type)
      BY <1>2, <2>1
    <2> QED BY <2>2, <2>3, OperandFields DEF Pg!cast_placeholder
  <1> QED BY <1>1, <1>3, <1>4, <1>5 DEF AllCompare, AllNumbered

\* The other two mark theirs.
LEMMA MySqlClauses ==
  ASSUME NEW S, NEW a \in Seq(S)
  PROVE  /\ IsClause(MySql!SetClause(a), a) /\ IsClause(MySql!WhereClause(a), a)
         /\ AllTake(MySql!SetClause(a), a) /\ AllCompare(MySql!WhereClause(a), a)
         /\ AllMarked(MySql!SetClause(a), SetBound(a))
         /\ AllMarked(MySql!WhereClause(a), KeyBound(a))
  <1>1. PICK s, w : s = MySql!SetClause(a) /\ w = MySql!WhereClause(a)
    OBVIOUS
  <1>2. /\ DOMAIN s = DOMAIN a /\ s = [i \in DOMAIN s |-> s[i]]
        /\ \A i \in DOMAIN a :
             s[i] = IF IsExpression(a[i])
                    THEN MySql!Expression(a[i].column, MySql!current_temporal_expression(a[i]))
                    ELSE MySql!Question(a[i].column)
    BY <1>1, SameWords DEF MySql!SetClause, MySql!Written
  <1>3. /\ DOMAIN w = DOMAIN a /\ w = [i \in DOMAIN w |-> w[i]]
        /\ \A i \in DOMAIN a :
             w[i] = IF a[i].value = NULL THEN MySql!IsNull(a[i].column)
                    ELSE IF IsExpression(a[i])
                    THEN MySql!Expression(a[i].column, MySql!current_temporal_expression(a[i]))
                    ELSE MySql!Question(a[i].column)
    BY <1>1, SameWords DEF MySql!WhereClause, MySql!Written
  <1>4. IsClause(s, a) /\ IsClause(w, a)
    BY <1>2, <1>3, ClauseMade
  <1>5. ASSUME NEW i \in DOMAIN a
        PROVE  Takes(s[i], a[i])
    <2>1. CASE IsExpression(a[i])
      <3>1. s[i] = MySql!Expression(a[i].column, MySql!current_temporal_expression(a[i]))
        BY <1>2, <2>1
      <3> QED BY <2>1, <3>1, SameClock, OperandFields DEF Takes, MySql!Expression
    <2>2. CASE ~IsExpression(a[i])
      <3>1. s[i] = MySql!Question(a[i].column)
        BY <1>2, <2>2
      <3> QED BY <2>2, <3>1, MarkFields DEF Takes
    <2> QED BY <2>1, <2>2
  <1>6. ASSUME NEW i \in DOMAIN a
        PROVE  Compares(w[i], a[i])
    <2>1. CASE a[i].value = NULL
      <3>1. w[i] = MySql!IsNull(a[i].column)
        BY <1>3, <2>1
      <3> QED BY <2>1, <3>1, MarkFields DEF Compares, Takes
    <2>2. CASE a[i].value # NULL /\ IsExpression(a[i])
      <3>1. w[i] = MySql!Expression(a[i].column, MySql!current_temporal_expression(a[i]))
        BY <1>3, <2>2
      <3> QED BY <2>2, <3>1, SameClock, OperandFields DEF Compares, Takes, MySql!Expression
    <2>3. CASE a[i].value # NULL /\ ~IsExpression(a[i])
      <3>1. w[i] = MySql!Question(a[i].column)
        BY <1>3, <2>3
      <3> QED BY <2>3, <3>1, MarkFields DEF Compares, Takes
    <2> QED BY <2>1, <2>2, <2>3
  <1>7. ASSUME NEW i \in SetBound(a)
        PROVE  s[i].kind = "?"
    <2>1. i \in DOMAIN a /\ ~IsExpression(a[i])
      BY DEF SetBound
    <2>2. s[i] = MySql!Question(a[i].column)
      BY <1>2, <2>1
    <2> QED BY <2>2, MarkFields
  <1>8. ASSUME NEW i \in KeyBound(a)
        PROVE  w[i].kind = "?"
    <2>1. i \in DOMAIN a /\ a[i].value # NULL /\ ~IsExpression(a[i])
      BY DEF KeyBound
    <2>2. w[i] = MySql!Question(a[i].column)
      BY <1>3, <2>1
    <2> QED BY <2>2, MarkFields
  <1> QED BY <1>1, <1>4, <1>5, <1>6, <1>7, <1>8 DEF AllTake, AllCompare, AllMarked

SqliteSet(a) == [i \in DOMAIN a |-> Sqlite!Written(a[i])]

\* The clauses of SQLite.
LEMMA SqliteClauses ==
  ASSUME NEW S, NEW a \in Seq(S)
  PROVE  /\ IsClause(SqliteSet(a), a) /\ IsClause(Sqlite!WhereClause(a), a)
         /\ AllTake(SqliteSet(a), a) /\ AllCompare(Sqlite!WhereClause(a), a)
         /\ AllMarked(SqliteSet(a), SetBound(a))
         /\ AllMarked(Sqlite!WhereClause(a), KeyBound(a))
  <1>1. PICK s, w : s = SqliteSet(a) /\ w = Sqlite!WhereClause(a)
    OBVIOUS
  <1>2. /\ DOMAIN s = DOMAIN a /\ s = [i \in DOMAIN s |-> s[i]]
        /\ \A i \in DOMAIN a :
             s[i] = IF IsExpression(a[i])
                    THEN Sqlite!Expression(a[i].column, Sqlite!current_temporal_expression(a[i]))
                    ELSE Sqlite!Question(a[i].column)
    BY <1>1, SameWords DEF SqliteSet, Sqlite!Written
  <1>3. /\ DOMAIN w = DOMAIN a /\ w = [i \in DOMAIN w |-> w[i]]
        /\ \A i \in DOMAIN a :
             w[i] = IF a[i].value = NULL THEN Sqlite!IsNull(a[i].column)
                    ELSE IF IsExpression(a[i])
                    THEN Sqlite!Expression(a[i].column, Sqlite!current_temporal_expression(a[i]))
                    ELSE Sqlite!Question(a[i].column)
    BY <1>1, SameWords DEF Sqlite!WhereClause, Sqlite!Written
  <1>4. IsClause(s, a) /\ IsClause(w, a)
    BY <1>2, <1>3, ClauseMade
  <1>5. ASSUME NEW i \in DOMAIN a
        PROVE  Takes(s[i], a[i])
    <2>1. CASE IsExpression(a[i])
      <3>1. s[i] = Sqlite!Expression(a[i].column, Sqlite!current_temporal_expression(a[i]))
        BY <1>2, <2>1
      <3> QED BY <2>1, <3>1, SameClock, OperandFields DEF Takes, Sqlite!Expression
    <2>2. CASE ~IsExpression(a[i])
      <3>1. s[i] = Sqlite!Question(a[i].column)
        BY <1>2, <2>2
      <3> QED BY <2>2, <3>1, MarkFields DEF Takes
    <2> QED BY <2>1, <2>2
  <1>6. ASSUME NEW i \in DOMAIN a
        PROVE  Compares(w[i], a[i])
    <2>1. CASE a[i].value = NULL
      <3>1. w[i] = Sqlite!IsNull(a[i].column)
        BY <1>3, <2>1
      <3> QED BY <2>1, <3>1, MarkFields DEF Compares, Takes
    <2>2. CASE a[i].value # NULL /\ IsExpression(a[i])
      <3>1. w[i] = Sqlite!Expression(a[i].column, Sqlite!current_temporal_expression(a[i]))
        BY <1>3, <2>2
      <3> QED BY <2>2, <3>1, SameClock, OperandFields DEF Compares, Takes, Sqlite!Expression
    <2>3. CASE a[i].value # NULL /\ ~IsExpression(a[i])
      <3>1. w[i] = Sqlite!Question(a[i].column)
        BY <1>3, <2>3
      <3> QED BY <2>3, <3>1, MarkFields DEF Compares, Takes
    <2> QED BY <2>1, <2>2, <2>3
  <1>7. ASSUME NEW i \in SetBound(a)
        PROVE  s[i].kind = "?"
    <2>1. i \in DOMAIN a /\ ~IsExpression(a[i])
      BY DEF SetBound
    <2>2. s[i] = Sqlite!Question(a[i].column)
      BY <1>2, <2>1
    <2> QED BY <2>2, MarkFields
  <1>8. ASSUME NEW i \in KeyBound(a)
        PROVE  w[i].kind = "?"
    <2>1. i \in DOMAIN a /\ a[i].value # NULL /\ ~IsExpression(a[i])
      BY DEF KeyBound
    <2>2. w[i] = Sqlite!Question(a[i].column)
      BY <1>3, <2>1
    <2> QED BY <2>2, MarkFields
  <1> QED BY <1>1, <1>4, <1>5, <1>6, <1>7, <1>8 DEF AllTake, AllCompare, AllMarked


\* Whatever the engine, a row statement follows the cells it is given.
LEMMA RowStatements ==
  ASSUME NEW S, NEW a \in Seq(S), NEW b \in Seq(S), a # <<>>, b # <<>>
  PROVE  /\ Follows(update_row(a, b), a, b)
         /\ Follows(insert_row(a), a, <<>>)
         /\ Follows(delete_row(b), <<>>, b)
  <1>1. PICK none \in Seq(S) : none = <<>>
    <2>1. <<>> \in Seq(S)
      OBVIOUS
    <2> QED BY <2>1
  <1>2. SetBinds(a) = Binds(a, none) /\ KeyBinds(b) = Binds(none, b)
    BY <1>1, NothingToBind
  <1>3. SetBinds(a) \o KeyBinds(b) = Binds(a, b)
    BY DEF Binds
  <1>4. SetBound(none) = {} /\ KeyBound(none) = {}
    BY <1>1 DEF SetBound, KeyBound
  <1>5. /\ IsClause(none, none) /\ AllTake(none, none) /\ AllCompare(none, none)
        /\ AllMarked(none, SetBound(none)) /\ AllMarked(none, KeyBound(none))
        /\ AllNumbered(none, SetBound(none), 0)
        /\ AllNumbered(none, KeyBound(none), Cardinality(SetBound(a)))
    BY <1>1, <1>4 DEF IsClause, AllTake, AllCompare, AllMarked, AllNumbered
  <1>6. Cardinality(SetBound(none)) = 0
    BY <1>4, FS_EmptySet
  <1>7. Len(SetBinds(a)) = Cardinality(SetBound(a))
    <2>1. SetBound(a) \subseteq DOMAIN a
      BY DEF SetBound
    <2>2. InOrder(a, SetBound(a))
      BY <2>1, ValuesInOrder
    <2> QED BY <2>2 DEF InOrder, SetBinds
  <1>8. CASE table.engine = "postgres"
    <2>1. PICK s, w, v : /\ s = Pg!SetClause(a, 0) /\ v = Pg!WhereClause(b, 0)
                         /\ w = Pg!WhereClause(b, Cardinality(SetBound(a)))
      OBVIOUS
    <2>2. /\ IsClause(s, a) /\ AllTake(s, a) /\ AllNumbered(s, SetBound(a), 0)
      BY <2>1, PgSet
    <2>3. /\ IsClause(w, b) /\ AllCompare(w, b)
          /\ AllNumbered(w, KeyBound(b), Cardinality(SetBound(a)))
      BY <2>1, PgWhere
    <2>4. /\ IsClause(v, b) /\ AllCompare(v, b)
          /\ AllNumbered(v, KeyBound(b), Cardinality(SetBound(none)))
      BY <1>6, <2>1, PgWhere
    <2>5. /\ update_row(a, b) = Statement(s, w, Binds(a, b))
          /\ insert_row(a) = Statement(s, none, Binds(a, none))
          /\ delete_row(b) = Statement(none, v, Binds(none, b))
      BY <1>1, <1>2, <1>3, <1>7, <1>8, <2>1, SameBinds
         DEF update_row, insert_row, delete_row, Pg!update_row, Pg!insert_row, Pg!delete_row,
             Pg!Statement, Statement
    <2>6. Follows(Statement(s, w, Binds(a, b)), a, b)
      BY <2>2, <2>3, Follow
    <2>7. Follows(Statement(s, none, Binds(a, none)), a, none)
      BY <1>1, <1>5, <2>2, Follow
    <2>8. Follows(Statement(none, v, Binds(none, b)), none, b)
      BY <1>1, <1>5, <2>4, Follow
    <2> QED BY <1>1, <2>5, <2>6, <2>7, <2>8
  <1>9. CASE table.engine = "mysql"
    <2>1. PICK s, w : s = MySql!SetClause(a) /\ w = MySql!WhereClause(b)
      OBVIOUS
    <2>2. /\ IsClause(s, a) /\ AllTake(s, a) /\ AllMarked(s, SetBound(a))
          /\ IsClause(w, b) /\ AllCompare(w, b) /\ AllMarked(w, KeyBound(b))
      BY <2>1, MySqlClauses
    <2>3. /\ update_row(a, b) = Statement(s, w, Binds(a, b))
          /\ insert_row(a) = Statement(s, none, Binds(a, none))
          /\ delete_row(b) = Statement(none, w, Binds(none, b))
      BY <1>1, <1>2, <1>3, <1>9, <2>1, SameBinds
         DEF update_row, insert_row, delete_row, MySql!update_row, MySql!insert_row,
             MySql!delete_row, MySql!Statement, Statement
    <2>4. Follows(Statement(s, w, Binds(a, b)), a, b)
      BY <2>2, Follow
    <2>5. Follows(Statement(s, none, Binds(a, none)), a, none)
      BY <1>1, <1>5, <2>2, Follow
    <2>6. Follows(Statement(none, w, Binds(none, b)), none, b)
      BY <1>1, <1>5, <2>2, Follow
    <2> QED BY <1>1, <2>3, <2>4, <2>5, <2>6
  <1>10. CASE table.engine # "postgres" /\ table.engine # "mysql"
    <2>1. PICK s, w : s = SqliteSet(a) /\ w = Sqlite!WhereClause(b)
      OBVIOUS
    <2>2. /\ IsClause(s, a) /\ AllTake(s, a) /\ AllMarked(s, SetBound(a))
          /\ IsClause(w, b) /\ AllCompare(w, b) /\ AllMarked(w, KeyBound(b))
      BY <2>1, SqliteClauses
    <2>3. /\ update_row(a, b) = Statement(s, w, Binds(a, b))
          /\ insert_row(a) = Statement(s, none, Binds(a, none))
          /\ delete_row(b) = Statement(none, w, Binds(none, b))
      BY <1>1, <1>2, <1>3, <1>10, <2>1, SameBinds
         DEF update_row, insert_row, delete_row, Sqlite!update_row, Sqlite!insert_row,
             Sqlite!delete_row, Sqlite!Statement, Statement, SqliteSet
    <2>4. Follows(Statement(s, w, Binds(a, b)), a, b)
      BY <2>2, Follow
    <2>5. Follows(Statement(s, none, Binds(a, none)), a, none)
      BY <1>1, <1>5, <2>2, Follow
    <2>6. Follows(Statement(none, w, Binds(none, b)), none, b)
      BY <1>1, <1>5, <2>2, Follow
    <2> QED BY <1>1, <2>3, <2>4, <2>5, <2>6
  <1> QED BY <1>8, <1>9, <1>10

-----------------------------------------------------------------------------
(* The values of the two columns, and their texts.                         *)

TableTyped ==
  /\ table.engine \in {"postgres", "mysql", "sqlite"}
  /\ table.type \in Types[table.engine]
  /\ table.pk \in BOOLEAN

\* What a column v may hold, as far as the properties tell values apart.
Held ==
  {NULL} \cup (IF Lossy THEN Seq(Tokens) ELSE Payloads(table.engine, table.type))

Keys == {<<"1">>, <<"2">>, <<"3">>, <<"4">>, <<"10">>}
TableRow == [k : Keys, v : Held]

\* One token is a text, and so are two.
LEMMA TokenTexts ==
  /\ \A c \in Tokens : <<c>> \in Seq(Tokens)
  /\ \A c, d \in Tokens : <<c, d>> \in Seq(Tokens)
  OBVIOUS

\* NULL is no text, no list of numbers and no printed interval.
LEMMA NullIsNoText ==
  ASSUME NEW x \in Seq(Tokens) \cup Seq(Int) \cup Interval
  PROVE  x # NULL
  BY RowEditAssumption DEF RowEditAssumption

\* The types of each engine.
LEMMA TypesOfEngine ==
  ASSUME TableTyped
  PROVE  \/ table.engine = "postgres"
              /\ table.type \in {"text", "bytes", "date", "timestamp", "interval", "enum"}
         \/ table.engine = "mysql" /\ table.type \in {"text", "bytes", "decimal", "datetime"}
         \/ table.engine = "sqlite" /\ table.type \in {"text", "bytes", "bool", "time"}
  <1>1. /\ Types["postgres"] = {"text", "bytes", "date", "timestamp", "interval", "enum"}
        /\ Types["mysql"] = {"text", "bytes", "decimal", "datetime"}
        /\ Types["sqlite"] = {"text", "bytes", "bool", "time"}
    BY DEF Types
  <1> QED BY <1>1 DEF TableTyped

\* The kinds of the types.
LEMMA KindsOfTypes ==
  /\ TemporalKind("date") = "Date" /\ TemporalKind("time") = "Time"
  /\ TemporalKind("timestamp") = "DateTime" /\ TemporalKind("datetime") = "DateTime"
  /\ TemporalKind("text") = "None" /\ TemporalKind("bytes") = "None"
  /\ TemporalKind("bool") = "None" /\ TemporalKind("decimal") = "None"
  /\ TemporalKind("interval") = "None" /\ TemporalKind("enum") = "None"
  /\ TemporalKind("int") = "None"
  <1>1. /\ Words["date"] = {"date"} /\ Words["time"] = {"time"}
        /\ Words["timestamp"] = {"timestamp", "time"}
        /\ Words["datetime"] = {"datetime", "date", "time"}
        /\ Words["text"] = {} /\ Words["bytes"] = {} /\ Words["bool"] = {}
        /\ Words["decimal"] = {} /\ Words["interval"] = {} /\ Words["enum"] = {}
        /\ Words["int"] = {}
    BY DEF Words
  <1>2. TemporalKind("date") = "Date" /\ TemporalKind("time") = "Time"
    BY <1>1 DEF TemporalKind
  <1>3. TemporalKind("timestamp") = "DateTime" /\ TemporalKind("datetime") = "DateTime"
    BY <1>1 DEF TemporalKind
  <1>4. /\ TemporalKind("text") = "None" /\ TemporalKind("bytes") = "None"
        /\ TemporalKind("bool") = "None" /\ TemporalKind("decimal") = "None"
        /\ TemporalKind("interval") = "None" /\ TemporalKind("enum") = "None"
        /\ TemporalKind("int") = "None"
    BY <1>1 DEF TemporalKind
  <1> QED BY <1>2, <1>3, <1>4

\* A key is shown and read as it is.
LEMMA KeyText ==
  ASSUME TableTyped
  PROVE  /\ \A x : Shown("k", x) = x /\ Store("k", x) = x /\ QueryText("k", x) = x
         /\ \A x : ~IsExpression(Cell("k", x))
  <1>1. TypeOf("k") = "int"
    BY DEF TypeOf
  <1>2. \A x : ~IsExpression(Cell("k", x))
    BY <1>1, KindsOfTypes DEF IsExpression, Cell
  <1>3. ASSUME NEW x
        PROVE  Shown("k", x) = x
    BY <1>1, TypesOfEngine
       DEF Shown, Pg!AsText, MySql!PageText, Sqlite!value_to_string
  <1>4. ASSUME NEW x
        PROVE  Store("k", x) = x
    BY <1>1, TypesOfEngine DEF Store, Pg!Store, MySql!Store, Sqlite!Store
  <1>5. ASSUME NEW x
        PROVE  QueryText("k", x) = x
    BY <1>1, TypesOfEngine
       DEF QueryText, Pg!pg_value_to_string, Pg!AsText, MySql!value_to_string, MySql!PageText,
           Sqlite!value_to_string
  <1> QED BY <1>2, <1>3, <1>4, <1>5

\* A mark in front of a text is taken off again.
LEMMA Marked ==
  ASSUME NEW S, NEW mark \in S, NEW p \in Seq(S)
  PROVE  /\ <<mark>> \o p \in Seq(S) /\ Head(<<mark>> \o p) = mark
         /\ Tail(<<mark>> \o p) = p
  <1>1. <<mark>> \in Seq(S) /\ Len(<<mark>>) = 1 /\ <<mark>>[1] = mark
    OBVIOUS
  <1>2. PICK m : m = <<mark>>
    OBVIOUS
  <1>3. PICK n : n = Len(p)
    OBVIOUS
  <1>4. PICK q : q = m \o p
    OBVIOUS
  <1>5. /\ n \in Nat /\ q \in Seq(S) /\ Len(q) = n + 1 /\ q[1] = mark
        /\ \A i \in 1 .. n : q[i + 1] = p[i]
    BY <1>1, <1>2, <1>3, <1>4
  <1>6. q # <<>>
    BY <1>5
  <1>7. /\ Tail(q) \in Seq(S) /\ Len(Tail(q)) = n
        /\ \A i \in 1 .. Len(Tail(q)) : Tail(q)[i] = q[i + 1]
    <2>1. Tail(q) \in Seq(S) /\ Len(Tail(q)) = Len(q) - 1
      BY <1>5, <1>6, HeadTailProperties
    <2>2. \A i \in 1 .. Len(Tail(q)) : Tail(q)[i] = q[i + 1]
      BY <1>5, <1>6, HeadTailProperties
    <2> QED BY <1>5, <2>1, <2>2
  <1>8. Tail(q) = p
    <2>1. Len(Tail(q)) = Len(p) /\ \A i \in 1 .. Len(Tail(q)) : Tail(q)[i] = p[i]
      BY <1>3, <1>5, <1>7
    <2> QED BY <1>7, <2>1, SeqEqual
  <1>9. Head(q) = mark
    BY <1>5
  <1> QED BY <1>2, <1>4, <1>5, <1>8, <1>9

\* The values of the instances: texts, or intervals.
LEMMA PayloadKinds ==
  ASSUME TableTyped
  PROVE  /\ table.type # "interval" => Payloads(table.engine, table.type) \subseteq Seq(Tokens)
         /\ Payloads(table.engine, table.type) \subseteq Seq(Tokens) \cup Seq(Int)
         /\ NULL \notin Payloads(table.engine, table.type)
         /\ TemporalKind(table.type) # "None" => NowText \notin Payloads(table.engine, table.type)
  <1> DEFINE P == Payloads(table.engine, table.type)
  <1>0. \A x, y, z \in Int : <<x, y, z>> \in Seq(Int)
    OBVIOUS
  <1>1. CASE table.type = "interval"
    <2>1. P = {<<15, 3, 60 * Pg!Second + 1>>, <<-13, 0, -3601 * Pg!Second>>}
      BY <1>1 DEF Payloads
    <2>2. 60 * Pg!Second + 1 \in Int /\ -3601 * Pg!Second \in Int /\ -13 \in Int
      BY DEF Pg!Second
    <2>3. P \subseteq Seq(Int)
      <3> HIDE DEF P
      <3> QED BY <1>0, <2>1, <2>2
    <2> HIDE DEF P
    <2>4. P \subseteq Seq(Tokens) \cup Seq(Int)
      BY <2>3
    <2>5. NULL \notin P
      BY <2>4, NullIsNoText
    <2> QED BY <1>1, <2>4, <2>5, KindsOfTypes DEF P
  <1>2. CASE table.type # "interval"
    <2>1. /\ P \in {{<<"a">>, <<"b">>}, {<<"b1">>, <<"b2">>}, {<<"1.5">>, <<"2">>},
                    {<<"T">>, <<"F">>}, {Clock.today, <<"2000-02-29">>},
                    {Clock.noon, <<"23:59:59">>}, {Clock.both, <<"2000-02-29", "23:59:59">>}}
      BY <1>2, TypesOfEngine DEF Payloads
    <2>2. /\ Clock.today = <<"2026-07-08">> /\ Clock.noon = <<"12:00:00">>
          /\ Clock.both = <<"2026-07-08", "12:00:00">>
      BY DEF Clock
    <2> HIDE DEF P
    <2>3. P \subseteq Seq(Tokens)
      <3>1. \A p \in P : \/ p \in {<<"a">>, <<"b">>, <<"b1">>, <<"b2">>, <<"1.5">>, <<"2">>}
                         \/ p \in {<<"T">>, <<"F">>, Clock.today, <<"2000-02-29">>}
                         \/ p \in {Clock.noon, <<"23:59:59">>}
                         \/ p \in {Clock.both, <<"2000-02-29", "23:59:59">>}
        BY <2>1
      <3>2. /\ <<"a">> \in Seq(Tokens) /\ <<"b">> \in Seq(Tokens) /\ <<"b1">> \in Seq(Tokens)
            /\ <<"b2">> \in Seq(Tokens) /\ <<"1.5">> \in Seq(Tokens) /\ <<"2">> \in Seq(Tokens)
        BY TokenTexts DEF Tokens
      <3>3. /\ <<"T">> \in Seq(Tokens) /\ <<"F">> \in Seq(Tokens)
            /\ <<"2000-02-29">> \in Seq(Tokens) /\ <<"23:59:59">> \in Seq(Tokens)
            /\ <<"2000-02-29", "23:59:59">> \in Seq(Tokens)
        BY TokenTexts DEF Tokens
      <3>4. /\ Clock.today \in Seq(Tokens) /\ Clock.noon \in Seq(Tokens)
            /\ Clock.both \in Seq(Tokens)
        BY <2>2, TokenTexts DEF Tokens
      <3> QED BY <3>1, <3>2, <3>3, <3>4
    <2>4. P \subseteq Seq(Tokens) \cup Seq(Int)
      BY <2>3
    <2>5. NULL \notin P
      BY <2>4, NullIsNoText
    <2>6. NowText \notin P
      BY <2>1, <2>2 DEF NowText
    <2> QED BY <2>3, <2>4, <2>5, <2>6 DEF P
  <1> QED BY <1>1, <1>2

\* What is shown and sent back is stored again, where the type allows it.
LEMMA RoundTrip ==
  ASSUME TableTyped
  PROVE  /\ Shown("v", NULL) = NULL /\ Store("v", NULL) = NULL
         /\ ~Lossy => \A p \in Payloads(table.engine, table.type) :
                        /\ Store("v", Shown("v", p)) = p
                        /\ Shown("v", p) \in Seq(Tokens) \cup Seq(Int)
  <1>1. TypeOf("v") = table.type
    BY DEF TypeOf
  <1>2. Shown("v", NULL) = NULL
    BY <1>1 DEF Shown, Pg!AsText, MySql!PageText, Sqlite!value_to_string
  <1>3. Store("v", NULL) = NULL
    <2>1. NULL # <<"1">> /\ NULL # <<"0">>
      <3>1. <<"1">> \in Seq(Tokens) /\ <<"0">> \in Seq(Tokens)
        BY TokenTexts DEF Tokens
      <3> QED BY <3>1, NullIsNoText
    <2> QED BY <1>1, <2>1 DEF Store, Pg!Store, MySql!Store, Sqlite!Store
  <1>4. ASSUME ~Lossy, NEW p \in Payloads(table.engine, table.type)
        PROVE  /\ Store("v", Shown("v", p)) = p
               /\ Shown("v", p) \in Seq(Tokens) \cup Seq(Int)
    <2>1. p # NULL /\ p \in Seq(Tokens) \cup Seq(Int)
      BY PayloadKinds
    <2>2. CASE table.engine = "postgres" /\ table.type = "bytes"
      <3>1. p \in Seq(Tokens)
        BY <2>2, PayloadKinds
      <3>2. PICK mark \in Tokens : mark = "\\x"
        BY DEF Tokens
      <3>3. PICK text : text = <<mark>> \o p
        OBVIOUS
      <3>4. text \in Seq(Tokens) /\ Head(text) = mark /\ Tail(text) = p
        BY <3>1, <3>3, Marked
      <3>5. Shown("v", p) = text
        BY <1>1, <2>1, <2>2, <3>2, <3>3 DEF Shown, Pg!AsText
      <3>6. text # NULL
        BY <3>4, NullIsNoText
      <3>7. Store("v", text) = p
        BY <1>1, <2>2, <3>2, <3>4, <3>6 DEF Store, Pg!Store
      <3> QED BY <3>4, <3>5, <3>7
    <2>3. CASE table.engine = "postgres" /\ table.type # "bytes"
      BY <1>1, <2>1, <2>3 DEF Shown, Pg!AsText, Store, Pg!Store
    <2>4. CASE table.engine = "mysql"
      <3>1. table.type # "bytes"
        BY <1>4, <2>4 DEF Lossy
      <3> QED BY <1>1, <2>1, <2>4, <3>1 DEF Shown, MySql!PageText, Store, MySql!Store
    <2>5. CASE table.engine = "sqlite"
      <3>1. table.type # "bytes" /\ table.type # "bool"
        BY <1>4, <2>5 DEF Lossy
      <3>2. Shown("v", p) = p
        BY <1>1, <2>1, <2>5, <3>1 DEF Shown, Sqlite!value_to_string
      <3>3. Store("v", p) = p
        BY <1>1, <2>5, <3>1 DEF Store, Sqlite!Store
      <3> QED BY <2>1, <3>2, <3>3
    <2> QED BY <2>2, <2>3, <2>4, <2>5 DEF TableTyped
  <1> QED BY <1>2, <1>3, <1>4

\* Where it does not, a page shows texts and texts are stored.
LEMMA LossyTexts ==
  ASSUME TableTyped, Lossy
  PROVE  /\ Payloads(table.engine, table.type) \subseteq Seq(Tokens)
         /\ \A x \in {NULL} \cup Seq(Tokens) : /\ Shown("v", x) \in {NULL} \cup Seq(Tokens)
                                              /\ Store("v", x) \in {NULL} \cup Seq(Tokens)
  <1>1. TypeOf("v") = table.type
    BY DEF TypeOf
  <1>2. \/ table.engine = "mysql" /\ table.type = "bytes"
        \/ table.engine = "sqlite" /\ table.type \in {"bytes", "bool"}
    BY DEF Lossy
  <1>3. Payloads(table.engine, table.type) \subseteq Seq(Tokens)
    BY <1>2, PayloadKinds
  <1>4. ASSUME NEW x \in {NULL} \cup Seq(Tokens)
        PROVE  Shown("v", x) \in {NULL} \cup Seq(Tokens)
    <2>1. CASE x = NULL
      BY <2>1, RoundTrip
    <2>2. CASE x # NULL
      <3>1. x \in Seq(Tokens)
        BY <2>2
      <3>2. PICK mark \in Tokens : mark = "0x"
        BY DEF Tokens
      <3>3. <<mark>> \o x \in Seq(Tokens)
        BY <3>1, Marked
      <3>4. CASE table.type = "bytes"
        <4>1. Shown("v", x) = <<mark>> \o x
          BY <1>1, <1>2, <2>2, <3>2, <3>4 DEF Shown, MySql!PageText, Sqlite!value_to_string
        <4> QED BY <3>3, <4>1
      <3>5. CASE table.type = "bool"
        <4>1. Shown("v", x) \in {<<"true">>, <<"false">>, NULL}
          BY <1>1, <1>2, <2>2, <3>5 DEF Shown, Sqlite!value_to_string
        <4>2. <<"true">> \in Seq(Tokens) /\ <<"false">> \in Seq(Tokens)
          BY TokenTexts DEF Tokens
        <4> QED BY <4>1, <4>2
      <3> QED BY <1>2, <3>4, <3>5
    <2> QED BY <2>1, <2>2
  <1>5. ASSUME NEW x \in {NULL} \cup Seq(Tokens)
        PROVE  Store("v", x) \in {NULL} \cup Seq(Tokens)
    <2>1. Store("v", x) \in {x, <<"T">>, <<"F">>}
      BY <1>1, <1>2 DEF Store, MySql!Store, Sqlite!Store
    <2>2. <<"T">> \in Seq(Tokens) /\ <<"F">> \in Seq(Tokens)
      BY TokenTexts DEF Tokens
    <2> QED BY <2>1, <2>2
  <1> QED BY <1>3, <1>4, <1>5

\* A text that means the clock is none of a value where it does not.
LEMMA NowNotShown ==
  ASSUME TableTyped, NEW p \in Payloads(table.engine, table.type)
  PROVE  Shown("v", p) # NowText
  <1>1. TypeOf("v") = table.type /\ p # NULL
    BY PayloadKinds DEF TypeOf
  <1>2. CASE table.type = "bytes"
    <2>1. p \in Seq(Tokens)
      BY <1>2, PayloadKinds
    <2>2. PICK text : text = Shown("v", p)
      OBVIOUS
    <2>3. text = <<"\\x">> \o p \/ text = <<"0x">> \o p
      BY <1>1, <1>2, <2>2, TypesOfEngine
         DEF Shown, Pg!AsText, MySql!PageText, Sqlite!value_to_string
    <2>4. Head(text) \in {"\\x", "0x"}
      <3>1. "\\x" \in Tokens /\ "0x" \in Tokens
        BY DEF Tokens
      <3>2. Head(<<"\\x">> \o p) = "\\x"
        BY <2>1, <3>1, Marked
      <3>3. Head(<<"0x">> \o p) = "0x"
        BY <2>1, <3>1, Marked
      <3> QED BY <2>3, <3>2, <3>3
    <2>5. Head(NowText) = "NOW()"
      BY DEF NowText
    <2> QED BY <2>2, <2>4, <2>5
  <1>3. CASE table.type = "bool"
    <2>1. Shown("v", p) \in {<<"true">>, <<"false">>, NULL}
      BY <1>1, <1>3, TypesOfEngine DEF Shown, Sqlite!value_to_string
    <2>2. NowText # NULL
      <3>1. NowText \in Seq(Tokens)
        BY TokenTexts DEF NowText, Tokens
      <3> QED BY <3>1, NullIsNoText
    <2> QED BY <2>1, <2>2 DEF NowText
  <1>4. CASE table.type # "bytes" /\ table.type # "bool"
    <2>1. Shown("v", p) = p
      BY <1>1, <1>4, TypesOfEngine
         DEF Shown, Pg!AsText, MySql!PageText, Sqlite!value_to_string
    <2>2. CASE TemporalKind(table.type) # "None"
      BY <2>1, <2>2, PayloadKinds
    <2>3. CASE TemporalKind(table.type) = "None"
      <3>1. table.type \in {"text", "decimal", "interval", "enum"}
        BY <1>4, <2>3, TypesOfEngine, KindsOfTypes
      <3>2. \/ p \in {<<"a">>, <<"b">>, <<"1.5">>, <<"2">>}
            \/ p \in {<<15, 3, 60 * Pg!Second + 1>>, <<-13, 0, -3601 * Pg!Second>>}
        BY <3>1 DEF Payloads
      <3>3. Len(NowText) = 1 /\ NowText[1] = "NOW()"
        BY DEF NowText
      <3>4. CASE p \in {<<"a">>, <<"b">>, <<"1.5">>, <<"2">>}
        BY <2>1, <3>3, <3>4
      <3>5. CASE p \in {<<15, 3, 60 * Pg!Second + 1>>, <<-13, 0, -3601 * Pg!Second>>}
        <4>1. Len(p) = 3
          BY <3>5
        <4> QED BY <2>1, <3>3, <4>1
      <3> QED BY <3>2, <3>4, <3>5
    <2> QED BY <2>2, <2>3
  <1> QED BY <1>2, <1>3, <1>4

\* The clock's value is one of a column's values.
LEMMA ClockHeld ==
  ASSUME TableTyped, TemporalKind(table.type) # "None"
  PROVE  /\ Now(Cell("v", NowText)) = Meaning("v", NowText)
         /\ Meaning("v", NowText) \in Held /\ ~Lossy
  <1>1. Cell("v", NowText).data_type = table.type
    BY DEF Cell, TypeOf
  <1>2. table.type \in {"date", "timestamp", "datetime", "time"}
    BY TypesOfEngine, KindsOfTypes
  <1>3. Now(Cell("v", NowText)) = Meaning("v", NowText)
    BY <1>1, <1>2, KindsOfTypes DEF Now, Meaning
  <1>4. Meaning("v", NowText) \in Payloads(table.engine, table.type)
    BY <1>2 DEF Meaning, Payloads
  <1>5. ~Lossy
    BY <1>2 DEF Lossy
  <1> QED BY <1>3, <1>4, <1>5 DEF Held

\* When a text is an expression.
LEMMA WhenExpression ==
  ASSUME NEW text
  PROVE  /\ IsExpression(Cell("v", text))
              <=> text = NowText /\ TemporalKind(table.type) # "None"
         /\ Cell("v", text).column = "v" /\ Cell("v", text).value = text
         /\ Cell("k", text).column = "k" /\ Cell("k", text).value = text
  BY DEF IsExpression, UsesNow, Cell, TypeOf

\* Every typed text is stored as what it means.
LEMMA TypedMeans ==
  ASSUME TableTyped, NEW text \in Typed
  PROVE  Given(Cell("v", text)) = Meaning("v", text) /\ Meaning("v", text) \in Held
  <1>1. PICK cell : cell = Cell("v", text)
    OBVIOUS
  <1>2. /\ cell.column = "v" /\ cell.value = text
        /\ IsExpression(cell) <=> text = NowText /\ TemporalKind(table.type) # "None"
    BY <1>1, WhenExpression
  <1>3. CASE text = NowText /\ TemporalKind(table.type) # "None"
    <2>1. Given(cell) = Now(Cell("v", NowText))
      BY <1>1, <1>2, <1>3 DEF Given
    <2> QED BY <1>1, <1>3, <2>1, ClockHeld
  <1>4. CASE ~(text = NowText /\ TemporalKind(table.type) # "None")
    <2>1. Given(cell) = Store("v", text)
      BY <1>2, <1>4 DEF Given
    <2>2. NULL # NowText /\ <<"1">> # NowText /\ <<"1">> \in Seq(Tokens)
      <3>1. NowText \in Seq(Tokens) /\ <<"1">> \in Seq(Tokens)
        BY TokenTexts DEF NowText, Tokens
      <3> QED BY <3>1, NullIsNoText DEF NowText
    <2>3. \/ text = NULL
          \/ \E p \in Payloads(table.engine, table.type) : text = Shown("v", p)
          \/ table.type = "bool" /\ text = <<"1">>
      BY <1>4 DEF Typed
    <2>4. text # NowText
      BY <2>2, <2>3, NowNotShown
    <2>5. Meaning("v", text) = Store("v", text)
      BY <2>4 DEF Meaning
    <2>7. ASSUME NEW p \in Payloads(table.engine, table.type), text = Shown("v", p)
          PROVE  Store("v", text) \in Held
      <3>1. CASE Lossy
        <4>1. p \in {NULL} \cup Seq(Tokens)
          BY <3>1, LossyTexts
        <4>2. text \in {NULL} \cup Seq(Tokens)
          BY <2>7, <3>1, <4>1, LossyTexts
        <4>3. Store("v", text) \in {NULL} \cup Seq(Tokens)
          BY <3>1, <4>2, LossyTexts
        <4> QED BY <3>1, <4>3 DEF Held
      <3>2. CASE ~Lossy
        <4>1. Store("v", text) = p
          BY <2>7, <3>2, RoundTrip
        <4> QED BY <3>2, <4>1 DEF Held
      <3> QED BY <3>1, <3>2
    <2>8. ASSUME table.type = "bool" /\ text = <<"1">>
          PROVE  Store("v", text) \in Held
      <3>1. Lossy
        BY <2>8, TypesOfEngine DEF Lossy
      <3>2. text \in {NULL} \cup Seq(Tokens)
        BY <2>2, <2>8
      <3>3. Store("v", text) \in {NULL} \cup Seq(Tokens)
        BY <3>1, <3>2, LossyTexts
      <3> QED BY <3>1, <3>3 DEF Held
    <2>9. Store("v", text) \in Held
      <3>1. ASSUME text = NULL
            PROVE  Store("v", text) \in Held
        BY <3>1, RoundTrip DEF Held
      <3> QED BY <2>3, <2>7, <2>8, <3>1
    <2> QED BY <1>1, <2>1, <2>5, <2>9
  <1> QED BY <1>3, <1>4

\* A text shown and sent back is stored, and compared, as the value shown.
LEMMA ShownMeans ==
  ASSUME TableTyped, NEW x \in Held
  PROVE  /\ Given(Cell("v", Shown("v", x))) \in Held
         /\ ~Lossy => /\ Given(Cell("v", Shown("v", x))) = x
                      /\ Compared(Cell("v", Shown("v", x))) = x
                      /\ Shown("v", x) = NULL <=> x = NULL
  <1>1. PICK text : text = Shown("v", x)
    OBVIOUS
  <1>2. PICK cell : cell = Cell("v", text)
    OBVIOUS
  <1>3. /\ cell.column = "v" /\ cell.value = text
        /\ IsExpression(cell) <=> text = NowText /\ TemporalKind(table.type) # "None"
    BY <1>2, WhenExpression
  <1>4. CASE Lossy
    <2>1. TemporalKind(table.type) = "None"
      BY <1>4, ClockHeld
    <2>2. x \in {NULL} \cup Seq(Tokens)
      BY <1>4 DEF Held
    <2>3. text \in {NULL} \cup Seq(Tokens)
      BY <1>1, <1>4, <2>2, LossyTexts
    <2>4. Store("v", text) \in {NULL} \cup Seq(Tokens)
      BY <1>4, <2>3, LossyTexts
    <2>5. Given(cell) = Store("v", text)
      BY <1>3, <2>1 DEF Given
    <2> QED BY <1>1, <1>2, <1>4, <2>4, <2>5 DEF Held
  <1>5. CASE ~Lossy
    <2>1. x = NULL \/ x \in Payloads(table.engine, table.type)
      BY <1>5 DEF Held
    <2>2. NULL # NowText
      <3>1. NowText \in Seq(Tokens)
        BY TokenTexts DEF NowText, Tokens
      <3> QED BY <3>1, NullIsNoText
    <2>3. text # NowText
      BY <1>1, <2>1, <2>2, RoundTrip, NowNotShown
    <2>4. Given(cell) = Store("v", text)
      BY <1>3, <2>3 DEF Given
    <2>5. Store("v", text) = x
      BY <1>1, <1>5, <2>1, RoundTrip
    <2>6. text = NULL <=> x = NULL
      <3>1. ASSUME x \in Payloads(table.engine, table.type)
            PROVE  text # NULL /\ x # NULL
        BY <1>1, <1>5, <3>1, RoundTrip, NullIsNoText, PayloadKinds
      <3>2. x = NULL => text = NULL
        BY <1>1, RoundTrip
      <3> QED BY <2>1, <3>1, <3>2
    <2>7. Compared(cell) = x
      BY <1>3, <2>4, <2>5, <2>6 DEF Compared
    <2> QED BY <1>1, <1>2, <2>4, <2>5, <2>6, <2>7 DEF Held
  <1> QED BY <1>4, <1>5

\* A key sent is the key stored.
LEMMA KeyMeans ==
  ASSUME TableTyped, NEW x, x # NULL
  PROVE  /\ Given(Cell("k", x)) = x /\ Compared(Cell("k", x)) = x
         /\ Cell("k", x).value # NULL /\ Cell("k", x).column = "k"
  BY KeyText, WhenExpression DEF Given, Compared

-----------------------------------------------------------------------------
(* The invariant.                                                          *)

\* The texts of a row on a page, and of a result.
Texts(row)     == [c \in {"k", "v"} |-> Shown(c, row[c])]
Answered(row)  == [c \in {"k", "v"} |-> QueryText(c, row[c])]
Kept(rows)     == IF Len(rows) > MaxRows THEN MaxRows ELSE Len(rows)

ServerFits == stored \in [Ids -> TableRow \cup {NoRow}] /\ Legal(stored)
PageFits ==
  /\ Len(page) \in 0 .. PageSize /\ DOMAIN page = 1 .. Len(page)
  /\ \A i \in DOMAIN page :
       \E r \in TableRow : page[i].row = r /\ page[i].cells = Texts(r)
ResultFits ==
  \E rows \in Seq(TableRow) :
    /\ result.of = rows
    /\ result.rows = [i \in 1 .. Kept(rows) |-> Answered(rows[i])]
    /\ result.truncated <=> Len(rows) > MaxRows
LastFits == last.affected \in -1 .. 4 /\ steps \in 0 .. MaxSteps

IInv == TableTyped /\ ServerFits /\ PageFits /\ ResultFits /\ LastFits

-----------------------------------------------------------------------------
(* What a statement selects and assigns.                                   *)

\* A statement selects a row by what its cells are compared with.
LEMMA SelectsBy ==
  ASSUME NEW S, NEW a \in Seq(S), NEW b \in Seq(S), NEW st, Follows(st, a, b), NEW row
  PROVE  Selects(st, row) <=>
           \A j \in DOMAIN b : /\ row[b[j].column] = Compared(b[j])
                               /\ b[j].value # NULL => Compared(b[j]) # NULL
  <1>1. DOMAIN st.where = DOMAIN b
    BY OperandsInOrder
  <1>2. \A j \in DOMAIN b : OperandValue(st, Len(st.set) + j) = Compared(b[j])
    BY StatementTakes
  <1>3. ASSUME NEW j \in DOMAIN b
        PROVE  /\ st.where[j].column = b[j].column
               /\ st.where[j].kind = "null" <=> b[j].value = NULL
    <2>1. Compares(st.where[j], b[j])
      BY DEF Follows
    <2>2. CASE b[j].value = NULL
      BY <2>1, <2>2 DEF Compares
    <2>3. CASE b[j].value # NULL
      <3>1. Takes(st.where[j], b[j])
        BY <2>1, <2>3 DEF Compares
      <3>2. st.where[j].kind \in {"expr", "bind", "?"}
        BY <3>1 DEF Takes
      <3> QED BY <2>3, <3>1, <3>2 DEF Takes
    <2> QED BY <2>2, <2>3
  <1> QED BY <1>1, <1>2, <1>3 DEF Selects

\* A statement assigns what its cells give.
LEMMA AssignedBy ==
  ASSUME NEW S, NEW a \in Seq(S), NEW b \in Seq(S), NEW st, Follows(st, a, b), NEW row,
         \A i, j \in DOMAIN a : a[i].column = a[j].column => i = j
  PROVE  /\ DOMAIN Assigned(st, row) = DOMAIN row
         /\ Assigned(st, row) = [c \in DOMAIN row |-> Assigned(st, row)[c]]
         /\ \A i \in DOMAIN a : a[i].column \in DOMAIN row =>
              Assigned(st, row)[a[i].column] = Given(a[i])
         /\ \A c \in DOMAIN row : (\A i \in DOMAIN a : a[i].column # c) =>
              Assigned(st, row)[c] = row[c]
  <1>1. DOMAIN st.set = DOMAIN a
    BY OperandsInOrder
  <1>2. \A j \in DOMAIN a : OperandValue(st, j) = Given(a[j])
    BY StatementTakes
  <1>3. \A j \in DOMAIN a : st.set[j].column = a[j].column
    BY DEF Follows, Takes
  <1>4. ASSUME NEW i \in DOMAIN a
        PROVE  (CHOOSE j \in DOMAIN st.set : st.set[j].column = a[i].column) = i
    <2>1. \A j \in DOMAIN st.set : st.set[j].column = a[i].column <=> j = i
      BY <1>1, <1>3
    <2> QED BY <1>1, <2>1
  <1>5. ASSUME NEW i \in DOMAIN a, a[i].column \in DOMAIN row
        PROVE  Assigned(st, row)[a[i].column] = Given(a[i])
    <2>1. \E j \in DOMAIN st.set : st.set[j].column = a[i].column
      BY <1>1, <1>3
    <2>2. Assigned(st, row)[a[i].column]
            = OperandValue(st, CHOOSE j \in DOMAIN st.set : st.set[j].column = a[i].column)
      BY <1>5, <2>1 DEF Assigned
    <2> QED BY <1>2, <1>4, <2>2
  <1>6. ASSUME NEW c \in DOMAIN row, \A i \in DOMAIN a : a[i].column # c
        PROVE  Assigned(st, row)[c] = row[c]
    BY <1>1, <1>3, <1>6 DEF Assigned
  <1>7. /\ DOMAIN Assigned(st, row) = DOMAIN row
        /\ Assigned(st, row) = [c \in DOMAIN row |-> Assigned(st, row)[c]]
    BY DEF Assigned
  <1> QED BY <1>5, <1>6, <1>7

\* Rows are told apart by their columns.
LEMMA RowsByColumn ==
  ASSUME NEW r \in TableRow \cup {NoRow}, NEW s \in TableRow \cup {NoRow}
  PROVE  /\ DOMAIN r = {"k", "v"} /\ (r.k = s.k /\ r.v = s.v => r = s)
         /\ r \in TableRow => r.k \in Keys /\ r.v \in Held /\ r.k # NULL /\ r # NoRow
         /\ r = NoRow => r.k = NULL /\ r.v = NULL
  <1>1. NULL \notin Keys
    <2>1. \A c \in Keys : c \in Seq(Tokens)
      <3>1. /\ <<"1">> \in Seq(Tokens) /\ <<"2">> \in Seq(Tokens) /\ <<"3">> \in Seq(Tokens)
            /\ <<"4">> \in Seq(Tokens) /\ <<"10">> \in Seq(Tokens)
        BY TokenTexts DEF Tokens
      <3> QED BY <3>1 DEF Keys
    <2> QED BY <2>1, NullIsNoText
  <1>2. r \in TableRow => r.k \in Keys /\ r.v \in Held
    BY DEF TableRow
  <1>3. NoRow.k = NULL /\ NoRow.v = NULL
    BY DEF NoRow
  <1>4. /\ r = [c \in {"k", "v"} |-> r[c]] /\ DOMAIN r = {"k", "v"}
        /\ s = [c \in {"k", "v"} |-> s[c]]
    BY DEF TableRow, NoRow
  <1>5. r.k = s.k /\ r.v = s.v => r = s
    BY <1>4
  <1> QED BY <1>1, <1>2, <1>3, <1>4, <1>5

\* The keys of a row shown select the rows that still are that row.
LEMMA KeysSelect ==
  ASSUME TableTyped, table.pk \/ ~Lossy, NEW row \in TableRow,
         NEW S, NEW a \in Seq(S), build_row_keys(Texts(row)) \in Seq(S),
         NEW st, Follows(st, a, build_row_keys(Texts(row))), NEW other \in TableRow
  PROVE  Selects(st, other) <=> IF table.pk THEN other.k = row.k ELSE other = row
  <1>1. PICK b \in Seq(S) : b = build_row_keys(Texts(row))
    OBVIOUS
  <1>2. Selects(st, other) <=>
          \A j \in DOMAIN b : /\ other[b[j].column] = Compared(b[j])
                              /\ b[j].value # NULL => Compared(b[j]) # NULL
    BY <1>1, SelectsBy
  <1>3. row.k # NULL /\ row.k \in Keys /\ row.v \in Held
    BY RowsByColumn
  <1>4. Texts(row).k = row.k /\ Texts(row).v = Shown("v", row.v)
    BY KeyText DEF Texts
  <1>5. PICK ck, cv : ck = Cell("k", row.k) /\ cv = Cell("v", Shown("v", row.v))
    OBVIOUS
  <1>6. ck.column = "k" /\ Compared(ck) = row.k /\ ck.value # NULL
    BY <1>3, <1>5, KeyMeans
  <1>7. CASE table.pk
    <2>1. b = <<ck>>
      BY <1>1, <1>4, <1>5, <1>7 DEF build_row_keys
    <2>2. DOMAIN b = {1} /\ b[1] = ck
      BY <2>1
    <2> HIDE <2>1
    <2> QED BY <1>2, <1>3, <1>6, <1>7, <2>2
  <1>8. CASE ~table.pk
    <2>1. b = <<ck, cv>>
      BY <1>1, <1>4, <1>5, <1>8 DEF build_row_keys
    <2>2. DOMAIN b = {1, 2} /\ b[1] = ck /\ b[2] = cv
      BY <2>1
    <2>3. cv.column = "v" /\ Compared(cv) = row.v /\ (cv.value # NULL => row.v # NULL)
      BY <1>3, <1>5, <1>8, ShownMeans, WhenExpression
    <2>4. Selects(st, other) <=> other.k = row.k /\ other.v = row.v
      BY <1>2, <1>3, <1>6, <2>2, <2>3
    <2>5. other.k = row.k /\ other.v = row.v <=> other = row
      BY RowsByColumn
    <2> QED BY <1>8, <2>4, <2>5
  <1> QED BY <1>7, <1>8

-----------------------------------------------------------------------------
(* What is kept of a result, and the rows of the table.                    *)

\* The first rows of a result are kept, and all of a short one.
LEMMA CollectKeeps ==
  ASSUME NEW S, NEW rows \in Seq(S), NEW max \in Nat
  PROVE  /\ Collect(rows, FALSE, max).rows \in Seq(S)
         /\ Len(Collect(rows, FALSE, max).rows) = IF Len(rows) > max THEN max ELSE Len(rows)
         /\ \A i \in 1 .. Len(Collect(rows, FALSE, max).rows) :
              Collect(rows, FALSE, max).rows[i] = rows[i]
         /\ Collect(rows, FALSE, max).truncated <=> Len(rows) > max
         /\ Len(rows) <= max => Collect(rows, FALSE, max).rows = rows
  <1>1. PICK n : n = IF Len(rows) > max THEN max ELSE Len(rows)
    OBVIOUS
  <1>2. n \in Nat /\ n <= Len(rows) /\ Len(rows) \in Nat
    BY <1>1
  <1>3. Collect(rows, FALSE, max).rows = SubSeq(rows, 1, n)
    BY <1>1 DEF Collect
  <1>4. /\ SubSeq(rows, 1, n) \in Seq(S) /\ Len(SubSeq(rows, 1, n)) = n
        /\ \A i \in 1 .. n : SubSeq(rows, 1, n)[i] = rows[i]
    BY <1>2
  <1>5. Len(rows) <= max => SubSeq(rows, 1, n) = rows
    BY <1>1, <1>2, SubSeqFull
  <1>6. Collect(rows, FALSE, max).truncated <=> Len(rows) > max
    BY DEF Collect
  <1> QED BY <1>1, <1>3, <1>4, <1>5, <1>6

\* A page's rows, and a query's, with every driver.
Until(rows, offset, limit) ==
  IF offset + limit > Len(rows) THEN Len(rows) ELSE offset + limit

\* The drivers fetch pages and results the same way.
LEMMA SameCollect ==
  /\ \A rows, offset, limit :
       fetch_table_data(rows, offset, limit)
         = Collect(SubSeq(rows, offset + 1, Until(rows, offset, limit)), FALSE, MaxRows)
  /\ \A rows : execute_query(rows) = Collect(rows, FALSE, MaxRows)
  <1>1. \A rows, fails, max : /\ Pg!Collect(rows, fails, max) = Collect(rows, fails, max)
                              /\ MySql!Collect(rows, fails, max) = Collect(rows, fails, max)
                              /\ Sqlite!Collect(rows, fails, max) = Collect(rows, fails, max)
    BY DEF Pg!Collect, MySql!Collect, Sqlite!Collect, Collect
  <1>2. ASSUME NEW rows, NEW offset, NEW limit
        PROVE  fetch_table_data(rows, offset, limit)
                 = Collect(SubSeq(rows, offset + 1, Until(rows, offset, limit)), FALSE, MaxRows)
    BY <1>1 DEF fetch_table_data, Pg!fetch_table_data, MySql!fetch_table_data,
                Sqlite!fetch_table_data, Pg!execute_query, MySql!execute_query,
                Sqlite!execute_query, Until
  <1>3. ASSUME NEW rows
        PROVE  execute_query(rows) = Collect(rows, FALSE, MaxRows)
    BY <1>1 DEF execute_query, Pg!execute_query, MySql!execute_query, Sqlite!execute_query
  <1> QED BY <1>2, <1>3

\* The limits are numbers.
LEMMA Limits == PageSize \in Nat /\ MaxRows \in Nat /\ MaxSteps \in Nat
  BY RowEditAssumption DEF RowEditAssumption

\* A page fetched is part of the rows, and no more than a page.
LEMMA Fetched ==
  ASSUME NEW S, NEW rows \in Seq(S), NEW offset \in Nat, NEW got,
         got = fetch_table_data(rows, offset, PageSize).rows
  PROVE  /\ got \in Seq(S) /\ Len(got) \in 0 .. PageSize
         /\ PageSize <= MaxRows =>
              got = SubSeq(rows, offset + 1, Until(rows, offset, PageSize))
  <1>1. PICK n : n = Until(rows, offset, PageSize)
    OBVIOUS
  <1>2. PICK part : part = SubSeq(rows, offset + 1, n)
    OBVIOUS
  <1>3. /\ n \in Nat /\ n <= Len(rows) /\ n <= offset + PageSize
    BY <1>1, Limits DEF Until
  <1>4. \A i \in offset + 1 .. n : rows[i] \in S
    BY <1>3
  <1>5. /\ part \in Seq(S)
        /\ Len(part) = IF offset + 1 <= n THEN n - (offset + 1) + 1 ELSE 0
    BY <1>2, <1>3, <1>4, SubSeqProperties
  <1>6. Len(part) \in Nat /\ Len(part) <= PageSize
    BY <1>3, <1>5, Limits
  <1>7. got = Collect(part, FALSE, MaxRows).rows
    BY <1>1, <1>2, SameCollect
  <1>8. /\ got \in Seq(S) /\ Len(got) = IF Len(part) > MaxRows THEN MaxRows ELSE Len(part)
        /\ Len(part) <= MaxRows => got = part
    <2>1. PICK max \in Nat : max = MaxRows
      BY Limits
    <2>2. part \in Seq(S)
      BY <1>5
    <2>3. Collect(part, FALSE, max).rows \in Seq(S)
      BY <2>2, CollectKeeps
    <2>4. Len(Collect(part, FALSE, max).rows) = IF Len(part) > max THEN max ELSE Len(part)
      BY <2>2, CollectKeeps
    <2>5. Len(part) <= max => Collect(part, FALSE, max).rows = part
      BY <2>2, CollectKeeps
    <2> QED BY <1>7, <2>1, <2>3, <2>4, <2>5
  <1>9. Len(got) \in 0 .. PageSize
    BY <1>6, <1>8, Limits
  <1>10. PageSize <= MaxRows => got = part
    BY <1>6, <1>8, Limits
  <1> QED BY <1>1, <1>2, <1>8, <1>9, <1>10

\* What the rows of each engine are ordered by.
LEMMA EngineOrder ==
  ASSUME TableTyped
  PROVE  order_clause[table.engine] = IF table.engine = "sqlite" THEN ByValue ELSE ByText
  <1>1. /\ order_clause["postgres"] = ByText
        /\ order_clause["mysql"] = ByText
        /\ order_clause["sqlite"] = ByValue
    BY DEF order_clause, Pg!order_clause, MySql!order_clause, Sqlite!order_clause
  <1> QED BY <1>1 DEF TableTyped

\* Keys have an order, whatever the engine.
LEMMA KeysRanked ==
  ASSUME TableTyped
  PROVE  \A k \in Keys : order_clause[table.engine][k] \in Int
  <1>1. ASSUME NEW s \in Seq(Seq(Tokens)), Range(s) = Keys, NEW k \in Keys
        PROVE  Positions(s)[k] \in Int
    <2>1. Positions(s)[k] = CHOOSE n \in DOMAIN s : s[n] = k
      BY <1>1 DEF Positions
    <2>2. \E n \in DOMAIN s : s[n] = k
      BY <1>1 DEF Range
    <2>3. Positions(s)[k] \in DOMAIN s
      BY <2>1, <2>2
    <2> QED BY <2>3
  <1>2. PICK values, texts :
          /\ values = <<<<"1">>, <<"2">>, <<"3">>, <<"4">>, <<"10">>>>
          /\ texts = <<<<"1">>, <<"10">>, <<"2">>, <<"3">>, <<"4">>>>
    OBVIOUS
  <1>3. /\ <<"1">> \in Seq(Tokens) /\ <<"2">> \in Seq(Tokens) /\ <<"3">> \in Seq(Tokens)
        /\ <<"4">> \in Seq(Tokens) /\ <<"10">> \in Seq(Tokens)
    BY TokenTexts DEF Tokens
  <1>4. \A a, b, c, d, e \in Seq(Tokens) :
          <<a, b, c, d, e>> \in Seq(Seq(Tokens)) /\ Range(<<a, b, c, d, e>>) = {a, b, c, d, e}
    BY DEF Range
  <1>5. PICK a \in Seq(Tokens), b \in Seq(Tokens), c \in Seq(Tokens), d \in Seq(Tokens),
             e \in Seq(Tokens) :
          a = <<"1">> /\ b = <<"2">> /\ c = <<"3">> /\ d = <<"4">> /\ e = <<"10">>
    BY <1>3
  <1>6. /\ values = <<a, b, c, d, e>> /\ texts = <<a, e, b, c, d>>
        /\ Keys = {a, b, c, d, e} /\ Keys = {a, e, b, c, d}
    BY <1>2, <1>5 DEF Keys
  <1>6a. /\ values \in Seq(Seq(Tokens)) /\ Range(values) = Keys
         /\ texts \in Seq(Seq(Tokens)) /\ Range(texts) = Keys
    BY <1>4, <1>6
  <1>7. \A k \in Keys : ByValue[k] \in Int /\ ByText[k] \in Int
    BY <1>1, <1>2, <1>6a DEF ByValue, ByText
  <1> QED BY <1>7, EngineOrder

\* Those before a row.
Before(sort) == [id \in Present |-> {o \in Present : Precedes(sort, o, id)}]

\* The rows there are.
LEMMA PresentRows ==
  ASSUME ServerFits
  PROVE  /\ Present \subseteq Ids /\ \A id \in Present : id \in Int
         /\ IsFiniteSet(Present) /\ Cardinality(Present) \in 0 .. 4
         /\ \A id \in Present : stored[id] \in TableRow
  <1>1. Present \subseteq 1 .. 4 /\ \A id \in Present : stored[id] \in TableRow
    BY DEF Present, Ids, ServerFits
  <1>2. IsFiniteSet(1 .. 4) /\ Cardinality(1 .. 4) = 4
    <2>1. PICK m \in Int, n \in Int : m = 1 /\ n = 4
      OBVIOUS
    <2>2. IsFiniteSet(m .. n) /\ Cardinality(m .. n) = IF m > n THEN 0 ELSE n - m + 1
      BY FS_Interval
    <2> QED BY <2>1, <2>2
  <1>3. /\ IsFiniteSet(Present) /\ Cardinality(Present) \in Nat
        /\ Cardinality(Present) <= 4
    <2>1. Present \in SUBSET (1 .. 4)
      BY <1>1
    <2> QED BY <1>2, <2>1, FS_Subset, FS_CardinalityType
  <1> QED BY <1>1, <1>3 DEF Ids

\* Each sort orders them.
LEMMA RowsOrdered ==
  ASSUME TableTyped, ServerFits, NEW sort
  PROVE  Orders(Before(sort), Present)
  <1> DEFINE R(id) == order_clause[table.engine][stored[id].k]
             B == Before(sort)
  <1>1. \A id \in Present : id \in Int /\ R(id) \in Int
    BY PresentRows, KeysRanked DEF TableRow
  <1>2. \A a, b : Ranked(a, b) <=> R(a) < R(b) \/ (R(a) = R(b) /\ a < b)
    BY DEF Ranked
  <1>3. /\ B \in [Present -> SUBSET Present]
        /\ \A a, b \in Present : a \in B[b] <=> Precedes(sort, a, b)
    BY DEF Before
  <1> HIDE DEF R, B
  <1>4. /\ \A a \in Present : ~Precedes(sort, a, a)
        /\ \A a, b \in Present : a # b => Precedes(sort, a, b) \/ Precedes(sort, b, a)
        /\ \A a, b, c \in Present :
             Precedes(sort, a, b) /\ Precedes(sort, b, c) => Precedes(sort, a, c)
    <2>1. CASE sort.column = ""
      <3>1. \A a, b : Precedes(sort, a, b) <=> a < b
        BY <2>1 DEF Precedes
      <3> QED BY <1>1, <3>1
    <2>2. /\ \A a \in Present : ~Ranked(a, a)
          /\ \A a, b \in Present : a # b => Ranked(a, b) \/ Ranked(b, a)
          /\ \A a, b, c \in Present : Ranked(a, b) /\ Ranked(b, c) => Ranked(a, c)
      <3>1. \A a \in Present : ~Ranked(a, a)
        BY <1>1, <1>2
      <3>2. \A a, b \in Present : a # b => Ranked(a, b) \/ Ranked(b, a)
        BY <1>1, <1>2
      <3>3. ASSUME NEW a \in Present, NEW b \in Present, NEW c \in Present,
                   Ranked(a, b), Ranked(b, c)
            PROVE  Ranked(a, c)
        BY <1>1, <1>2, <3>3
      <3> QED BY <3>1, <3>2, <3>3
    <2>3. CASE sort.column # "" /\ sort.asc
      <3>1. \A a, b : Precedes(sort, a, b) <=> Ranked(a, b)
        BY <2>3 DEF Precedes
      <3> QED BY <2>2, <3>1
    <2>4. CASE sort.column # "" /\ ~sort.asc
      <3>1. \A a, b : Precedes(sort, a, b) <=> Ranked(b, a)
        BY <2>4 DEF Precedes
      <3> QED BY <2>2, <3>1
    <2> QED BY <2>1, <2>3, <2>4
  <1>5. \A a \in Present : a \notin B[a]
    BY <1>3, <1>4
  <1>6. \A a, b \in Present : a # b => a \in B[b] \/ b \in B[a]
    BY <1>3, <1>4
  <1>7. ASSUME NEW a \in Present, NEW b \in Present, a \in B[b]
        PROVE  B[a] \subseteq B[b]
    BY <1>3, <1>4, <1>7
  <1> QED BY <1>3, <1>5, <1>6, <1>7 DEF Orders, B

\* Every row of the table has its place.
LEMMA RowsPlaced ==
  ASSUME TableTyped, ServerFits, NEW sort
  PROVE  /\ Rows(sort) \in Seq(TableRow) /\ Len(Rows(sort)) = Cardinality(Present)
         /\ \A n \in 1 .. Cardinality(Present) :
              \E id \in Present : Cardinality(Before(sort)[id]) = n - 1
         /\ \A id \in Present : /\ Cardinality(Before(sort)[id]) + 1 \in 1 .. Cardinality(Present)
                                /\ Rows(sort)[Cardinality(Before(sort)[id]) + 1] = stored[id]
  <1> DEFINE B == Before(sort)
             N == Cardinality(Present)
             before == [id \in Present |-> Cardinality({o \in Present : Precedes(sort, o, id)})]
             at(n) == CHOOSE id \in Present : before[id] = n - 1
  <1>1. /\ IsFiniteSet(Present) /\ N \in Nat /\ \A id \in Present : stored[id] \in TableRow
    BY PresentRows
  <1>2. PlacesOf(B, Present)
    BY <1>1, RowsOrdered, Places
  <1>3. /\ \A a \in Present : Cardinality(B[a]) \in 0 .. N - 1
        /\ \A a, b \in Present : Cardinality(B[a]) = Cardinality(B[b]) => a = b
        /\ \A n \in 0 .. N - 1 : \E a \in Present : Cardinality(B[a]) = n
    BY <1>2 DEF PlacesOf
  <1>4. Rows(sort) = [n \in 1 .. N |-> stored[at(n)]]
    BY DEF Rows, Placed
  <1>4a. \A id \in Present : before[id] = Cardinality(B[id])
    BY DEF Before
  <1> HIDE DEF B, N, before
  <1>5. ASSUME NEW n \in 1 .. N
        PROVE  \E id \in Present : Cardinality(B[id]) = n - 1
    <2>1. n - 1 \in 0 .. N - 1
      BY <1>1
    <2> QED BY <1>3, <2>1
  <1>6. ASSUME NEW n \in 1 .. N
        PROVE  at(n) \in Present /\ Cardinality(B[at(n)]) = n - 1
    <2>1. PICK id \in Present : Cardinality(B[id]) = n - 1
      BY <1>5
    <2>2. before[id] = n - 1
      BY <1>4a, <2>1
    <2>3. at(n) \in Present /\ before[at(n)] = n - 1
      BY <2>2
    <2> HIDE DEF at
    <2> QED BY <1>4a, <2>3
  <1>7. ASSUME NEW id \in Present
        PROVE  Cardinality(B[id]) + 1 \in 1 .. N /\ at(Cardinality(B[id]) + 1) = id
    <2>1. Cardinality(B[id]) \in 0 .. N - 1
      BY <1>3
    <2>2. Cardinality(B[id]) + 1 \in 1 .. N /\ (Cardinality(B[id]) + 1) - 1 = Cardinality(B[id])
      BY <1>1, <2>1
    <2>3. /\ at(Cardinality(B[id]) + 1) \in Present
          /\ Cardinality(B[at(Cardinality(B[id]) + 1)]) = Cardinality(B[id])
      BY <1>6, <2>2
    <2> QED BY <1>3, <2>2, <2>3
  <1> HIDE DEF at
  <1>8. \A n \in 1 .. N : stored[at(n)] \in TableRow
    BY <1>1, <1>6
  <1>9. Rows(sort) \in Seq(TableRow) /\ Len(Rows(sort)) = N
    BY <1>1, <1>4, <1>8
  <1>10. \A id \in Present : Rows(sort)[Cardinality(B[id]) + 1] = stored[id]
    BY <1>4, <1>7
  <1> QED BY <1>5, <1>7, <1>9, <1>10 DEF B, N

-----------------------------------------------------------------------------
(* What the writes of the page do to the rows.                             *)

\* The cells of a write, by the text of v.
OneCell(text)  == <<Cell("v", text)>>
TwoCells(text) == <<Cell("k", <<"10">>), Cell("v", text)>>

\* A row with these cells written.
WithCells(a, text, r) ==
  [k |-> IF a = TwoCells(text) THEN <<"10">> ELSE r.k, v |-> Given(Cell("v", text))]

\* The rows of the table with these cells written in some of them.
Rewritten(hit, a, text) ==
  [id \in Ids |-> IF id \in hit THEN WithCells(a, text, stored[id]) ELSE stored[id]]

\* What the server makes of the rows wanted of it.
Outcome(wanted, count) ==
  IF Legal(wanted) THEN [rows |-> wanted, affected |-> count]
  ELSE [rows |-> stored, affected |-> -1]

\* The two lists of cells differ.
LEMMA TwoAreNotOne ==
  ASSUME NEW text
  PROVE  /\ OneCell(text) # TwoCells(text)
         /\ Len(OneCell(text)) = 1 /\ Len(TwoCells(text)) = 2
         /\ OneCell(text) # <<>> /\ TwoCells(text) # <<>>
  <1>1. PICK c, d : c = Cell("v", text) /\ d = Cell("k", <<"10">>)
    OBVIOUS
  <1>2. OneCell(text) = <<c>> /\ TwoCells(text) = <<d, c>>
    BY <1>1 DEF OneCell, TwoCells
  <1>3. Len(<<c>>) = 1 /\ Len(<<d, c>>) = 2
    OBVIOUS
  <1> QED BY <1>2, <1>3

\* The cells written, and those compared, are lists of cells.
LEMMA CellLists ==
  ASSUME NEW text, NEW a \in {OneCell(text), TwoCells(text)}, NEW cells
  PROVE  \E S : /\ a \in Seq(S) /\ build_row_keys(cells) \in Seq(S) /\ <<>> \in Seq(S)
                /\ a # <<>> /\ build_row_keys(cells) # <<>>
  <1>1. PICK c1, c2, c3, c4 : /\ c1 = Cell("v", text) /\ c2 = Cell("k", <<"10">>)
                              /\ c3 = Cell("k", cells.k) /\ c4 = Cell("v", cells.v)
    OBVIOUS
  <1> DEFINE S == {c1, c2, c3, c4}
  <1>2. /\ <<c1>> \in Seq(S) /\ <<c2, c1>> \in Seq(S) /\ <<c3>> \in Seq(S)
        /\ <<c3, c4>> \in Seq(S) /\ <<>> \in Seq(S)
    OBVIOUS
  <1>3. a \in {<<c1>>, <<c2, c1>>}
    BY <1>1 DEF OneCell, TwoCells
  <1>4. build_row_keys(cells) \in {<<c3>>, <<c3, c4>>}
    BY <1>1 DEF build_row_keys
  <1> HIDE DEF S
  <1>5. a \in Seq(S) /\ build_row_keys(cells) \in Seq(S)
    BY <1>2, <1>3, <1>4
  <1>6. a # <<>> /\ build_row_keys(cells) # <<>>
    BY <1>3, <1>4
  <1> QED BY <1>2, <1>5, <1>6

\* A statement with such cells assigns them.
LEMMA CellsAssigned ==
  ASSUME TableTyped, NEW text, NEW a \in {OneCell(text), TwoCells(text)},
         NEW S, a \in Seq(S), NEW b \in Seq(S), NEW st, Follows(st, a, b),
         NEW row \in TableRow \cup {NoRow}
  PROVE  Assigned(st, row) = WithCells(a, text, row)
  <1> DEFINE new == Assigned(st, row)
  <1>1. PICK c, d : c = Cell("v", text) /\ d = Cell("k", <<"10">>)
    OBVIOUS
  <1>2. c.column = "v" /\ d.column = "k" /\ Given(d) = <<"10">>
    <2>1. <<"10">> # NULL
      <3>1. <<"10">> \in Seq(Tokens)
        BY TokenTexts DEF Tokens
      <3> QED BY <3>1, NullIsNoText
    <2> QED BY <1>1, <2>1, KeyMeans, WhenExpression
  <1>3. a = <<c>> \/ a = <<d, c>>
    BY <1>1 DEF OneCell, TwoCells
  <1>4. \A i, j \in DOMAIN a : a[i].column = a[j].column => i = j
    BY <1>2, <1>3
  <1>5. DOMAIN row = {"k", "v"}
    BY RowsByColumn
  <1>6. /\ DOMAIN new = DOMAIN row /\ new = [x \in DOMAIN row |-> new[x]]
        /\ \A i \in DOMAIN a : a[i].column \in DOMAIN row => new[a[i].column] = Given(a[i])
        /\ \A x \in DOMAIN row : (\A i \in DOMAIN a : a[i].column # x) => new[x] = row[x]
    BY <1>4, AssignedBy
  <1> HIDE DEF new
  <1>7. CASE a = <<c>>
    <2>1. DOMAIN a = {1} /\ a[1] = c
      BY <1>7
    <2>2. new.v = Given(c)
      BY <1>2, <1>5, <1>6, <2>1
    <2>3. new.k = row.k
      BY <1>2, <1>5, <1>6, <2>1
    <2>4. a # TwoCells(text)
      BY <1>1, <1>7, TwoAreNotOne DEF OneCell
    <2>5. WithCells(a, text, row) = [k |-> row.k, v |-> Given(c)]
      BY <1>1, <2>4 DEF WithCells
    <2> QED BY <1>5, <1>6, <2>2, <2>3, <2>5 DEF new
  <1>8. CASE a = <<d, c>>
    <2>1. DOMAIN a = {1, 2} /\ a[1] = d /\ a[2] = c
      BY <1>8
    <2>2. new.v = Given(c)
      BY <1>2, <1>5, <1>6, <2>1
    <2>3. new.k = <<"10">>
      BY <1>2, <1>5, <1>6, <2>1
    <2>4. a = TwoCells(text)
      BY <1>1, <1>8 DEF TwoCells
    <2>5. WithCells(a, text, row) = [k |-> <<"10">>, v |-> Given(c)]
      BY <1>1, <2>4 DEF WithCells
    <2> QED BY <1>5, <1>6, <2>2, <2>3, <2>5 DEF new
  <1> QED BY <1>3, <1>7, <1>8

\* The rows a statement keyed by a row shown selects.
LEMMA KeysHit ==
  ASSUME TableTyped, ServerFits, table.pk \/ ~Lossy, NEW row \in TableRow,
         NEW S, NEW a \in Seq(S), build_row_keys(Texts(row)) \in Seq(S),
         NEW st, Follows(st, a, build_row_keys(Texts(row)))
  PROVE  {id \in Present : Selects(st, stored[id])} = Meant(row)
  <1>1. ASSUME NEW id \in Present
        PROVE  Selects(st, stored[id])
                 <=> IF table.pk THEN stored[id].k = row.k ELSE stored[id] = row
    <2>1. PICK other \in TableRow : other = stored[id]
      BY PresentRows
    <2>2. Selects(st, other) <=> IF table.pk THEN other.k = row.k ELSE other = row
      BY KeysSelect
    <2> QED BY <2>1, <2>2
  <1> QED BY <1>1 DEF Meant

\* An update sets the cells written in the rows it selects.
LEMMA UpdateOf ==
  ASSUME TableTyped, ServerFits, NEW row \in TableRow, NEW text,
         NEW a \in {OneCell(text), TwoCells(text)}
  PROVE  \E hit \in SUBSET Present :
           /\ table.pk \/ ~Lossy => hit = Meant(row)
           /\ Updated(a, build_row_keys(Texts(row)))
                = Outcome(Rewritten(hit, a, text), Cardinality(hit))
  <1>1. PICK b : b = build_row_keys(Texts(row))
    OBVIOUS
  <1>2. PICK S : a \in Seq(S) /\ b \in Seq(S) /\ a # <<>> /\ b # <<>>
    BY <1>1, CellLists
  <1>3. PICK st : st = update_row(a, b)
    OBVIOUS
  <1>4. Follows(st, a, b)
    BY <1>2, <1>3, RowStatements
  <1>5. st.ok /\ WellBound(st)
    BY <1>2, <1>4, StatementWellBound DEF Follows
  <1>6. PICK hit : hit = {id \in Present : Selects(st, stored[id])}
    OBVIOUS
  <1>7. table.pk \/ ~Lossy => hit = Meant(row)
    BY <1>1, <1>2, <1>4, <1>6, KeysHit
  <1>8. PICK after : after = [id \in Ids |-> IF id \in hit THEN Assigned(st, stored[id])
                                             ELSE stored[id]]
    OBVIOUS
  <1>9. Updated(a, b) = Outcome(after, Cardinality(hit))
    <2>1. PICK becomes : becomes = [id \in Ids |-> Assigned(st, stored[id])]
      OBVIOUS
    <2>2. Updated(a, b) = Written(st, becomes)
      BY <1>3, <2>1 DEF Updated
    <2>3. after = [id \in Ids |-> IF id \in hit THEN becomes[id] ELSE stored[id]]
      BY <1>8, <2>1
    <2>4. Written(st, becomes) = Outcome(after, Cardinality(hit))
      BY <1>5, <1>6, <2>3 DEF Written, Outcome
    <2> QED BY <2>2, <2>4
  <1>10. ASSUME NEW id \in hit
         PROVE  Assigned(st, stored[id]) = WithCells(a, text, stored[id])
    <2>1. PICK r : r = stored[id]
      OBVIOUS
    <2>2. r \in TableRow \cup {NoRow}
      BY <1>6, <2>1, PresentRows
    <2> QED BY <1>2, <1>4, <2>1, <2>2, CellsAssigned
  <1>11. after = Rewritten(hit, a, text)
    BY <1>8, <1>10 DEF Rewritten
  <1>12. hit \in SUBSET Present
    BY <1>6
  <1> QED BY <1>1, <1>7, <1>9, <1>11, <1>12

\* A delete leaves nothing of the rows it selects.
LEMMA DeleteOf ==
  ASSUME TableTyped, ServerFits, NEW row \in TableRow
  PROVE  \E hit \in SUBSET Present :
           /\ table.pk \/ ~Lossy => hit = Meant(row)
           /\ Deleted(build_row_keys(Texts(row)))
                = Outcome([id \in Ids |-> IF id \in hit THEN NoRow ELSE stored[id]],
                          Cardinality(hit))
  <1>1. PICK b : b = build_row_keys(Texts(row))
    OBVIOUS
  <1>2. PICK a : a = OneCell(NULL)
    OBVIOUS
  <1>3. PICK S : a \in Seq(S) /\ b \in Seq(S) /\ a # <<>> /\ b # <<>> /\ <<>> \in Seq(S)
    BY <1>1, <1>2, CellLists
  <1>4. PICK none \in Seq(S) : none = <<>>
    BY <1>3
  <1>5. PICK st : st = delete_row(b)
    OBVIOUS
  <1>6. Follows(st, none, b)
    BY <1>3, <1>4, <1>5, RowStatements
  <1>7. st.ok /\ WellBound(st)
    BY <1>3, <1>6, StatementWellBound DEF Follows
  <1>8. PICK hit : hit = {id \in Present : Selects(st, stored[id])}
    OBVIOUS
  <1>9. table.pk \/ ~Lossy => hit = Meant(row)
    BY <1>1, <1>3, <1>6, <1>8, KeysHit
  <1>10. PICK after : after = [id \in Ids |-> IF id \in hit THEN NoRow ELSE stored[id]]
    OBVIOUS
  <1>11. Deleted(b) = Outcome(after, Cardinality(hit))
    <2>1. PICK becomes : becomes = [id \in Ids |-> NoRow]
      OBVIOUS
    <2>2. Deleted(b) = Written(st, becomes)
      BY <1>5, <2>1 DEF Deleted
    <2>3. after = [id \in Ids |-> IF id \in hit THEN becomes[id] ELSE stored[id]]
      BY <1>10, <2>1
    <2>4. Written(st, becomes) = Outcome(after, Cardinality(hit))
      BY <1>7, <1>8, <2>3 DEF Written, Outcome
    <2> QED BY <2>2, <2>4
  <1>12. hit \in SUBSET Present
    BY <1>8
  <1> QED BY <1>1, <1>9, <1>10, <1>11, <1>12

\* An insert fills a free place.
LEMMA InsertOf ==
  ASSUME TableTyped, ServerFits, NEW text, Ids # Present
  PROVE  \E id \in Ids \ Present :
           Inserted(TwoCells(text))
             = Outcome([stored EXCEPT ![id] = [k |-> <<"10">>, v |-> Given(Cell("v", text))]], 1)
  <1>1. PICK a : a = TwoCells(text)
    OBVIOUS
  <1>2. PICK cells : cells = NoRow
    OBVIOUS
  <1>3. PICK S : /\ a \in Seq(S) /\ a # <<>> /\ <<>> \in Seq(S)
                 /\ build_row_keys(cells) \in Seq(S) /\ build_row_keys(cells) # <<>>
    BY <1>1, CellLists
  <1>4. PICK none \in Seq(S) : none = <<>>
    BY <1>3
  <1>5. PICK st : st = insert_row(a)
    OBVIOUS
  <1>6. Follows(st, a, none)
    BY <1>3, <1>4, <1>5, RowStatements
  <1>7. st.ok /\ WellBound(st)
    BY <1>3, <1>6, StatementWellBound DEF Follows
  <1>8. Assigned(st, NoRow) = [k |-> <<"10">>, v |-> Given(Cell("v", text))]
    <2>1. PICK r \in TableRow \cup {NoRow} : r = NoRow
      OBVIOUS
    <2>2. Assigned(st, r) = WithCells(a, text, r)
      BY <1>1, <1>3, <1>6, CellsAssigned
    <2> QED BY <1>1, <2>1, <2>2 DEF WithCells
  <1>9. PICK place : place = CHOOSE id \in Ids \ Present : \A o \in Ids \ Present : id <= o
    OBVIOUS
  <1>10. place \in Ids \ Present
    <2>1. \E id \in Ids \ Present : \A o \in Ids \ Present : id <= o
      <3>1. Ids = {1, 2, 3, 4} /\ Present \subseteq Ids
        BY PresentRows DEF Ids
      <3>2. PICK free : free = Ids \ Present
        OBVIOUS
      <3>3. free \subseteq {1, 2, 3, 4} /\ free # {}
        BY <3>1, <3>2
      <3>4. CASE 1 \in free
        BY <3>2, <3>3, <3>4
      <3>5. CASE 1 \notin free /\ 2 \in free
        BY <3>2, <3>3, <3>5
      <3>6. CASE 1 \notin free /\ 2 \notin free /\ 3 \in free
        BY <3>2, <3>3, <3>6
      <3>7. CASE 1 \notin free /\ 2 \notin free /\ 3 \notin free
        <4>1. free = {4}
          BY <3>3, <3>7
        <4> QED BY <3>2, <4>1
      <3> QED BY <3>4, <3>5, <3>6, <3>7
    <2> QED BY <1>9, <2>1
  <1>11. PICK after : after = [stored EXCEPT ![place] = Assigned(st, NoRow)]
    OBVIOUS
  <1>12. Inserted(a) = Outcome(after, 1)
    BY <1>5, <1>7, <1>9, <1>11 DEF Inserted, Outcome
  <1> QED BY <1>1, <1>8, <1>10, <1>11, <1>12

-----------------------------------------------------------------------------
(* Legal tables.                                                           *)

\* With a primary key, no two rows have the same key.
Apart(rows) ==
  \A a, b \in Ids : rows[a] # NoRow /\ rows[b] # NoRow /\ rows[a].k = rows[b].k => a = b

\* The server sees to it by counting.
LEMMA LegalMeans ==
  ASSUME NEW rows \in [Ids -> TableRow \cup {NoRow}]
  PROVE  Legal(rows) <=> (table.pk => Apart(rows))
  <1> DEFINE there == {id \in Ids : rows[id] # NoRow}
             keys  == {rows[id].k : id \in there}
             f     == [id \in there |-> rows[id].k]
  <1>1. IsFiniteSet(there)
    <2>1. PICK m \in Int, n \in Int : m = 1 /\ n = 4
      OBVIOUS
    <2>2. IsFiniteSet(m .. n) /\ Ids = m .. n
      BY <2>1, FS_Interval DEF Ids
    <2> QED BY <2>2, FS_Subset
  <1>2. NULL \notin keys
    <2>1. ASSUME NEW id \in there
          PROVE  rows[id].k # NULL
      <3>1. PICK r \in TableRow \cup {NoRow} : r = rows[id]
        OBVIOUS
      <3> QED BY <3>1, RowsByColumn
    <2> QED BY <2>1
  <1>3. f \in Surjection(there, keys)
    <2>1. f \in [there -> keys]
      OBVIOUS
    <2>2. \A x \in keys : \E id \in there : f[id] = x
      OBVIOUS
    <2> QED BY <2>1, <2>2, Fun_IsSurj
  <1>4. Cardinality(keys) = Cardinality(there) <=> f \in Injection(there, keys)
    BY <1>1, <1>3, FS_Surjection
  <1>5. f \in Injection(there, keys) <=> \A a, b \in there : f[a] = f[b] => a = b
    <2>1. f \in [there -> keys]
      OBVIOUS
    <2> QED BY <2>1 DEF Injection, IsInjective
  <1>6. (\A a, b \in there : f[a] = f[b] => a = b) <=> Apart(rows)
    BY DEF Apart
  <1>7. Legal(rows) <=> (table.pk => NULL \notin keys /\ Cardinality(keys) = Cardinality(there))
    BY DEF Legal
  <1> HIDE DEF there, keys, f
  <1> QED BY <1>2, <1>4, <1>5, <1>6, <1>7

\* Rows that are removed, or keep their keys, do not meet another.
LEMMA LegalKept ==
  ASSUME ServerFits, NEW rows \in [Ids -> TableRow \cup {NoRow}],
         \A id \in Ids : rows[id] # NoRow => stored[id] # NoRow /\ rows[id].k = stored[id].k
  PROVE  Legal(rows)
  <1>1. table.pk => Apart(stored)
    BY LegalMeans DEF ServerFits
  <1>2. table.pk => Apart(rows)
    BY <1>1 DEF Apart
  <1> QED BY <1>2, LegalMeans

\* The rows a write wants are rows of the table.
LEMMA OutcomeFits ==
  ASSUME ServerFits, NEW wanted \in [Ids -> TableRow \cup {NoRow}], NEW count \in 0 .. 4,
         NEW answer, answer = Outcome(wanted, count)
  PROVE  /\ answer.rows \in [Ids -> TableRow \cup {NoRow}] /\ Legal(answer.rows)
         /\ answer.affected \in -1 .. 4
  <1>1. CASE Legal(wanted)
    <2>1. answer.rows = wanted /\ answer.affected = count
      BY <1>1 DEF Outcome
    <2> QED BY <1>1, <2>1
  <1>2. CASE ~Legal(wanted)
    <2>1. answer.rows = stored /\ answer.affected = -1
      BY <1>2 DEF Outcome
    <2> QED BY <2>1 DEF ServerFits
  <1> QED BY <1>1, <1>2

-----------------------------------------------------------------------------
(* The invariant holds at first.                                           *)

\* The values of the instances are among those a column may hold.
LEMMA PayloadsHeld ==
  ASSUME TableTyped
  PROVE  {NULL} \cup Payloads(table.engine, table.type) \subseteq Held
  BY LossyTexts DEF Held

\* The keys of the rows, and how they differ.
LEMMA KeysOfRows ==
  /\ KeyOf(1) = <<"1">> /\ KeyOf(2) = <<"2">> /\ KeyOf(3) = <<"3">>
  /\ KeyOf(1) \in Keys /\ KeyOf(2) \in Keys /\ KeyOf(3) \in Keys
  /\ KeyOf(1) # KeyOf(2) /\ KeyOf(1) # KeyOf(3) /\ KeyOf(2) # KeyOf(3)
  <1>1. KeyOf(1) = <<"1">> /\ KeyOf(2) = <<"2">> /\ KeyOf(3) = <<"3">>
    BY DEF KeyOf
  <1>2. <<"1">> # <<"2">> /\ <<"1">> # <<"3">> /\ <<"2">> # <<"3">>
    OBVIOUS
  <1>3. <<"1">> \in Keys /\ <<"2">> \in Keys /\ <<"3">> \in Keys
    BY DEF Keys
  <1> QED BY <1>1, <1>2, <1>3

\* The rows of the first state.
LEMMA FirstRows ==
  ASSUME TableTyped, NEW v \in [{1, 2} -> {NULL} \cup Payloads(table.engine, table.type)],
         stored = [id \in Ids |->
                     IF id = 4 THEN NoRow
                     ELSE [k |-> IF table.pk THEN KeyOf(id) ELSE KeyOf((id + 1) \div 2),
                           v |-> v[IF id = 3 THEN 2 ELSE id]]]
  PROVE  ServerFits
  <1>1. v[1] \in Held /\ v[2] \in Held
    BY PayloadsHeld
  <1>2. \A id \in Ids : id \in {1, 2, 3, 4}
    BY DEF Ids
  <1>3. \A id \in Ids : id # 4 => KeyOf(id) \in Keys
    BY <1>2, KeysOfRows
  <1>4. \A id \in Ids : id # 4 => KeyOf((id + 1) \div 2) \in Keys
    <2>1. (1 + 1) \div 2 = 1 /\ (2 + 1) \div 2 = 1 /\ (3 + 1) \div 2 = 2
      OBVIOUS
    <2> QED BY <1>2, <2>1, KeysOfRows
  <1>5. ASSUME NEW id \in Ids
        PROVE  stored[id] \in TableRow \cup {NoRow}
    <2>1. CASE id = 4
      BY <2>1
    <2>2. CASE id # 4
      <3>1. PICK x, y : /\ x = IF table.pk THEN KeyOf(id) ELSE KeyOf((id + 1) \div 2)
                        /\ y = v[IF id = 3 THEN 2 ELSE id]
        OBVIOUS
      <3>2. x \in Keys
        BY <2>2, <3>1, <1>3, <1>4
      <3>3. y \in Held
        BY <2>2, <3>1, <1>1, <1>2
      <3>4. stored[id] = [k |-> x, v |-> y]
        BY <2>2, <3>1
      <3> QED BY <3>2, <3>3, <3>4 DEF TableRow
    <2> QED BY <2>1, <2>2
  <1>6. stored \in [Ids -> TableRow \cup {NoRow}]
    BY <1>5
  <1>7. table.pk => Apart(stored)
    <2>1. SUFFICES ASSUME table.pk, NEW a \in Ids, NEW b \in Ids,
                          stored[a] # NoRow, stored[b] # NoRow, stored[a].k = stored[b].k
                   PROVE  a = b
      BY DEF Apart
    <2>2. a # 4 /\ b # 4
      BY <2>1
    <2>3. stored[a].k = KeyOf(a) /\ stored[b].k = KeyOf(b)
      BY <2>1, <2>2
    <2> QED BY <1>2, <2>1, <2>2, <2>3, KeysOfRows
  <1> QED BY <1>6, <1>7, LegalMeans DEF ServerFits

\* The invariant holds in the first state.
LEMMA InitFits == Init => IInv
  <1> SUFFICES ASSUME Init PROVE IInv
    OBVIOUS
  <1>1. TableTyped
    <2>1. PICK engine \in DOMAIN Types : \E type \in Types[engine] :
            table \in [engine : {engine}, type : {type}, pk : BOOLEAN]
      BY DEF Init
    <2>2. PICK type \in Types[engine] :
            table \in [engine : {engine}, type : {type}, pk : BOOLEAN]
      BY <2>1
    <2>3. table.engine = engine /\ table.type = type /\ table.pk \in BOOLEAN
      BY <2>2
    <2>4. engine \in {"postgres", "mysql", "sqlite"}
      BY <2>1 DEF Types
    <2> QED BY <2>2, <2>3, <2>4 DEF TableTyped
  <1>2. ServerFits
    <2>1. PICK v \in [{1, 2} -> {NULL} \cup Payloads(table.engine, table.type)] :
            stored = [id \in Ids |->
                     IF id = 4 THEN NoRow
                     ELSE [k |-> IF table.pk THEN KeyOf(id) ELSE KeyOf((id + 1) \div 2),
                           v |-> v[IF id = 3 THEN 2 ELSE id]]]
      BY DEF Init
    <2> QED BY <1>1, <2>1, FirstRows
  <1>3. PageFits
    <2>1. page = <<>>
      BY DEF Init
    <2> QED BY <2>1, Limits DEF PageFits
  <1>4. ResultFits
    <2>1. result.of = <<>> /\ result.rows = <<>> /\ result.truncated = FALSE
      BY DEF Init
    <2>2. Len(<<>>) = 0 /\ <<>> \in Seq(TableRow) /\ ~(0 > MaxRows)
      BY Limits
    <2>3. Kept(<<>>) = 0
      BY <2>2 DEF Kept
    <2>4. <<>> = [i \in 1 .. 0 |-> Answered((<<>>)[i])]
      OBVIOUS
    <2>5. PICK rows \in Seq(TableRow) : rows = <<>>
      BY <2>2
    <2>6. result.rows = [i \in 1 .. Kept(rows) |-> Answered(rows[i])]
      BY <2>1, <2>3, <2>4, <2>5
    <2> QED BY <2>1, <2>2, <2>5, <2>6 DEF ResultFits
  <1>5. LastFits
    <2>1. last.affected = 0 /\ steps = 0
      BY DEF Init, Nothing
    <2>2. 0 \in -1 .. 4 /\ 0 \in 0 .. MaxSteps
      BY Limits
    <2> QED BY <2>1, <2>2 DEF LastFits
  <1> QED BY <1>1, <1>2, <1>3, <1>4, <1>5 DEF IInv

-----------------------------------------------------------------------------
(* Every step keeps it.                                                    *)

\* The table keeps its engine, its type and its key, and so the texts of its
\* rows.
LEMMA SameTable ==
  ASSUME table' = table
  PROVE  /\ TableTyped' <=> TableTyped
         /\ Held' = Held /\ TableRow' = TableRow
         /\ \A r : Texts(r)' = Texts(r)
         /\ \A r : Answered(r)' = Answered(r)
         /\ \A rows : Legal(rows)' <=> Legal(rows)
  <1>1. TableTyped' <=> TableTyped
    BY DEF TableTyped
  <1>2. Held' = Held
    BY DEF Held, Lossy
  <1>3. TableRow' = TableRow
    BY <1>2 DEF TableRow
  <1>4. \A r : Texts(r)' = Texts(r)
    BY DEF Texts, Shown, TypeOf
  <1>5. \A r : Answered(r)' = Answered(r)
    BY DEF Answered, QueryText, TypeOf
  <1>6. \A rows : Legal(rows)' <=> Legal(rows)
    BY DEF Legal
  <1> QED BY <1>1, <1>2, <1>3, <1>4, <1>5, <1>6

\* Rows that nothing writes stay legal.
LEMMA ServerStays ==
  ASSUME IInv, table' = table, stored' = stored
  PROVE  TableTyped' /\ ServerFits'
  BY SameTable DEF IInv, ServerFits

\* A page that is not loaded again keeps its texts.
LEMMA PageStays ==
  ASSUME IInv, table' = table, page' = page
  PROVE  PageFits'
  BY SameTable DEF IInv, PageFits

\* So does a result.
LEMMA ResultStays ==
  ASSUME IInv, table' = table, result' = result
  PROVE  ResultFits'
  <1>1. PICK rows \in Seq(TableRow) :
          /\ result.of = rows
          /\ result.rows = [i \in 1 .. Kept(rows) |-> Answered(rows[i])]
          /\ result.truncated <=> Len(rows) > MaxRows
    BY DEF IInv, ResultFits
  <1>2. \A r : Answered(r)' = Answered(r)
    BY SameTable
  <1>3. result'.rows = [i \in 1 .. Kept(rows) |-> Answered(rows[i])']
    BY <1>1, <1>2
  <1>4. rows \in Seq(TableRow')
    BY SameTable
  <1> QED BY <1>1, <1>3, <1>4 DEF ResultFits, Kept

\* Every step counts, and has an answer in range.
LEMMA StepCounts ==
  ASSUME IInv, Step, last'.affected \in -1 .. 4
  PROVE  table' = table /\ LastFits'
  <1>1. steps \in Nat /\ steps < MaxSteps /\ steps' = steps + 1 /\ table' = table
    BY Limits DEF Step, IInv, LastFits
  <1>2. steps' \in 0 .. MaxSteps
    BY <1>1, Limits
  <1> QED BY <1>1, <1>2 DEF LastFits

\* A page is loaded of rows the table has.
LEMMA LoadFits ==
  ASSUME IInv, NEW number \in Nat, NEW column, NEW desc, Load(number, column, desc)
  PROVE  IInv'
  <1>1. PICK rows, got :
          /\ rows = Rows(parse_sort_order(column, IF desc THEN "false" ELSE "true"))
          /\ got = fetch_table_data(rows, number * PageSize, PageSize).rows
    OBVIOUS
  <1>2. /\ Step /\ stored' = stored /\ result' = result
        /\ page' = [i \in DOMAIN got |->
                      [row |-> got[i], cells |-> [c \in {"k", "v"} |-> Shown(c, got[i][c])]]]
        /\ last' = [Nothing EXCEPT !.op = "load", !.view = Asked(number, column, desc)]
    BY <1>1 DEF Load
  <1>3. rows \in Seq(TableRow)
    BY <1>1, RowsPlaced DEF IInv
  <1>4. got \in Seq(TableRow) /\ Len(got) \in 0 .. PageSize
    <2>1. PICK offset : offset = number * PageSize
      OBVIOUS
    <2>2. offset \in Nat
      BY <2>1, Limits
    <2> QED BY <1>1, <1>3, <2>1, <2>2, Fetched
  <1>5. last'.affected = 0
    BY <1>2 DEF Nothing
  <1>6. table' = table /\ LastFits'
    BY <1>2, <1>5, StepCounts
  <1>7. PageFits'
    <2>1. DOMAIN page' = 1 .. Len(got)
      BY <1>2, <1>4
    <2>2. Len(page') = Len(got)
      BY <1>4, <2>1
    <2>3. ASSUME NEW i \in DOMAIN page'
          PROVE  page'[i].row = got[i] /\ page'[i].cells = Texts(got[i])
      <3>1. page'[i] = [row |-> got[i], cells |-> Texts(got[i])]
        BY <1>2, <2>3 DEF Texts
      <3> QED BY <3>1
    <2>4. \A i \in DOMAIN page' : got[i] \in TableRow
      BY <1>4, <2>1
    <2>5. \A i \in DOMAIN page' :
            \E r \in TableRow' : page'[i].row = r /\ page'[i].cells = Texts(r)'
      BY <1>6, <2>3, <2>4, SameTable
    <2> QED BY <1>4, <2>1, <2>2, <2>5 DEF PageFits
  <1> QED BY <1>2, <1>6, <1>7, ServerStays, ResultStays DEF IInv

\* A result is made of the rows of the table.
LEMMA QueryFits ==
  ASSUME IInv, Query
  PROVE  IInv'
  <1>1. PICK rows, got : rows = Rows(Unsorted) /\ got = execute_query(rows)
    OBVIOUS
  <1>2. /\ Step /\ stored' = stored /\ page' = page
        /\ result' = [rows |-> [i \in DOMAIN got.rows |->
                                  [c \in {"k", "v"} |-> QueryText(c, got.rows[i][c])]],
                      of |-> rows, truncated |-> got.truncated]
        /\ last' = [Nothing EXCEPT !.op = "query"]
    BY <1>1 DEF Query
  <1>3. rows \in Seq(TableRow)
    BY <1>1, RowsPlaced DEF IInv
  <1>4. got = Collect(rows, FALSE, MaxRows)
    BY <1>1, SameCollect
  <1>5. /\ got.rows \in Seq(TableRow) /\ Len(got.rows) = Kept(rows)
        /\ \A i \in 1 .. Len(got.rows) : got.rows[i] = rows[i]
        /\ got.truncated <=> Len(rows) > MaxRows
    BY <1>3, <1>4, Limits, CollectKeeps DEF Kept
  <1>6. last'.affected = 0
    BY <1>2 DEF Nothing
  <1>7. table' = table /\ LastFits'
    BY <1>2, <1>6, StepCounts
  <1>8. result'.of = rows /\ (result'.truncated <=> Len(rows) > MaxRows)
    BY <1>2, <1>5
  <1>9. result'.rows = [i \in 1 .. Kept(rows) |-> Answered(rows[i])]
    <2>1. result'.rows = [i \in DOMAIN got.rows |->
                            [c \in {"k", "v"} |-> QueryText(c, got.rows[i][c])]]
      BY <1>2
    <2>2. result'.rows = [i \in DOMAIN got.rows |-> Answered(got.rows[i])]
      BY <2>1 DEF Answered
    <2>3. DOMAIN got.rows = 1 .. Kept(rows)
      BY <1>5
    <2> QED BY <1>5, <2>2, <2>3
  <1>10. ResultFits'
    <2>1. \A r : Answered(r)' = Answered(r)
      BY <1>7, SameTable
    <2>2. TableRow' = TableRow
      BY <1>7, SameTable
    <2>3. result'.rows = [i \in 1 .. Kept(rows) |-> Answered(rows[i])']
      BY <1>9, <2>1
    <2> QED BY <1>3, <1>8, <2>2, <2>3 DEF ResultFits, Kept
  <1> QED BY <1>2, <1>7, <1>10, ServerStays, PageStays DEF IInv

\* A write that is answered with an outcome.
LEMMA WriteFits ==
  ASSUME IInv, Step, NEW op, NEW row, NEW cells, NEW answer, Write(op, row, cells, answer),
         NEW wanted \in [Ids -> TableRow \cup {NoRow}], NEW count \in 0 .. 4,
         answer = Outcome(wanted, count)
  PROVE  IInv'
  <1>1. /\ stored' = answer.rows /\ last'.affected = answer.affected
        /\ page' = page /\ result' = result
    BY DEF Write
  <1>2. /\ answer.rows \in [Ids -> TableRow \cup {NoRow}] /\ Legal(answer.rows)
        /\ answer.affected \in -1 .. 4
    BY OutcomeFits DEF IInv
  <1>3. table' = table /\ LastFits'
    BY <1>1, <1>2, StepCounts
  <1>4. ServerFits'
    BY <1>1, <1>2, <1>3, SameTable DEF ServerFits
  <1>5. TableTyped'
    BY <1>3, SameTable DEF IInv
  <1> QED BY <1>1, <1>3, <1>4, <1>5, PageStays, ResultStays DEF IInv

\* What the cells of a write hold.
LEMMA CellsHeld ==
  ASSUME TableTyped, NEW text, Given(Cell("v", text)) \in Held,
         NEW a \in {OneCell(text), TwoCells(text)}, NEW r \in TableRow
  PROVE  /\ WithCells(a, text, r) \in TableRow
         /\ [k |-> <<"10">>, v |-> Given(Cell("v", text))] \in TableRow
  <1>1. <<"10">> \in Keys /\ r.k \in Keys
    BY DEF Keys, TableRow
  <1> QED BY <1>1 DEF WithCells, TableRow

\* The changes are the cells of a typed text.
LEMMA ChangesMade ==
  ASSUME NEW changes \in Changes
  PROVE  \E text \in Typed : changes \in {OneCell(text), TwoCells(text)}
  BY DEF Changes, OneCell, TwoCells

\* How many rows a set of rows has.
LEMMA RowsCounted ==
  ASSUME ServerFits, NEW hit \in SUBSET Present
  PROVE  Cardinality(hit) \in 0 .. 4
  <1>1. /\ IsFiniteSet(Present) /\ Cardinality(Present) \in 0 .. 4
    BY PresentRows
  <1>2. /\ IsFiniteSet(hit) /\ Cardinality(hit) <= Cardinality(Present)
    BY <1>1, FS_Subset
  <1>3. Cardinality(hit) \in Nat
    BY <1>2, FS_CardinalityType
  <1> QED BY <1>1, <1>2, <1>3

\* An update of a row of the page.
LEMMA UpdateFits ==
  ASSUME IInv, NEW i \in DOMAIN page, NEW changes \in Changes, Update(i, changes)
  PROVE  IInv'
  <1>1. PICK text \in Typed : changes \in {OneCell(text), TwoCells(text)}
    BY ChangesMade
  <1>2. PICK row \in TableRow : page[i].row = row /\ page[i].cells = Texts(row)
    BY DEF IInv, PageFits
  <1>3. PICK answer : answer = Updated(changes, build_row_keys(Texts(row)))
    OBVIOUS
  <1>4. Step /\ Write("update", row, changes, answer)
    BY <1>2, <1>3 DEF Update
  <1>5. PICK hit \in SUBSET Present :
          answer = Outcome(Rewritten(hit, changes, text), Cardinality(hit))
    BY <1>1, <1>3, UpdateOf DEF IInv
  <1>6. PICK wanted : wanted = Rewritten(hit, changes, text)
    OBVIOUS
  <1>7. wanted \in [Ids -> TableRow \cup {NoRow}]
    <2>1. Given(Cell("v", text)) \in Held
      BY <1>1, TypedMeans DEF IInv
    <2>2. \A id \in hit : WithCells(changes, text, stored[id]) \in TableRow
      BY <1>1, <2>1, CellsHeld, PresentRows DEF IInv
    <2>3. \A id \in Ids : stored[id] \in TableRow \cup {NoRow}
      BY DEF IInv, ServerFits
    <2> QED BY <1>6, <2>2, <2>3 DEF Rewritten
  <1>8. Cardinality(hit) \in 0 .. 4
    BY RowsCounted DEF IInv
  <1> QED BY <1>4, <1>5, <1>6, <1>7, <1>8, WriteFits

\* A delete of a row of the page.
LEMMA DeleteFits ==
  ASSUME IInv, NEW i \in DOMAIN page, Delete(i)
  PROVE  IInv'
  <1>2. PICK row \in TableRow : page[i].row = row /\ page[i].cells = Texts(row)
    BY DEF IInv, PageFits
  <1>3. PICK answer : answer = Deleted(build_row_keys(Texts(row)))
    OBVIOUS
  <1>4. Step /\ Write("delete", row, <<>>, answer)
    BY <1>2, <1>3 DEF Delete
  <1>5. PICK hit \in SUBSET Present :
          answer = Outcome([id \in Ids |-> IF id \in hit THEN NoRow ELSE stored[id]],
                           Cardinality(hit))
    BY <1>3, DeleteOf DEF IInv
  <1>6. PICK wanted : wanted = [id \in Ids |-> IF id \in hit THEN NoRow ELSE stored[id]]
    OBVIOUS
  <1>7. wanted \in [Ids -> TableRow \cup {NoRow}]
    <2>1. \A id \in Ids : stored[id] \in TableRow \cup {NoRow}
      BY DEF IInv, ServerFits
    <2> QED BY <1>6, <2>1
  <1>8. Cardinality(hit) \in 0 .. 4
    BY RowsCounted DEF IInv
  <1> QED BY <1>4, <1>5, <1>6, <1>7, <1>8, WriteFits

\* A row with the new key, whatever asks for it.
LEMMA RowAdded ==
  ASSUME IInv, Step, Ids # Present, NEW text, Given(Cell("v", text)) \in Held,
         NEW op, NEW row, Write(op, row, TwoCells(text), Inserted(TwoCells(text)))
  PROVE  IInv'
  <1>1. PICK new : new = [k |-> <<"10">>, v |-> Given(Cell("v", text))]
    OBVIOUS
  <1>2. PICK id \in Ids \ Present :
          Inserted(TwoCells(text)) = Outcome([stored EXCEPT ![id] = new], 1)
    BY <1>1, InsertOf DEF IInv
  <1>3. PICK wanted, answer : wanted = [stored EXCEPT ![id] = new] /\ answer = Inserted(TwoCells(text))
    OBVIOUS
  <1>4. new \in TableRow
    <2>1. <<"10">> \in Keys
      BY DEF Keys
    <2> QED BY <1>1, <2>1 DEF TableRow
  <1>5. wanted \in [Ids -> TableRow \cup {NoRow}]
    BY <1>3, <1>4 DEF IInv, ServerFits
  <1>6. answer = Outcome(wanted, 1)
    BY <1>2, <1>3
  <1>7. PICK one \in 0 .. 4 : one = 1
    OBVIOUS
  <1> QED BY <1>3, <1>5, <1>6, <1>7, WriteFits

\* A row is inserted as typed.
LEMMA InsertFits ==
  ASSUME IInv, NEW text \in Typed, Insert(text)
  PROVE  IInv'
  <1>1. Step /\ Ids # Present /\ Write("insert", NoRow, TwoCells(text), Inserted(TwoCells(text)))
    BY DEF Insert, TwoCells
  <1>2. Given(Cell("v", text)) \in Held
    BY TypedMeans DEF IInv
  <1> QED BY <1>1, <1>2, RowAdded

\* A row is inserted as a row of the page shows it.
LEMMA DuplicateFits ==
  ASSUME IInv, NEW i \in DOMAIN page, Duplicate(i)
  PROVE  IInv'
  <1>1. PICK row \in TableRow : page[i].row = row /\ page[i].cells = Texts(row)
    BY DEF IInv, PageFits
  <1>2. PICK text : text = Shown("v", row.v)
    OBVIOUS
  <1>3. page[i].cells.v = text
    BY <1>1, <1>2 DEF Texts
  <1>4. /\ Step /\ Ids # Present
        /\ Write("duplicate", row, TwoCells(text), Inserted(TwoCells(text)))
    BY <1>1, <1>3 DEF Duplicate, TwoCells
  <1>5. Given(Cell("v", text)) \in Held
    <2>1. PICK x \in Held : x = row.v
      BY DEF TableRow
    <2> QED BY <1>2, <2>1, ShownMeans DEF IInv
  <1> QED BY <1>4, <1>5, RowAdded

\* Another client changes a value or removes a row.
LEMMA OtherFits ==
  ASSUME IInv, Other
  PROVE  IInv'
  <1>1. PICK id \in Present :
          \E row \in {NoRow} \cup [k : {stored[id].k}, v : Payloads(table.engine, table.type)] :
            stored' = [stored EXCEPT ![id] = row]
    BY DEF Other
  <1>2. PICK row \in {NoRow} \cup [k : {stored[id].k}, v : Payloads(table.engine, table.type)] :
          stored' = [stored EXCEPT ![id] = row]
    BY <1>1
  <1>3. PICK old \in TableRow : old = stored[id]
    BY PresentRows DEF IInv
  <1>4. PICK rows : rows = [stored EXCEPT ![id] = row]
    OBVIOUS
  <1>5. row # NoRow => row \in TableRow /\ row.k = old.k
    <2>1. Payloads(table.engine, table.type) \subseteq Held
      BY PayloadsHeld DEF IInv
    <2>2. old.k \in Keys
      BY DEF TableRow
    <2> QED BY <1>2, <1>3, <2>1, <2>2 DEF TableRow
  <1>6. rows \in [Ids -> TableRow \cup {NoRow}]
    BY <1>4, <1>5 DEF IInv, ServerFits
  <1>7. \A o \in Ids : rows[o] # NoRow => stored[o] # NoRow /\ rows[o].k = stored[o].k
    <2>1. DOMAIN stored = Ids /\ id \in Ids /\ stored[id] # NoRow
      BY DEF IInv, ServerFits, Present
    <2> QED BY <1>3, <1>4, <1>5, <2>1
  <1>8. Legal(rows)
    BY <1>6, <1>7, LegalKept DEF IInv
  <1>9. Step /\ page' = page /\ result' = result /\ last' = [Nothing EXCEPT !.op = "other"]
    BY DEF Other
  <1>10. last'.affected = 0
    BY <1>9 DEF Nothing
  <1>11. table' = table /\ LastFits'
    BY <1>9, <1>10, StepCounts
  <1>12. ServerFits'
    BY <1>2, <1>4, <1>6, <1>8, <1>11, SameTable DEF ServerFits
  <1>13. TableTyped'
    BY <1>11, SameTable DEF IInv
  <1> QED BY <1>9, <1>11, <1>12, <1>13, PageStays, ResultStays DEF IInv

\* So every step does.
LEMMA NextFits == IInv /\ [Next]_vars => IInv'
  <1> SUFFICES ASSUME IInv, [Next]_vars PROVE IInv'
    OBVIOUS
  <1>1. ASSUME NEW number \in 0 .. 1, NEW sort \in Sorts,
               Load(number, sort.column, sort.desc)
        PROVE  IInv'
    <2>1. PICK n \in Nat : n = number
      OBVIOUS
    <2>2. PICK column, desc : column = sort.column /\ desc = sort.desc
      OBVIOUS
    <2>3. Load(n, column, desc)
      BY <1>1, <2>1, <2>2
    <2> QED BY <2>3, LoadFits
  <1>2. CASE Query
    BY <1>2, QueryFits
  <1>3. ASSUME NEW i \in DOMAIN page, NEW changes \in Changes, Update(i, changes)
        PROVE  IInv'
    BY <1>3, UpdateFits
  <1>4. ASSUME NEW i \in DOMAIN page, Delete(i) \/ Duplicate(i)
        PROVE  IInv'
    BY <1>4, DeleteFits, DuplicateFits
  <1>5. ASSUME NEW text \in Typed, Insert(text)
        PROVE  IInv'
    BY <1>5, InsertFits
  <1>6. CASE Other
    BY <1>6, OtherFits
  <1>7. CASE UNCHANGED vars
    <2>1. /\ table' = table /\ stored' = stored /\ page' = page /\ result' = result
          /\ last' = last /\ steps' = steps
      BY <1>7 DEF vars
    <2>2. LastFits'
      BY <2>1 DEF IInv, LastFits
    <2> QED BY <2>1, <2>2, ServerStays, PageStays, ResultStays DEF IInv
  <1> QED BY <1>1, <1>2, <1>3, <1>4, <1>5, <1>6, <1>7 DEF Next

\* The invariant holds in every state.
LEMMA AlwaysFits == Spec => []IInv
  <1>1. Init => IInv
    BY InitFits
  <1>2. IInv /\ [Next]_vars => IInv'
    BY NextFits
  <1> QED BY <1>1, <1>2, PTL DEF Spec

-----------------------------------------------------------------------------
(* What a result shows.                                                    *)

\* Division that truncates towards zero, with its remainder.
LEMMA Truncates ==
  ASSUME NEW a \in Int
  PROVE  /\ Pg!Div(a, 12) \in Int /\ Pg!Rem(a, 12) \in Int
         /\ Pg!Div(a, 12) * 12 + Pg!Rem(a, 12) = a
         /\ Pg!Div(a, 100) \in Int /\ Pg!Rem(a, 100) \in Int
         /\ Pg!Div(a, 100) * 100 + Pg!Rem(a, 100) = a
  <1>1. CASE a < 0
    <2>1. PICK n \in Nat : n = -a
      BY <1>1
    <2>2. /\ n \div 12 \in Nat /\ n \div 100 \in Nat
      BY <2>1
    <2>3. Pg!Div(a, 12) = -(n \div 12) /\ Pg!Div(a, 100) = -(n \div 100)
      BY <1>1, <2>1 DEF Pg!Div
    <2> QED BY <2>2, <2>3 DEF Pg!Rem
  <1>2. CASE ~(a < 0)
    <2>1. a \in Nat
      BY <1>2
    <2>2. /\ a \div 12 \in Nat /\ a \div 100 \in Nat
      BY <2>1
    <2>3. Pg!Div(a, 12) = a \div 12 /\ Pg!Div(a, 100) = a \div 100
      BY <1>2 DEF Pg!Div
    <2> QED BY <2>2, <2>3 DEF Pg!Rem
  <1> QED BY <1>1, <1>2

\* Hours, minutes and seconds that add up to a number of seconds.
AddUp(h, m, s, a) ==
  /\ h \in Int /\ m \in Int /\ s \in Int
  /\ (h * 60 + m) * 60 + s = a
  /\ m \in -59 .. 59 /\ s \in -59 .. 59

\* So do those an interval is printed with.
LEMMA ClockFields ==
  ASSUME NEW a \in Int
  PROVE  AddUp(Pg!Div(a, 3600), Pg!Div(Pg!Rem(a, 3600), 60), Pg!Rem(a, 60), a)
  <1>0. PICK h, r, m, s : /\ h = Pg!Div(a, 3600) /\ r = Pg!Rem(a, 3600)
                          /\ m = Pg!Div(r, 60) /\ s = Pg!Rem(a, 60)
    OBVIOUS
  <1>1. ASSUME a >= 0 PROVE AddUp(h, m, s, a)
    <2>1. PICK q \in Nat : q = a \div 3600
      BY <1>1
    <2>2. 3600 * q <= a /\ a < 3600 * q + 3600
      BY <1>1, <2>1
    <2>3. h = q /\ r = a - 3600 * q
      BY <1>0, <1>1, <2>1 DEF Pg!Div, Pg!Rem
    <2>11. PICK t \in Nat : t = r /\ t < 3600
      BY <1>1, <2>2, <2>3
    <2>4. PICK p \in Nat : p = t \div 60
      BY <2>11
    <2>5. 60 * p <= t /\ t < 60 * p + 60
      BY <2>11, <2>4
    <2>6. m = p /\ p < 60
      BY <1>0, <2>11, <2>4, <2>5 DEF Pg!Div
    <2>7. PICK k \in Nat : k = a \div 60
      BY <1>1
    <2>8. 60 * k <= a /\ a < 60 * k + 60
      BY <1>1, <2>7
    <2>9. s = a - 60 * k
      BY <1>0, <1>1, <2>7 DEF Pg!Div, Pg!Rem
    <2>10. k = 60 * q + p
      BY <2>3, <2>11, <2>5, <2>8
    <2> QED BY <2>3, <2>6, <2>8, <2>9, <2>10 DEF AddUp
  <1>2. ASSUME a < 0 PROVE AddUp(h, m, s, a)
    <2>1. PICK b \in Nat : b = -a /\ b > 0
      BY <1>2
    <2>2. PICK q \in Nat : q = b \div 3600
      BY <2>1
    <2>3. 3600 * q <= b /\ b < 3600 * q + 3600
      BY <2>1, <2>2
    <2>4. h = -q
      BY <1>0, <1>2, <2>1, <2>2 DEF Pg!Div
    <2>5. r = a + 3600 * q
      BY <1>0, <2>4, <1>2 DEF Pg!Rem
    <2>6. PICK t \in Nat : t = -r /\ t \in 0 .. 3599
      BY <2>1, <2>3, <2>5
    <2>7. PICK p \in Nat : p = t \div 60
      BY <2>6
    <2>8. 60 * p <= t /\ t < 60 * p + 60
      BY <2>6, <2>7
    <2>9. m = -p
      <3>1. CASE r < 0
        BY <1>0, <2>6, <2>7, <3>1 DEF Pg!Div
      <3>2. CASE ~(r < 0)
        <4>1. r = 0 /\ t = 0
          BY <2>5, <2>6, <3>2
        <4>2. p = 0
          BY <2>8, <4>1
        <4>3. 0 \div 60 = 0
          OBVIOUS
        <4> QED BY <1>0, <4>1, <4>2, <4>3 DEF Pg!Div
      <3> QED BY <3>1, <3>2
    <2>10. PICK k \in Nat : k = b \div 60
      BY <2>1
    <2>11. 60 * k <= b /\ b < 60 * k + 60
      BY <2>1, <2>10
    <2>12. s = a + 60 * k
      BY <1>0, <1>2, <2>1, <2>10 DEF Pg!Div, Pg!Rem
    <2>13. k = 60 * q + p
      BY <2>1, <2>5, <2>6, <2>8, <2>11
    <2> QED BY <2>1, <2>4, <2>5, <2>6, <2>8, <2>9, <2>11, <2>12, <2>13 DEF AddUp
  <1> QED BY <1>0, <1>1, <1>2

\* The fields of an interval that add up to it.
IntervalOf(text, months, days, us) ==
  /\ text \in Interval
  /\ text.years * 12 + text.mons = months
  /\ text.days = days
  /\ ((text.hours * 60 + text.minutes) * 60 + text.seconds) * Pg!Second
       + text.micros = us
  /\ {text.minutes, text.seconds} \subseteq -59 .. 59

\* What is printed adds up for every interval, whatever its sign.
LEMMA IntervalAddsUp ==
  ASSUME NEW months \in Int, NEW days \in Int, NEW us \in Int
  PROVE  IntervalOf(Pg!pg_interval_to_string(months, days, us), months, days, us)
  <1>0. PICK text : text = Pg!pg_interval_to_string(months, days, us)
    OBVIOUS
  <1>1. PICK total, h, m, s, y, o, f, r :
          /\ total = Pg!Div(us, 100) /\ h = Pg!Div(total, 3600) /\ r = Pg!Rem(total, 3600)
          /\ m = Pg!Div(r, 60) /\ s = Pg!Rem(total, 60)
          /\ y = Pg!Div(months, 12) /\ o = Pg!Rem(months, 12) /\ f = Pg!Rem(us, 100)
    OBVIOUS
  <1>2. /\ y \in Int /\ o \in Int /\ y * 12 + o = months
        /\ total \in Int /\ f \in Int /\ total * 100 + f = us
    BY <1>1, Truncates
  <1>3. /\ h \in Int /\ m \in Int /\ s \in Int
        /\ (h * 60 + m) * 60 + s = total
        /\ m \in -59 .. 59 /\ s \in -59 .. 59
    <2>1. AddUp(h, m, s, total)
      BY <1>1, <1>2, ClockFields
    <2> QED BY <2>1 DEF AddUp
  <1>4. text = [years |-> y, mons |-> o, days |-> days, hours |-> h, minutes |-> m,
                seconds |-> s, micros |-> f]
    BY <1>0, <1>1 DEF Pg!pg_interval_to_string, Pg!Second
  <1>5. text \in Interval
    BY <1>2, <1>3, <1>4 DEF Interval
  <1>6. /\ text.years = y /\ text.mons = o /\ text.days = days /\ text.hours = h
        /\ text.minutes = m /\ text.seconds = s /\ text.micros = f
    BY <1>4
  <1>7. Pg!Second = 100
    BY DEF Pg!Second
  <1>8. IntervalOf(text, months, days, us)
    BY <1>2, <1>3, <1>5, <1>6, <1>7 DEF IntervalOf
  <1> QED BY <1>0, <1>8

\* A text with a mark in front is a text.
LEMMA MarkedText ==
  ASSUME NEW mark \in Tokens, NEW p \in Seq(Tokens)
  PROVE  <<mark>> \o p # NULL
  <1>1. PICK text : text = <<mark>> \o p
    OBVIOUS
  <1>2. text \in Seq(Tokens)
    BY <1>1, Marked
  <1> QED BY <1>1, <1>2, NullIsNoText

\* The values a result shows as NULL.
Hidden(x) ==
  \/ x = NULL
  \/ NoBranch
  \/ table.type = "bool" /\ x \notin Payloads("sqlite", "bool")

\* A value and the text a result shows for it.
ShowsValue(text, x) ==
  /\ (text = NULL) <=> Hidden(x)
  /\ (table.type = "interval" /\ x # NULL) =>
       /\ text.years * 12 + text.mons = x[1]
       /\ text.days = x[2]
       /\ ((text.hours * 60 + text.minutes) * 60 + text.seconds) * Pg!Second
            + text.micros = x[3]
       /\ {text.minutes, text.seconds} \subseteq -59 .. 59

\* The values of the instances that are intervals.
LEMMA IntervalPayloads ==
  ASSUME TableTyped, table.type = "interval", NEW x \in Held, x # NULL
  PROVE  table.engine = "postgres" /\ x[1] \in Int /\ x[2] \in Int /\ x[3] \in Int
  <1>1. table.engine = "postgres"
    BY TypesOfEngine
  <1>2. ~Lossy
    BY <1>1 DEF Lossy
  <1>3. x \in {<<15, 3, 60 * Pg!Second + 1>>, <<-13, 0, -3601 * Pg!Second>>}
    BY <1>2 DEF Held, Payloads
  <1>4. 60 * Pg!Second + 1 \in Int /\ -3601 * Pg!Second \in Int
    BY DEF Pg!Second
  <1>5. PICK u, w : u = 60 * Pg!Second + 1 /\ w = -3601 * Pg!Second
    OBVIOUS
  <1>6. x \in {<<15, 3, u>>, <<-13, 0, w>>} /\ u \in Int /\ w \in Int
    BY <1>3, <1>4, <1>5
  <1> QED BY <1>1, <1>6

\* A query shows a value, or NULL for what it cannot decode.
LEMMA QueryShows ==
  ASSUME TableTyped, NEW x \in Held
  PROVE  ShowsValue(QueryText("v", x), x)
  <1>1. TypeOf("v") = table.type
    BY DEF TypeOf
  <1>2. PICK text : text = QueryText("v", x)
    OBVIOUS
  <1>3. x # NULL /\ table.type # "interval" => x \in Seq(Tokens)
    BY PayloadKinds DEF Held
  <1>4. CASE x = NULL
    <2>1. text = NULL
      BY <1>1, <1>2, <1>4 DEF QueryText, Pg!pg_value_to_string, Pg!AsText,
                              MySql!value_to_string, MySql!PageText, Sqlite!value_to_string
    <2> QED BY <1>2, <1>4, <2>1 DEF ShowsValue, Hidden
  <1>5. CASE x # NULL /\ table.type = "interval"
    <2>1. PICK months \in Int, days \in Int, us \in Int :
            x[1] = months /\ x[2] = days /\ x[3] = us
      BY <1>5, IntervalPayloads
    <2>2. table.engine = "postgres"
      BY <1>5, IntervalPayloads
    <2>3. text = Pg!pg_interval_to_string(months, days, us)
      BY <1>1, <1>2, <1>5, <2>1, <2>2 DEF QueryText, Pg!pg_value_to_string
    <2>4. IntervalOf(text, months, days, us)
      BY <2>3, IntervalAddsUp
    <2>5. text # NULL /\ ~Hidden(x)
      BY <1>5, <2>2, <2>4, NullIsNoText DEF Hidden, NoBranch, IntervalOf
    <2> QED BY <1>2, <2>1, <2>4, <2>5 DEF ShowsValue, IntervalOf
  <1>6. ASSUME x # NULL, table.type # "interval"
        PROVE  (text = NULL) <=> Hidden(x)
    <2>1. x \in Seq(Tokens)
      BY <1>3, <1>6
    <2>2. PICK hex \in Tokens, zero \in Tokens : hex = "\\x" /\ zero = "0x"
      BY DEF Tokens
    <2>3. <<hex>> \o x # NULL /\ <<zero>> \o x # NULL
      BY <2>1, <2>2, MarkedText
    <2>4. CASE table.engine = "postgres"
      <3>1. table.type # "bool"
        BY <2>4, TypesOfEngine
      <3>2. CASE table.type = "enum"
        <4>1. text = NULL
          BY <1>1, <1>2, <2>4, <3>2 DEF QueryText, Pg!pg_value_to_string
        <4> QED BY <2>4, <3>2, <4>1 DEF Hidden, NoBranch
      <3>3. CASE table.type # "enum"
        <4>1. ~Hidden(x)
          BY <1>6, <2>4, <3>1, <3>3 DEF Hidden, NoBranch
        <4>2. text = <<hex>> \o x \/ text = x
          BY <1>1, <1>2, <1>6, <2>2, <2>4, <3>3 DEF QueryText, Pg!pg_value_to_string, Pg!AsText
        <4> QED BY <1>6, <2>3, <4>1, <4>2
      <3> QED BY <3>2, <3>3
    <2>5. CASE table.engine = "mysql"
      <3>1. table.type # "bool"
        BY <2>5, TypesOfEngine
      <3>2. CASE table.type = "decimal"
        <4>1. text = NULL
          BY <1>1, <1>2, <2>5, <3>2 DEF QueryText, MySql!value_to_string
        <4> QED BY <2>5, <3>2, <4>1 DEF Hidden, NoBranch
      <3>3. CASE table.type # "decimal"
        <4>1. ~Hidden(x)
          BY <1>6, <2>5, <3>1, <3>3 DEF Hidden, NoBranch
        <4>2. text = <<zero>> \o x \/ text = x
          BY <1>1, <1>2, <1>6, <2>2, <2>5, <3>3 DEF QueryText, MySql!value_to_string, MySql!PageText
        <4> QED BY <1>6, <2>3, <4>1, <4>2
      <3> QED BY <3>2, <3>3
    <2>6. CASE table.engine = "sqlite"
      <3>1. CASE table.type = "bool"
        <4>1. Payloads("sqlite", "bool") = {<<"T">>, <<"F">>}
          BY DEF Payloads
        <4>2. <<"true">> # NULL /\ <<"false">> # NULL
          <5>1. <<"true">> \in Seq(Tokens) /\ <<"false">> \in Seq(Tokens)
            BY TokenTexts DEF Tokens
          <5> QED BY <5>1, NullIsNoText
        <4>3. text = IF x = <<"T">> THEN <<"true">>
                     ELSE IF x = <<"F">> THEN <<"false">> ELSE NULL
          BY <1>1, <1>2, <1>6, <2>6, <3>1 DEF QueryText, Sqlite!value_to_string
        <4>4. Hidden(x) <=> x # <<"T">> /\ x # <<"F">>
          BY <1>6, <2>6, <3>1, <4>1 DEF Hidden, NoBranch
        <4> QED BY <4>2, <4>3, <4>4
      <3>2. CASE table.type # "bool"
        <4>1. ~Hidden(x)
          BY <1>6, <2>6, <3>2 DEF Hidden, NoBranch
        <4>2. text = <<zero>> \o x \/ text = x
          BY <1>1, <1>2, <1>6, <2>2, <2>6, <3>2 DEF QueryText, Sqlite!value_to_string
        <4> QED BY <1>6, <2>3, <4>1, <4>2
      <3> QED BY <3>1, <3>2
    <2> QED BY <2>4, <2>5, <2>6 DEF TableTyped
  <1>7. CASE x # NULL /\ table.type # "interval"
    BY <1>2, <1>6, <1>7 DEF ShowsValue
  <1> QED BY <1>4, <1>5, <1>7

\* What the invariant says of a result.
LEMMA ResultShown ==
  ASSUME IInv
  PROVE  /\ Len(result.rows) \in Nat /\ Len(result.rows) <= MaxRows
         /\ TruncatedMeansMore /\ ResultShowsValues
  <1>1. PICK rows \in Seq(TableRow) :
          /\ result.of = rows
          /\ result.rows = [i \in 1 .. Kept(rows) |-> Answered(rows[i])]
          /\ result.truncated <=> Len(rows) > MaxRows
    BY DEF IInv, ResultFits
  <1>2. Kept(rows) \in Nat /\ Kept(rows) <= MaxRows /\ Kept(rows) <= Len(rows)
    BY Limits DEF Kept
  <1>3. Len(rows) \in Nat /\ (Len(rows) > MaxRows <=> Len(rows) > Kept(rows))
    BY Limits DEF Kept
  <1>4. DOMAIN result.rows = 1 .. Kept(rows) /\ Len(result.rows) = Kept(rows)
    BY <1>1, <1>2
  <1>5. TruncatedMeansMore
    BY <1>1, <1>3, <1>4 DEF TruncatedMeansMore
  <1>6. ASSUME NEW i \in DOMAIN result.rows
        PROVE  ShowsValue(result.rows[i].v, result.of[i].v)
    <2>1. i \in 1 .. Len(rows)
      BY <1>2, <1>3, <1>4
    <2>0. PICK r \in TableRow : r = rows[i]
      BY <2>1
    <2>2. PICK x \in Held : x = rows[i].v
      BY <2>0 DEF TableRow
    <2>3. result.rows[i].v = QueryText("v", x)
      BY <1>1, <1>4, <2>2 DEF Answered
    <2>4. result.of[i].v = x
      BY <1>1, <2>2
    <2>5. ShowsValue(QueryText("v", x), x)
      BY QueryShows DEF IInv
    <2> QED BY <2>3, <2>4, <2>5
  <1>7. ResultShowsValues
    BY <1>6 DEF ResultShowsValues, ShowsValue, Hidden
  <1> QED BY <1>2, <1>4, <1>5, <1>7

\* What it says of the table and the page.
LEMMA PageTyped ==
  ASSUME IInv
  PROVE  TypeOK
  <1>1. table.type \in Types[table.engine] /\ table.pk \in BOOLEAN
    BY DEF IInv, TableTyped
  <1>2. \A id \in Ids : DOMAIN stored[id] = {"k", "v"}
    <2>1. \A id \in Ids : stored[id] \in TableRow \cup {NoRow}
      BY DEF IInv, ServerFits
    <2> QED BY <2>1, RowsByColumn
  <1>3. Legal(stored)
    BY DEF IInv, ServerFits
  <1>4. Len(page) <= PageSize
    BY Limits DEF IInv, PageFits
  <1>5. \A i \in DOMAIN page : DOMAIN page[i].cells = {"k", "v"}
    BY DEF IInv, PageFits, Texts
  <1>6. last.affected \in -1 .. Cardinality(Ids)
    <2>1. PICK m \in Int, n \in Int : m = 1 /\ n = 4
      OBVIOUS
    <2>2. Cardinality(m .. n) = IF m > n THEN 0 ELSE n - m + 1
      BY FS_Interval
    <2>3. Cardinality(Ids) = 4
      BY <2>1, <2>2 DEF Ids
    <2> QED BY <2>3 DEF IInv, LastFits
  <1>7. steps \in 0 .. MaxSteps
    BY DEF IInv, LastFits
  <1> QED BY <1>1, <1>2, <1>3, <1>4, <1>5, <1>6, <1>7, ResultShown DEF TypeOK

\* The page and a query's result say of the rows they stand for what is so: no
\* more rows than a page has, a result marked as cut off exactly when rows are
\* missing, NULL for NULL, and intervals that add up, whatever they are
\* (execute_query and the value conversions of the three drivers).
THEOREM ResultIsTold == Spec => []ResultIsHonest
  <1>1. IInv => ResultIsHonest
    BY PageTyped, ResultShown DEF ResultIsHonest
  <1> QED BY <1>1, AlwaysFits, PTL

-----------------------------------------------------------------------------
(* What a write does.                                                      *)

\* The text a list of cells gives a column.
TextFor(a, c) == (CHOOSE x \in Range(a) : x.column = c).value

\* A column after the cells are written, as the user means them.
NewCell(a, c, old) ==
  IF \E j \in DOMAIN a : a[j].column = c THEN Meaning(c, TextFor(a, c)) ELSE old

\* It is what the statement assigns.
LEMMA CellsMeant ==
  ASSUME TableTyped, NEW text \in Typed, NEW a \in {OneCell(text), TwoCells(text)},
         NEW r \in TableRow
  PROVE  [c \in {"k", "v"} |-> NewCell(a, c, r[c])] = WithCells(a, text, r)
  <1>1. PICK x, y : x = Cell("v", text) /\ y = Cell("k", <<"10">>)
    OBVIOUS
  <1>2. /\ x.column = "v" /\ x.value = text /\ y.column = "k" /\ y.value = <<"10">>
    BY <1>1, WhenExpression
  <1>3. Given(x) = Meaning("v", text)
    BY <1>1, TypedMeans
  <1>4. Meaning("k", <<"10">>) = <<"10">>
    BY KeyText DEF Meaning
  <1>5. PICK n : n = [c \in {"k", "v"} |-> NewCell(a, c, r[c])]
    OBVIOUS
  <1>6. CASE a = OneCell(text)
    <2>1. a = <<x>>
      BY <1>1, <1>6 DEF OneCell
    <2>2. DOMAIN a = {1} /\ a[1] = x /\ Range(a) = {x}
      BY <2>1 DEF Range
    <2>3. TextFor(a, "v") = text
      BY <1>2, <2>2 DEF TextFor
    <2>4. NewCell(a, "v", r.v) = Given(x) /\ NewCell(a, "k", r.k) = r.k
      BY <1>2, <1>3, <2>2, <2>3 DEF NewCell
    <2>5. a # TwoCells(text)
      BY <1>6, TwoAreNotOne
    <2>6. WithCells(a, text, r) = [k |-> r.k, v |-> Given(x)]
      BY <1>1, <2>5 DEF WithCells
    <2> QED BY <2>4, <2>6
  <1>7. CASE a = TwoCells(text)
    <2>1. a = <<y, x>>
      BY <1>1, <1>7 DEF TwoCells
    <2>2. DOMAIN a = {1, 2} /\ a[1] = y /\ a[2] = x
      BY <2>1
    <2>3. Range(a) = {y, x}
      BY <2>2 DEF Range
    <2>4. TextFor(a, "v") = text /\ TextFor(a, "k") = <<"10">>
      BY <1>2, <2>3 DEF TextFor
    <2>5. NewCell(a, "v", r.v) = Given(x) /\ NewCell(a, "k", r.k) = <<"10">>
      BY <1>2, <1>3, <1>4, <2>2, <2>4 DEF NewCell
    <2>6. WithCells(a, text, r) = [k |-> <<"10">>, v |-> Given(x)]
      BY <1>1, <1>7 DEF WithCells
    <2> QED BY <2>5, <2>6
  <1> QED BY <1>6, <1>7

\* An answer that is an outcome leaves the table as Becomes says.
LEMMA OutcomeBecomes ==
  ASSUME NEW op, NEW row, NEW cells, NEW answer, Write(op, row, cells, answer),
         NEW wanted, NEW count, answer = Outcome(wanted, count)
  PROVE  Becomes(wanted, count)
  <1>1. stored' = answer.rows /\ last'.affected = answer.affected
    BY DEF Write
  <1>2. CASE Legal(wanted)
    <2>1. answer.rows = wanted /\ answer.affected = count
      BY <1>2 DEF Outcome
    <2> QED BY <1>1, <1>2, <2>1 DEF Becomes
  <1>3. CASE ~Legal(wanted)
    <2>1. answer.rows = stored /\ answer.affected = -1
      BY <1>3 DEF Outcome
    <2> QED BY <1>1, <1>3, <2>1 DEF Becomes
  <1> QED BY <1>2, <1>3

\* The rows an update asks for.
UpdateWanted(row, cells) ==
  [id \in Ids |-> IF id \in Meant(row)
                  THEN [c \in {"k", "v"} |-> NewCell(cells, c, stored[id][c])]
                  ELSE stored[id]]

\* What each kind of write may do.
UpdateExact ==
  last'.op = "update" /\ steps' # steps /\ (table.pk \/ ~Lossy) =>
    Becomes(UpdateWanted(last'.row, last'.cells), Cardinality(Meant(last'.row)))
DeleteExact ==
  last'.op = "delete" /\ steps' # steps /\ (table.pk \/ ~Lossy) =>
    Becomes([id \in Ids |-> IF id \in Meant(last'.row) THEN NoRow ELSE stored[id]],
            Cardinality(Meant(last'.row)))
Valued == IF last'.op = "insert" THEN Meaning("v", last'.cells[2].value) ELSE last'.row.v
InsertExact ==
  last'.op \in {"insert", "duplicate"} /\ steps' # steps /\ (last'.op = "insert" \/ ~Lossy) =>
    \E id \in Ids \ Present : Becomes([stored EXCEPT ![id] = [k |-> <<"10">>, v |-> Valued]], 1)

\* An update does exactly that.
LEMMA UpdateDoes ==
  ASSUME IInv, NEW i \in DOMAIN page, NEW changes \in Changes, Update(i, changes)
  PROVE  UpdateExact /\ last'.op = "update"
  <1>1. PICK text \in Typed : changes \in {OneCell(text), TwoCells(text)}
    BY ChangesMade
  <1>2. PICK row \in TableRow : page[i].row = row /\ page[i].cells = Texts(row)
    BY DEF IInv, PageFits
  <1>3. PICK answer : answer = Updated(changes, build_row_keys(Texts(row)))
    OBVIOUS
  <1>4. Write("update", row, changes, answer)
    BY <1>2, <1>3 DEF Update
  <1>5. last'.op = "update" /\ last'.row = row /\ last'.cells = changes
    BY <1>4 DEF Write
  <1>6. ASSUME table.pk \/ ~Lossy
        PROVE  Becomes(UpdateWanted(row, changes), Cardinality(Meant(row)))
    <2>1. PICK hit \in SUBSET Present :
            /\ table.pk \/ ~Lossy => hit = Meant(row)
            /\ Updated(changes, build_row_keys(Texts(row)))
                 = Outcome(Rewritten(hit, changes, text), Cardinality(hit))
      BY <1>1, UpdateOf DEF IInv
    <2>2. hit = Meant(row)
      BY <1>6, <2>1
    <2>3. PICK wanted : wanted = Rewritten(hit, changes, text)
      OBVIOUS
    <2>4. Becomes(wanted, Cardinality(hit))
      BY <1>3, <1>4, <2>1, <2>3, OutcomeBecomes
    <2>5. ASSUME NEW id \in hit
          PROVE  [c \in {"k", "v"} |-> NewCell(changes, c, stored[id][c])]
                   = WithCells(changes, text, stored[id])
      <3>1. PICK r \in TableRow : r = stored[id]
        BY PresentRows DEF IInv
      <3>2. [c \in {"k", "v"} |-> NewCell(changes, c, r[c])] = WithCells(changes, text, r)
        BY <1>1, CellsMeant DEF IInv
      <3> QED BY <3>1, <3>2
    <2>6. UpdateWanted(row, changes) = wanted
      BY <2>2, <2>3, <2>5 DEF UpdateWanted, Rewritten
    <2> QED BY <2>2, <2>4, <2>6
  <1> QED BY <1>5, <1>6 DEF UpdateExact

\* So does a delete.
LEMMA DeleteDoes ==
  ASSUME IInv, NEW i \in DOMAIN page, Delete(i)
  PROVE  DeleteExact /\ last'.op = "delete"
  <1>1. PICK row \in TableRow : page[i].row = row /\ page[i].cells = Texts(row)
    BY DEF IInv, PageFits
  <1>2. PICK answer : answer = Deleted(build_row_keys(Texts(row)))
    OBVIOUS
  <1>3. Write("delete", row, <<>>, answer)
    BY <1>1, <1>2 DEF Delete
  <1>4. last'.op = "delete" /\ last'.row = row
    BY <1>3 DEF Write
  <1>5. ASSUME table.pk \/ ~Lossy
        PROVE  Becomes([id \in Ids |-> IF id \in Meant(row) THEN NoRow ELSE stored[id]],
                       Cardinality(Meant(row)))
    <2>1. PICK hit \in SUBSET Present :
            /\ table.pk \/ ~Lossy => hit = Meant(row)
            /\ Deleted(build_row_keys(Texts(row)))
                 = Outcome([id \in Ids |-> IF id \in hit THEN NoRow ELSE stored[id]],
                           Cardinality(hit))
      BY DeleteOf DEF IInv
    <2>2. hit = Meant(row)
      BY <1>5, <2>1
    <2>3. PICK wanted : wanted = [id \in Ids |-> IF id \in hit THEN NoRow ELSE stored[id]]
      OBVIOUS
    <2>4. Becomes(wanted, Cardinality(hit))
      BY <1>2, <1>3, <2>1, <2>3, OutcomeBecomes
    <2> QED BY <2>2, <2>3, <2>4
  <1> QED BY <1>4, <1>5 DEF DeleteExact

\* A row with the new key, and the value meant.
LEMMA AddedIsMeant ==
  ASSUME IInv, Ids # Present, NEW text, NEW v, Given(Cell("v", text)) = v,
         NEW op, NEW row, Write(op, row, TwoCells(text), Inserted(TwoCells(text)))
  PROVE  \E id \in Ids \ Present : Becomes([stored EXCEPT ![id] = [k |-> <<"10">>, v |-> v]], 1)
  <1>1. PICK id \in Ids \ Present :
          Inserted(TwoCells(text))
            = Outcome([stored EXCEPT ![id] = [k |-> <<"10">>, v |-> Given(Cell("v", text))]], 1)
    BY InsertOf DEF IInv
  <1>2. PICK wanted, answer, one :
          /\ wanted = [stored EXCEPT ![id] = [k |-> <<"10">>, v |-> v]]
          /\ answer = Inserted(TwoCells(text)) /\ one = 1
    OBVIOUS
  <1>3. answer = Outcome(wanted, one)
    BY <1>1, <1>2
  <1>4. Becomes(wanted, one)
    BY <1>2, <1>3, OutcomeBecomes
  <1> QED BY <1>2, <1>4

\* So does an insert.
LEMMA InsertDoes ==
  ASSUME IInv, NEW text \in Typed, Insert(text)
  PROVE  InsertExact /\ last'.op = "insert"
  <1>1. Ids # Present /\ Write("insert", NoRow, TwoCells(text), Inserted(TwoCells(text)))
    BY DEF Insert, TwoCells
  <1>2. PICK v : v = Meaning("v", text)
    OBVIOUS
  <1>3. Given(Cell("v", text)) = v
    BY <1>2, TypedMeans DEF IInv
  <1>4. \E id \in Ids \ Present : Becomes([stored EXCEPT ![id] = [k |-> <<"10">>, v |-> v]], 1)
    BY <1>1, <1>3, AddedIsMeant
  <1>5. last'.op = "insert" /\ last'.cells = TwoCells(text)
    BY <1>1 DEF Write
  <1>6. last'.cells[2].value = text
    BY <1>5, WhenExpression DEF TwoCells
  <1>7. Valued = v
    BY <1>2, <1>5, <1>6 DEF Valued
  <1> QED BY <1>4, <1>5, <1>7 DEF InsertExact

\* So does a duplicate.
LEMMA DuplicateDoes ==
  ASSUME IInv, NEW i \in DOMAIN page, Duplicate(i)
  PROVE  InsertExact /\ last'.op = "duplicate"
  <1>1. PICK row \in TableRow : page[i].row = row /\ page[i].cells = Texts(row)
    BY DEF IInv, PageFits
  <1>2. PICK text : text = Shown("v", row.v)
    OBVIOUS
  <1>3. page[i].cells.v = text
    BY <1>1, <1>2 DEF Texts
  <1>4. /\ Ids # Present
        /\ Write("duplicate", row, TwoCells(text), Inserted(TwoCells(text)))
    BY <1>1, <1>3 DEF Duplicate, TwoCells
  <1>5. last'.op = "duplicate" /\ last'.row = row
    BY <1>4 DEF Write
  <1>6. PICK v \in Held : v = row.v
    BY DEF TableRow
  <1>7. Valued = v
    BY <1>5, <1>6 DEF Valued
  <1>8. ASSUME ~Lossy
        PROVE  \E id \in Ids \ Present : Becomes([stored EXCEPT ![id] = [k |-> <<"10">>, v |-> v]], 1)
    <2>1. Given(Cell("v", text)) = v
      BY <1>2, <1>6, <1>8, ShownMeans DEF IInv
    <2> QED BY <1>4, <2>1, AddedIsMeant
  <1> QED BY <1>5, <1>7, <1>8 DEF InsertExact

\* So every step writes what it was asked to.
LEMMA StepsWriteExactly ==
  IInv /\ [Next]_vars => UpdateExact /\ DeleteExact /\ InsertExact
  <1> SUFFICES ASSUME IInv, [Next]_vars PROVE UpdateExact /\ DeleteExact /\ InsertExact
    OBVIOUS
  <1>1. last'.op \in {"load", "query", "other"} => UpdateExact /\ DeleteExact /\ InsertExact
    BY DEF UpdateExact, DeleteExact, InsertExact
  <1>2. UpdateExact /\ last'.op = "update" => UpdateExact /\ DeleteExact /\ InsertExact
    BY DEF DeleteExact, InsertExact
  <1>3. DeleteExact /\ last'.op = "delete" => UpdateExact /\ DeleteExact /\ InsertExact
    BY DEF UpdateExact, InsertExact
  <1>4. InsertExact /\ last'.op \in {"insert", "duplicate"}
          => UpdateExact /\ DeleteExact /\ InsertExact
    BY DEF UpdateExact, DeleteExact
  <1>5. steps' = steps => UpdateExact /\ DeleteExact /\ InsertExact
    BY DEF UpdateExact, DeleteExact, InsertExact
  <1>6. ASSUME NEW number \in 0 .. 1, NEW sort \in Sorts,
               Load(number, sort.column, sort.desc)
        PROVE  last'.op = "load"
    BY <1>6 DEF Load, Nothing
  <1>7. Query => last'.op = "query"
    BY DEF Query, Nothing
  <1>8. Other => last'.op = "other"
    BY DEF Other, Nothing
  <1>9. ASSUME NEW i \in DOMAIN page, NEW changes \in Changes, Update(i, changes)
        PROVE  UpdateExact /\ DeleteExact /\ InsertExact
    BY <1>2, <1>9, UpdateDoes
  <1>10. ASSUME NEW i \in DOMAIN page, Delete(i)
         PROVE  UpdateExact /\ DeleteExact /\ InsertExact
    BY <1>3, <1>10, DeleteDoes
  <1>11. ASSUME NEW i \in DOMAIN page, Duplicate(i)
         PROVE  UpdateExact /\ DeleteExact /\ InsertExact
    BY <1>4, <1>11, DuplicateDoes
  <1>12. ASSUME NEW text \in Typed, Insert(text)
         PROVE  UpdateExact /\ DeleteExact /\ InsertExact
    BY <1>4, <1>12, InsertDoes
  <1>13. UNCHANGED vars => steps' = steps
    BY DEF vars
  <1> QED BY <1>1, <1>5, <1>6, <1>7, <1>8, <1>9, <1>10, <1>11, <1>12, <1>13 DEF Next

\* However old the page is and whatever the statement binds, an update sets
\* exactly the cells changed in exactly the rows that still are the row shown,
\* a delete removes exactly these, and an insert adds what was typed, in every
\* table of the three engines (update_row, delete_row, insert_row).
THEOREM WritesExactly == Spec => WritesAreExact
  <1>1. IInv /\ [Next]_vars => UpdateExact /\ DeleteExact /\ InsertExact
    BY StepsWriteExactly
  <1>2. Spec => [][UpdateExact]_vars /\ [][DeleteExact]_vars /\ [][InsertExact]_vars
    BY <1>1, AlwaysFits, PTL DEF Spec
  <1>3. [][UpdateExact]_vars => UpdateIsExact
    BY PTL DEF UpdateExact, UpdateIsExact, UpdateWanted, NewCell, TextFor
  <1>4. [][DeleteExact]_vars => DeleteIsExact
    BY PTL DEF DeleteExact, DeleteIsExact
  <1>5. [][InsertExact]_vars => InsertIsExact
    BY PTL DEF InsertExact, InsertIsExact, Valued
  <1> QED BY <1>2, <1>3, <1>4, <1>5 DEF WritesAreExact

-----------------------------------------------------------------------------
(* What a page holds.                                                      *)

\* The rows in the order of a column, and backwards.
LEMMA RowsSorted ==
  ASSUME TableTyped, ServerFits, NEW desc \in BOOLEAN
  PROVE  Sorted(Rows([column |-> "k", asc |-> ~desc]), order_clause[table.engine], desc)
  <1>1. PICK sort, rows, order : /\ sort = [column |-> "k", asc |-> ~desc]
                                 /\ rows = Rows(sort) /\ order = order_clause[table.engine]
    OBVIOUS
  <1>2. PICK B, N : B = Before(sort) /\ N = Cardinality(Present)
    OBVIOUS
  <1>3. N \in Nat /\ \A id \in Present : order[stored[id].k] \in Int
    BY <1>1, <1>2, PresentRows, KeysRanked DEF TableRow
  <1>4. /\ DOMAIN rows = 1 .. N
        /\ \A n \in 1 .. N : \E id \in Present : Cardinality(B[id]) = n - 1
        /\ \A id \in Present : rows[Cardinality(B[id]) + 1] = stored[id]
    <2>1. rows \in Seq(TableRow) /\ Len(rows) = N
      BY <1>1, <1>2, RowsPlaced
    <2> QED BY <1>1, <1>2, <2>1, RowsPlaced
  <1>5. /\ \A a, b \in Present : a \in B[b] => Cardinality(B[a]) < Cardinality(B[b])
        /\ \A a, b \in Present : a # b => a \in B[b] \/ b \in B[a]
    <2>1. Orders(B, Present) /\ IsFiniteSet(Present)
      BY <1>2, RowsOrdered, PresentRows
    <2> QED BY <2>1, Places DEF PlacesOf, Orders
  <1>6. \A a, b \in Present : a \in B[b] <=> Precedes(sort, a, b)
    BY <1>2 DEF Before
  <1>7. \A a, b \in Present : Ranked(a, b) => order[stored[a].k] <= order[stored[b].k]
    BY <1>1, <1>3 DEF Ranked
  <1>8. ASSUME NEW i \in DOMAIN rows, NEW j \in DOMAIN rows, i < j
        PROVE  IF desc THEN order[rows[j].k] <= order[rows[i].k]
               ELSE order[rows[i].k] <= order[rows[j].k]
    <2>1. PICK a \in Present, b \in Present :
            Cardinality(B[a]) = i - 1 /\ Cardinality(B[b]) = j - 1
      BY <1>4
    <2>2. i \in Int /\ j \in Int
      BY <1>3, <1>4
    <2>3. rows[i] = stored[a] /\ rows[j] = stored[b]
      <3>1. (i - 1) + 1 = i /\ (j - 1) + 1 = j
        BY <2>2
      <3> QED BY <1>4, <2>1, <3>1
    <2>4. a # b /\ ~(Cardinality(B[b]) < Cardinality(B[a]))
      BY <1>8, <2>1, <2>2
    <2>5. Precedes(sort, a, b)
      BY <1>5, <1>6, <2>4
    <2>6. CASE desc
      <3>1. Ranked(b, a)
        BY <1>1, <2>5, <2>6 DEF Precedes
      <3> QED BY <1>7, <2>3, <2>6, <3>1
    <2>7. CASE ~desc
      <3>1. Ranked(a, b)
        BY <1>1, <2>5, <2>7 DEF Precedes
      <3> QED BY <1>7, <2>3, <2>7, <3>1
    <2> QED BY <2>6, <2>7
  <1> QED BY <1>1, <1>8 DEF Sorted

\* The strings of a load stand for the column and the direction asked for; with
\* no column there is no order.
LEMMA SortLoaded ==
  ASSUME NEW column \in {"", "k"}, NEW desc \in BOOLEAN
  PROVE  Rows(parse_sort_order(column, IF desc THEN "false" ELSE "true"))
           = Rows([column |-> column, asc |-> ~desc])
  <1>1. CASE column = "k"
    <2>1. parse_sort_order(column, IF desc THEN "false" ELSE "true") = [column |-> column, asc |-> ~desc]
      BY <1>1 DEF parse_sort_order
    <2> QED BY <2>1
  <1>2. CASE column = ""
    <2>1. PICK sort : sort = [column |-> column, asc |-> ~desc]
      OBVIOUS
    <2>2. parse_sort_order(column, IF desc THEN "false" ELSE "true") = Unsorted
      BY <1>2 DEF parse_sort_order
    <2>3. \A a, b : Precedes(Unsorted, a, b) <=> Precedes(sort, a, b)
      BY <1>2, <2>1 DEF Precedes, Unsorted
    <2>4. PICK f, g : /\ f = [id \in Present |-> Cardinality({o \in Present : Precedes(Unsorted, o, id)})]
                      /\ g = [id \in Present |-> Cardinality({o \in Present : Precedes(sort, o, id)})]
      OBVIOUS
    <2>5. \A id : {o \in Present : Precedes(Unsorted, o, id)}
                   = {o \in Present : Precedes(sort, o, id)}
      BY <2>3
    <2>6. f = g
      BY <2>4, <2>5
    <2>7. Rows(Unsorted) = Placed(f) /\ Rows(sort) = Placed(g)
      BY <2>4 DEF Rows
    <2>8. Rows(Unsorted) = Rows(sort)
      BY <2>6, <2>7
    <2> QED BY <2>1, <2>2, <2>8
  <1> QED BY <1>1, <1>2

\* The offset of a page is a number of rows, and a sequence is its elements.
LEMMA Offsets == \A number \in 0 .. 1 : number * PageSize \in Nat
  BY Limits

\* A sequence is the function of its elements.
LEMMA SeqByIndex ==
  ASSUME NEW S, NEW s \in Seq(S)
  PROVE  s = [i \in DOMAIN s |-> s[i]]
  OBVIOUS

\* A page as the property states it.
Listed == Rows([column |-> last'.view.column, asc |-> ~last'.view.desc])
PageExact ==
  last'.op = "load" /\ steps' # steps =>
    /\ [i \in DOMAIN page' |-> page'[i].row]
         = SubSeq(Listed, last'.view.number * PageSize + 1,
                  Until(Listed, last'.view.number * PageSize, PageSize))
    /\ last'.view.column = "k" =>
         Sorted(Listed, IF table.engine = "sqlite" THEN ByValue ELSE ByText, last'.view.desc)

\* A load answers with such a page.
LEMMA LoadDoes ==
  ASSUME PageSize <= MaxRows, IInv, NEW number \in 0 .. 1, NEW sort \in Sorts,
         Load(number, sort.column, sort.desc)
  PROVE  PageExact
  <1>0. PICK column \in {"", "k"}, desc \in BOOLEAN : column = sort.column /\ desc = sort.desc
    BY RowEditAssumption DEF RowEditAssumption
  <1>1. PICK asked, rows, offset, got :
          /\ asked = parse_sort_order(column, IF desc THEN "false" ELSE "true")
          /\ rows = Rows(asked) /\ offset = number * PageSize
          /\ got = fetch_table_data(rows, offset, PageSize).rows
    OBVIOUS
  <1>2. /\ last' = [Nothing EXCEPT !.op = "load", !.view = Asked(number, column, desc)]
        /\ page' = [i \in DOMAIN got |->
                      [row |-> got[i], cells |-> [c \in {"k", "v"} |-> Shown(c, got[i][c])]]]
    BY <1>0, <1>1 DEF Load
  <1>3. last'.view.number = number /\ last'.view.column = column /\ last'.view.desc = desc
    <2>1. last'.view = Asked(number, column, desc)
      BY <1>2 DEF Nothing
    <2>2. PICK seen : seen = Asked(number, column, desc)
      OBVIOUS
    <2>3. seen.number = number /\ seen.column = column /\ seen.desc = desc
      BY <2>2 DEF Asked
    <2> QED BY <2>1, <2>2, <2>3
  <1>4. rows = Listed
    BY <1>1, <1>3, SortLoaded DEF Listed
  <1>5. rows \in Seq(TableRow)
    BY <1>1, RowsPlaced DEF IInv
  <1>6. offset \in Nat
    BY <1>1, Offsets
  <1>7. got = SubSeq(rows, offset + 1, Until(rows, offset, PageSize)) /\ got \in Seq(TableRow)
    BY <1>1, <1>5, <1>6, Fetched
  <1>8. [i \in DOMAIN page' |-> page'[i].row] = got
    <2>1. DOMAIN page' = DOMAIN got /\ \A i \in DOMAIN got : page'[i].row = got[i]
      BY <1>2
    <2>2. got = [i \in DOMAIN got |-> got[i]]
      BY <1>7, SeqByIndex
    <2> QED BY <2>1, <2>2
  <1>9. column = "k" => Sorted(rows, order_clause[table.engine], desc)
    BY <1>1, RowsSorted DEF parse_sort_order, IInv
  <1>10. order_clause[table.engine] = IF table.engine = "sqlite" THEN ByValue ELSE ByText
    BY EngineOrder DEF IInv
  <1> QED BY <1>1, <1>3, <1>4, <1>7, <1>8, <1>9, <1>10 DEF PageExact

\* No other step answers with a page.
LEMMA StepsLoadWhole ==
  ASSUME PageSize <= MaxRows, IInv, [Next]_vars
  PROVE  PageExact
  <1>1. ASSUME NEW number \in 0 .. 1, NEW sort \in Sorts,
               Load(number, sort.column, sort.desc)
        PROVE  PageExact
    BY <1>1, LoadDoes
  <1>2. Query => last'.op = "query"
    BY DEF Query, Nothing
  <1>3. Other => last'.op = "other"
    BY DEF Other, Nothing
  <1>4. ASSUME NEW i \in DOMAIN page, NEW changes \in Changes, Update(i, changes)
        PROVE  last'.op = "update"
    BY <1>4, UpdateDoes
  <1>5. ASSUME NEW i \in DOMAIN page, Delete(i)
        PROVE  last'.op = "delete"
    BY <1>5, DeleteDoes
  <1>6. ASSUME NEW i \in DOMAIN page, Duplicate(i)
        PROVE  last'.op = "duplicate"
    BY <1>6, DuplicateDoes
  <1>7. ASSUME NEW text \in Typed, Insert(text)
        PROVE  last'.op = "insert"
    BY <1>7, InsertDoes
  <1>8. UNCHANGED vars => steps' = steps
    BY DEF vars
  <1>9. last'.op # "load" \/ steps' = steps => PageExact
    BY DEF PageExact
  <1> QED BY <1>1, <1>2, <1>3, <1>4, <1>5, <1>6, <1>7, <1>8, <1>9 DEF Next

\* Where a page is no larger than what is kept of a result, a loaded page is
\* the whole page: the rows from its offset on, however many the table has, of
\* a list in the order of the column's texts for PostgreSQL and MySQL, of its
\* values for SQLite (fetch_table_data of the three drivers).
THEOREM PagesAreWhole ==
  ASSUME PageSize <= MaxRows
  PROVE  Spec => PageIsWhole
  <1>1. IInv /\ [Next]_vars => PageExact
    BY StepsLoadWhole
  <1>2. Spec => [][PageExact]_vars
    BY <1>1, AlwaysFits, PTL DEF Spec
  <1>3. [][PageExact]_vars => PageIsWhole
    BY PTL DEF PageExact, PageIsWhole, Listed, Until
  <1> QED BY <1>2, <1>3
=============================================================================
