------------------------- MODULE TodoRolloverProofs -------------------------
(***************************************************************************)
(* new-todo with any number of processes, days, runs, edits and tasks, and *)
(* todos of any length.                                                    *)
(***************************************************************************)
EXTENDS TodoRollover, FiniteSetTheorems, WellFoundedInduction, TLAPS

USE TodoAssumption

-----------------------------------------------------------------------------
(* Sets of numbers.                                                        *)

Less == {ss \in Nat \X Nat : ss[1] < ss[2]}

LEMMA Smallest ==
  ASSUME NEW T \in SUBSET Nat, T # {}
  PROVE  \E n \in T : \A m \in T : n <= m
<1>1. IsWellFoundedOn(Less, Nat)
  BY NatLessThanWellFounded DEF OpToRel, Less
<1>2. PICK n \in T : \A m \in T : ~(<<m, n>> \in Less)
  BY <1>1, WFMin
<1>3. ASSUME NEW m \in T PROVE n <= m
  <2>1. <<m, n>> \in Nat \X Nat /\ <<m, n>>[1] = m /\ <<m, n>>[2] = n
    OBVIOUS
  <2>2. ~(m < n)
    BY <1>2, <2>1 DEF Less
  <2> QED BY <2>2
<1> QED BY <1>3

LEMMA Largest ==
  ASSUME NEW n \in Nat, NEW T \in SUBSET (0..n), T # {}
  PROVE  \E i \in T : \A j \in T : j <= i
<1> DEFINE U == {n - i : i \in T}
<1>1. U \in SUBSET Nat /\ U # {}
  <2>1. \A i \in T : n - i \in Nat
    OBVIOUS
  <2> QED BY <2>1
<1>2. PICK u \in U : \A v \in U : u <= v
  BY <1>1, Smallest
<1>3. PICK i \in T : u = n - i
  OBVIOUS
<1>4. ASSUME NEW j \in T PROVE j <= i
  <2>1. n - j \in U
    OBVIOUS
  <2>2. n - i <= n - j
    BY <1>2, <1>3, <2>1
  <2> QED BY <2>2
<1> QED BY <1>4

\* A sequence that lists a set of numbers in increasing order.
Increasing(f) == \A i, j \in DOMAIN f : i < j => f[i] < f[j]

LEMMA IncreasingIsAll ==
  ASSUME NEW S \in SUBSET Nat, IsFiniteSet(S),
         NEW f \in [1..Cardinality(S) -> S], Increasing(f)
  PROVE  /\ \A i, j \in 1..Cardinality(S) : f[i] = f[j] => i = j
         /\ \A x \in S : \E i \in 1..Cardinality(S) : f[i] = x
<1> DEFINE n == Cardinality(S)
<1>1. n \in Nat
  BY FS_CardinalityType
<1> HIDE DEF n
<1>2. ASSUME NEW i \in 1..n, NEW j \in 1..n, f[i] = f[j]
      PROVE  i = j
  <2>1. f[i] \in Nat /\ f[j] \in Nat
    BY DEF n
  <2>2. (i < j => f[i] < f[j]) /\ (j < i => f[j] < f[i])
    BY DEF Increasing, n
  <2> QED BY <1>1, <1>2, <2>1, <2>2
<1>3. f \in Injection(1..n, S)
  BY <1>2 DEF Injection, IsInjective, n
<1>4. Cardinality(1..n) = n
  BY <1>1, FS_Interval
<1>5. f \in Surjection(1..n, S)
  BY <1>3, <1>4, FS_Injection DEF n
<1> QED BY <1>2, <1>5 DEF Surjection, n

LEMMA IncreasingExists ==
  ASSUME NEW S \in SUBSET Nat, IsFiniteSet(S)
  PROVE  \E f \in [1..Cardinality(S) -> S] : Increasing(f)
<1> DEFINE n == Cardinality(S)
           UpTo(i) == {j \in S : j <= i}
           rank == [i \in S |-> Cardinality(UpTo(i))]
<1>1. n \in Nat
  BY FS_CardinalityType
<1>2. ASSUME NEW i \in S
      PROVE  IsFiniteSet(UpTo(i)) /\ rank[i] \in 1..n
  <2>1. UpTo(i) \in SUBSET S /\ i \in UpTo(i)
    OBVIOUS
  <2>2. IsFiniteSet(UpTo(i)) /\ Cardinality(UpTo(i)) <= n
    BY <2>1, FS_Subset
  <2>3. Cardinality(UpTo(i)) \in Nat /\ Cardinality(UpTo(i)) # 0
    BY <2>1, <2>2, FS_CardinalityType, FS_EmptySet
  <2> QED BY <1>1, <2>2, <2>3
<1>3. ASSUME NEW i \in S, NEW j \in S, i < j
      PROVE  rank[i] < rank[j]
  <2>1. UpTo(i) \in SUBSET UpTo(j) /\ UpTo(i) # UpTo(j)
    <3>1. j \in UpTo(j) /\ j \notin UpTo(i)
      BY <1>3
    <3>2. \A k \in UpTo(i) : k \in UpTo(j)
      BY <1>3
    <3> QED BY <3>1, <3>2
  <2>2. Cardinality(UpTo(i)) <= Cardinality(UpTo(j)) /\ Cardinality(UpTo(i)) # Cardinality(UpTo(j))
    BY <1>2, <2>1, FS_Subset
  <2>3. rank[i] \in 1..n /\ rank[j] \in 1..n
    BY <1>2
  <2> QED BY <1>1, <2>2, <2>3
<1>4. rank \in Injection(S, 1..n)
  <2>1. rank \in [S -> 1..n]
    BY <1>2
  <2> HIDE DEF rank
  <2>2. ASSUME NEW i \in S, NEW j \in S, rank[i] = rank[j]
        PROVE  i = j
    <3>1. rank[i] \in Nat /\ rank[j] \in Nat
      BY <1>1, <2>1
    <3>2. ~(i < j) /\ ~(j < i)
      BY <1>3, <2>2, <3>1
    <3> QED BY <3>2
  <2> QED BY <2>1, <2>2 DEF Injection, IsInjective
<1>5. IsFiniteSet(1..n) /\ Cardinality(1..n) = n
  BY <1>1, FS_Interval
<1>6. rank \in Surjection(S, 1..n)
  BY <1>4, <1>5, FS_Injection
<1> HIDE DEF rank, n
<1> DEFINE f == [k \in 1..n |-> CHOOSE i \in S : rank[i] = k]
<1>7. \A k \in 1..n : f[k] \in S /\ rank[f[k]] = k
  BY <1>6 DEF Surjection
<1>8. f \in [1..n -> S]
  BY <1>7
<1> HIDE DEF f
<1>9. ASSUME NEW k \in 1..n, NEW l \in 1..n, k < l
      PROVE  f[k] < f[l]
  <2>1. f[k] \in S /\ f[l] \in S /\ rank[f[k]] = k /\ rank[f[l]] = l
    BY <1>7
  <2>2. f[k] # f[l]
    BY <1>1, <1>9, <2>1
  <2>3. ~(f[l] < f[k])
    <3>1. f[l] < f[k] => rank[f[l]] < rank[f[k]]
      BY <1>3, <2>1
    <3>2. k \in Nat /\ l \in Nat
      BY <1>1
    <3> QED BY <1>9, <2>1, <3>1, <3>2
  <2>4. f[k] \in Nat /\ f[l] \in Nat
    BY <2>1
  <2> QED BY <2>2, <2>3, <2>4
<1>10. Increasing(f)
  BY <1>8, <1>9 DEF Increasing
<1> QED BY <1>8, <1>10 DEF n

-----------------------------------------------------------------------------
(* RolloverTasks and FormatTodoContent.                                    *)

LEMMA BlankType ==
  ASSUME NEW t \in Tasks
  PROVE  Blank(t) \in Line /\ Blank(t).text = t /\ IsOpen(Blank(t))
BY DEF Blank, Line, IsOpen

LEMMA LineType ==
  ASSUME NEW l \in Line
  PROVE  l.text \in Tasks /\ [l EXCEPT !.moved = TRUE] \in Line /\ [l EXCEPT !.done = TRUE] \in Line
BY DEF Line

LEMMA OpenTextsMember ==
  ASSUME NEW body, NEW t
  PROVE  t \in OpenTexts(body) <=> \E i \in DOMAIN body : IsOpen(body[i]) /\ body[i].text = t
BY DEF OpenTexts, ToSet

LEMMA OpenTextsType ==
  ASSUME NEW body \in Seq(Line)
  PROVE  OpenTexts(body) \subseteq Tasks
<1> SUFFICES ASSUME NEW t \in OpenTexts(body) PROVE t \in Tasks
  OBVIOUS
<1>1. PICK i \in DOMAIN body : body[i].text = t
  BY OpenTextsMember
<1>2. body[i] \in Line
  OBVIOUS
<1> QED BY <1>1, <1>2, LineType

LEMMA OpenTextsNone == OpenTexts(<<>>) = {}
BY OpenTextsMember

LEMMA UpdatedType ==
  ASSUME NEW body \in Seq(Line)
  PROVE  /\ UpdatedLines(body) \in Seq(Line)
         /\ DOMAIN UpdatedLines(body) = DOMAIN body
         /\ \A i \in DOMAIN body : UpdatedLines(body)[i].text = body[i].text
         /\ OpenTexts(UpdatedLines(body)) = {}
<1>1. DOMAIN body = 1..Len(body) /\ Len(body) \in Nat /\ \A i \in DOMAIN body : body[i] \in Line
  OBVIOUS
<1> DEFINE u == [i \in DOMAIN body |->
                   IF IsOpen(body[i]) THEN [body[i] EXCEPT !.moved = TRUE] ELSE body[i]]
<1>2. ASSUME NEW i \in DOMAIN body
      PROVE  u[i] \in Line /\ u[i].text = body[i].text /\ ~IsOpen(u[i])
  BY <1>1, LineType DEF Line, IsOpen
<1>3. u \in Seq(Line) /\ DOMAIN u = DOMAIN body
  BY <1>1, <1>2
<1> HIDE DEF u
<1>4. OpenTexts(u) = {}
  BY <1>2, <1>3, OpenTextsMember
<1> QED BY <1>2, <1>3, <1>4 DEF UpdatedLines, u

\* The texts that are carried over.
CarriedTexts(body) == {body[i].text : i \in {j \in DOMAIN body : Carry(body[j])}}

LEMMA CarriedTextsOf ==
  ASSUME NEW body \in Seq(Line)
  PROVE  /\ CarriedTexts(body) =
              OpenTexts(body) \cup ({l.text : l \in ToSet(body)} \cap Daily)
         /\ CarriedTexts(body) \subseteq Tasks
<1>1. ASSUME NEW t
      PROVE  t \in CarriedTexts(body) <=>
               \E i \in DOMAIN body : body[i].text = t /\ (IsOpen(body[i]) \/ t \in Daily)
  BY DEF CarriedTexts, Carry
<1>2. ASSUME NEW t
      PROVE  t \in {l.text : l \in ToSet(body)} <=> \E i \in DOMAIN body : body[i].text = t
  BY DEF ToSet
<1>3. CarriedTexts(body) \subseteq Tasks
  <2> SUFFICES ASSUME NEW t \in CarriedTexts(body) PROVE t \in Tasks
    OBVIOUS
  <2>1. PICK i \in DOMAIN body : body[i].text = t
    BY <1>1
  <2>2. body[i] \in Line
    OBVIOUS
  <2> QED BY <2>1, <2>2, LineType
<1>4. ASSUME NEW t
      PROVE  t \in CarriedTexts(body) <=>
               t \in OpenTexts(body) \/ (t \in {l.text : l \in ToSet(body)} /\ t \in Daily)
  <2>1. t \in OpenTexts(body) <=> \E i \in DOMAIN body : IsOpen(body[i]) /\ body[i].text = t
    BY OpenTextsMember
  <2> QED BY <1>1, <1>2, <2>1
<1> QED BY <1>3, <1>4

LEMMA CarriedIsFirst ==
  ASSUME NEW body \in Seq(Line)
  PROVE  /\ Carried(body) \in SUBSET Nat /\ IsFiniteSet(Carried(body))
         /\ Carried(body) \subseteq DOMAIN body
         /\ \A i, j \in Carried(body) : body[i].text = body[j].text => i = j
         /\ CarriedTexts(body) = {body[i].text : i \in Carried(body)}
<1>1. DOMAIN body = 1..Len(body) /\ Len(body) \in Nat
  OBVIOUS
<1>2. Carried(body) \subseteq DOMAIN body
  BY DEF Carried
<1>3. Carried(body) \in SUBSET Nat /\ IsFiniteSet(Carried(body))
  <2>1. IsFiniteSet(1..Len(body)) /\ Carried(body) \in SUBSET (1..Len(body))
    BY <1>1, <1>2, FS_Interval
  <2> QED BY <2>1, FS_Subset
<1>4. ASSUME NEW i \in Carried(body), NEW j \in Carried(body), body[i].text = body[j].text
      PROVE  i = j
  <2>1. /\ i \in Nat /\ j \in Nat /\ Carry(body[i]) /\ Carry(body[j])
        /\ \A k \in 1..(i - 1) : Carry(body[k]) => body[k].text # body[i].text
        /\ \A k \in 1..(j - 1) : Carry(body[k]) => body[k].text # body[j].text
    BY <1>3 DEF Carried
  <2>2. i \in 1..Len(body) /\ j \in 1..Len(body)
    BY <1>1, <1>2
  <2>3. ~(i < j) /\ ~(j < i)
    BY <1>4, <2>1, <2>2
  <2> QED BY <2>1, <2>3
<1>5. ASSUME NEW t \in CarriedTexts(body)
      PROVE  \E i \in Carried(body) : body[i].text = t
  <2> DEFINE T == {i \in DOMAIN body : Carry(body[i]) /\ body[i].text = t}
  <2>1. T \in SUBSET Nat /\ T # {}
    BY <1>1 DEF CarriedTexts
  <2>2. PICK i \in T : \A j \in T : i <= j
    BY <2>1, Smallest
  <2>3. ASSUME NEW j \in 1..(i - 1), Carry(body[j]), body[j].text = t
        PROVE  FALSE
    <3>1. j \in T /\ j < i
      BY <1>1, <2>3
    <3> QED BY <2>1, <2>2, <3>1
  <2> QED BY <2>3 DEF Carried
<1>6. ASSUME NEW i \in Carried(body)
      PROVE  body[i].text \in CarriedTexts(body)
  BY DEF Carried, CarriedTexts
<1> QED BY <1>2, <1>3, <1>4, <1>5, <1>6

\* The new todo has each of them once.
LEMMA NewLinesType ==
  ASSUME NEW body \in Seq(Line)
  PROVE  /\ NewLines(body) \in Seq(Line)
         /\ ToSet(NewLines(body)) = {Blank(t) : t \in CarriedTexts(body)}
         /\ IsInjective(NewLines(body))
         /\ OpenTexts(NewLines(body)) = CarriedTexts(body)
<1> DEFINE S == Carried(body)
           n == Cardinality(S)
           at == CHOOSE f \in [1..n -> S] : \A i, j \in DOMAIN f : i < j => f[i] < f[j]
           new == [k \in DOMAIN at |-> Blank(body[at[k]].text)]
<1>1. S \in SUBSET Nat /\ IsFiniteSet(S) /\ n \in Nat
  BY CarriedIsFirst, FS_CardinalityType
<1>2. at \in [1..n -> S] /\ Increasing(at)
  <2>1. \E f \in [1..n -> S] : \A i, j \in DOMAIN f : i < j => f[i] < f[j]
    BY <1>1, IncreasingExists DEF Increasing
  <2> QED BY <2>1 DEF Increasing
<1>3. NewLines(body) = new
  BY DEF NewLines
<1> HIDE DEF at
<1>4. /\ \A i, j \in 1..n : at[i] = at[j] => i = j
      /\ \A x \in S : \E i \in 1..n : at[i] = x
  BY <1>1, <1>2, IncreasingIsAll
<1>5. DOMAIN at = 1..n /\ \A k \in 1..n : at[k] \in S
  BY <1>2
<1>6. \A k \in 1..n : at[k] \in DOMAIN body /\ body[at[k]].text \in CarriedTexts(body)
  BY <1>5, CarriedIsFirst
<1> HIDE DEF S, n
<1>7. ASSUME NEW k \in 1..n
      PROVE  /\ new[k] = Blank(body[at[k]].text) /\ new[k] \in Line
             /\ new[k].text = body[at[k]].text /\ IsOpen(new[k])
  BY <1>5, <1>6, BlankType, CarriedTextsOf
<1>8. new \in Seq(Line) /\ DOMAIN new = 1..n
  BY <1>1, <1>5, <1>7
<1> HIDE DEF new
<1>9. \A t \in CarriedTexts(body) : \E k \in 1..n : body[at[k]].text = t
  BY <1>4, CarriedIsFirst DEF S
<1>10. ToSet(new) = {Blank(t) : t \in CarriedTexts(body)}
  BY <1>6, <1>7, <1>8, <1>9 DEF ToSet
<1>11. IsInjective(new)
  <2> SUFFICES ASSUME NEW k \in 1..n, NEW l \in 1..n, new[k] = new[l]
               PROVE  k = l
    BY <1>8 DEF IsInjective
  <2>1. body[at[k]].text = body[at[l]].text
    BY <1>7
  <2>2. at[k] = at[l]
    BY <1>5, <2>1, CarriedIsFirst DEF S
  <2> QED BY <1>4, <2>2
<1>12. OpenTexts(new) = CarriedTexts(body)
  <2> SUFFICES ASSUME NEW t PROVE t \in OpenTexts(new) <=> t \in CarriedTexts(body)
    OBVIOUS
  <2>1. t \in OpenTexts(new) <=> \E k \in 1..n : IsOpen(new[k]) /\ new[k].text = t
    BY <1>8, OpenTextsMember
  <2> QED BY <1>6, <1>7, <1>9, <2>1
<1> QED BY <1>3, <1>8, <1>10, <1>11, <1>12

LEMMA NewLinesNone == NewLines(<<>>) = <<>>
<1>1. NewLines(<<>>) \in Seq(Line) /\ OpenTexts(NewLines(<<>>)) = CarriedTexts(<<>>)
      /\ ToSet(NewLines(<<>>)) = {Blank(t) : t \in CarriedTexts(<<>>)}
  <2>1. <<>> \in Seq(Line)
    OBVIOUS
  <2> QED BY <2>1, NewLinesType
<1>2. CarriedTexts(<<>>) = {}
  BY DEF CarriedTexts
<1>3. ToSet(NewLines(<<>>)) = {}
  BY <1>1, <1>2
<1>4. DOMAIN NewLines(<<>>) = {}
  BY <1>3 DEF ToSet
<1> QED BY <1>1, <1>4

-----------------------------------------------------------------------------
(* The list of todos.                                                      *)

Todo == [day : 1..LastDay, lines : Seq(Line)]

\* The newest todo of some is one of them.
LEMMA NewestType ==
  ASSUME todos \in Seq(Todo), NEW S \in SUBSET Ids, S # {}
  PROVE  Newest(S) \in S
<1>1. Ids = 1..Len(todos) /\ Len(todos) \in Nat /\ \A i \in Ids : todos[i].day \in 1..LastDay
  <2>1. DOMAIN todos = 1..Len(todos) /\ Len(todos) \in Nat /\ \A i \in 1..Len(todos) : todos[i] \in Todo
    OBVIOUS
  <2> QED BY <2>1 DEF Ids, Todo
<1> DEFINE D == {todos[i].day : i \in S}
<1>2. D \in SUBSET (0..LastDay) /\ D # {} /\ LastDay \in Nat
  <2>1. \A i \in S : todos[i].day \in 0..LastDay
    BY <1>1
  <2> QED BY <2>1
<1>3. PICK d \in D : \A e \in D : e <= d
  BY <1>2, Largest
<1> DEFINE T == {i \in S : todos[i].day = d}
<1>4. T \in SUBSET (0..Len(todos)) /\ T # {}
  <2>1. S \in SUBSET (0..Len(todos))
    BY <1>1
  <2> QED BY <2>1
<1>5. PICK i \in T : \A j \in T : j <= i
  BY <1>1, <1>4, Largest
<1>6. ASSUME NEW j \in S \ {i}
      PROVE  \/ todos[j].day < todos[i].day
             \/ todos[j].day = todos[i].day /\ j < i
  <2>1. todos[j].day \in D /\ todos[j].day <= d /\ todos[i].day = d
    BY <1>3, <1>5
  <2>2. j \in Nat /\ i \in Nat /\ todos[j].day \in Nat /\ d \in Nat
    BY <1>1, <2>1
  <2>3. CASE todos[j].day = d
    BY <1>5, <2>1, <2>2, <2>3
  <2>4. CASE todos[j].day # d
    BY <2>1, <2>2, <2>4
  <2> QED BY <2>3, <2>4
<1>7. \E k \in S : \A j \in S \ {k} :
        \/ todos[j].day < todos[k].day
        \/ todos[j].day = todos[k].day /\ j < k
  BY <1>5, <1>6
<1> QED BY <1>7 DEF Newest

DaysGrow == \A i, j \in Ids : i < j => todos[i].day < todos[j].day

\* Where there is one todo a day, the newest is the last.
LEMMA NewestIsLast ==
  ASSUME todos \in Seq(Todo), DaysGrow, Len(todos) > 0
  PROVE  Newest(Ids) = Len(todos) /\ Len(todos) \in Ids
<1>1. Ids = 1..Len(todos) /\ Len(todos) \in Nat /\ \A i \in Ids : todos[i].day \in Nat
  <2>1. DOMAIN todos = 1..Len(todos) /\ Len(todos) \in Nat /\ \A i \in 1..Len(todos) : todos[i] \in Todo
    OBVIOUS
  <2> QED BY <2>1 DEF Ids, Todo
<1>2. ASSUME NEW i \in Ids, \A j \in Ids \ {i} : \/ todos[j].day < todos[i].day
                                                 \/ todos[j].day = todos[i].day /\ j < i
      PROVE  i = Len(todos)
  <2>1. SUFFICES ASSUME i < Len(todos) PROVE FALSE
    BY <1>1
  <2>2. Len(todos) \in Ids \ {i} /\ todos[i].day < todos[Len(todos)].day
    BY <1>1, <2>1 DEF DaysGrow
  <2>3. todos[Len(todos)].day \in Nat /\ todos[i].day \in Nat
    BY <1>1, <2>2
  <2> QED BY <1>2, <2>2, <2>3
<1>3. \A j \in Ids \ {Len(todos)} : todos[j].day < todos[Len(todos)].day
  BY <1>1 DEF DaysGrow
<1>4. \E i \in Ids : \A j \in Ids \ {i} : \/ todos[j].day < todos[i].day
                                          \/ todos[j].day = todos[i].day /\ j < i
  BY <1>1, <1>3
<1> QED BY <1>1, <1>2, <1>4 DEF Newest

LEMMA PutLines ==
  ASSUME todos \in Seq(Todo), NEW i, NEW l \in Seq(Line),
         todos' = [todos EXCEPT ![i].lines = l]
  PROVE  /\ todos' \in Seq(Todo) /\ Len(todos') = Len(todos) /\ Ids' = Ids
         /\ \A j \in Ids : /\ todos'[j].day = todos[j].day
                           /\ todos'[j].lines = IF j = i THEN l ELSE todos[j].lines
<1>1. Ids = 1..Len(todos) /\ Len(todos) \in Nat /\ \A j \in Ids : todos[j] \in Todo
  BY DEF Ids
<1>2. DOMAIN todos' = Ids
  BY DEF Ids
<1>3. ASSUME NEW j \in Ids
      PROVE  /\ todos'[j] \in Todo
             /\ todos'[j].day = todos[j].day
             /\ todos'[j].lines = IF j = i THEN l ELSE todos[j].lines
  <2>1. todos'[j] = IF j = i THEN [todos[j] EXCEPT !.lines = l] ELSE todos[j]
    BY DEF Ids
  <2>2. todos[j] \in Todo
    BY <1>1
  <2>3. [todos[j] EXCEPT !.lines = l] \in Todo
        /\ [todos[j] EXCEPT !.lines = l].day = todos[j].day
        /\ [todos[j] EXCEPT !.lines = l].lines = l
    BY <2>2 DEF Todo
  <2>4. CASE j = i
    <3>1. todos'[j] = [todos[j] EXCEPT !.lines = l]
      BY <2>1, <2>4
    <3> QED BY <2>3, <2>4, <3>1
  <2>5. CASE j # i
    BY <2>1, <2>2, <2>5
  <2> QED BY <2>4, <2>5
<1>4. todos' \in Seq(Todo) /\ Len(todos') = Len(todos)
  <2>1. todos' = [j \in 1..Len(todos) |-> todos'[j]]
    BY <1>1 DEF Ids
  <2>2. \A j \in 1..Len(todos) : todos'[j] \in Todo
    BY <1>1, <1>3
  <2> DEFINE t == todos'
  <2> HIDE DEF t
  <2>3. t = [j \in 1..Len(todos) |-> t[j]] /\ \A j \in 1..Len(todos) : t[j] \in Todo
    BY <2>1, <2>2 DEF t
  <2>4. t \in Seq(Todo) /\ Len(t) = Len(todos)
    BY <1>1, <2>3
  <2> QED BY <2>4 DEF t
<1> QED BY <1>2, <1>3, <1>4 DEF Ids

LEMMA PutTodo ==
  ASSUME todos \in Seq(Todo), NEW d \in 1..LastDay, NEW l \in Seq(Line),
         todos' = Append(todos, [day |-> d, lines |-> l])
  PROVE  /\ todos' \in Seq(Todo) /\ Len(todos') = Len(todos) + 1 /\ Len(todos) \in Nat
         /\ Ids = 1..Len(todos) /\ Ids' = 1..(Len(todos) + 1)
         /\ \A j \in Ids : todos'[j] = todos[j]
         /\ todos'[Len(todos) + 1] = [day |-> d, lines |-> l]
<1>1. [day |-> d, lines |-> l] \in Todo
  BY DEF Todo
<1> QED BY <1>1 DEF Ids

-----------------------------------------------------------------------------
(* Types.                                                                  *)

\* A run that is under way was started on some day.
TypeInv == TypeOK /\ \A c \in Procs : pc[c] # "idle" => today[c] # 0

LEMMA Types ==
  ASSUME TypeOK
  PROVE  /\ todos \in Seq(Todo) /\ Ids = 1..Len(todos) /\ Len(todos) \in Nat
         /\ \A i \in Ids : todos[i].day \in 1..LastDay /\ todos[i].lines \in Seq(Line)
         /\ \A c \in Procs : prev[c].id \in Nat /\ prev[c].lines \in Seq(Line)
         /\ day \in 1..LastDay /\ day \in Nat
<1>1. todos \in Seq(Todo)
  BY DEF TypeOK, Todo
<1>2. Ids = 1..Len(todos) /\ Len(todos) \in Nat /\ \A i \in 1..Len(todos) : todos[i] \in Todo
  BY <1>1 DEF Ids
<1>3. \A i \in Ids : todos[i].day \in 1..LastDay /\ todos[i].lines \in Seq(Line)
  BY <1>2 DEF Todo
<1>4. \A c \in Procs : prev[c].id \in Nat /\ prev[c].lines \in Seq(Line)
  BY DEF TypeOK
<1>5. day \in 1..LastDay /\ day \in Nat
  BY DEF TypeOK
<1> QED BY <1>1, <1>2, <1>3, <1>4, <1>5

\* What the user does to the newest todo.
LEMMA UserSteps ==
  ASSUME TypeOK, NEW t \in Tasks, AddTask(t) \/ FinishTask(t)
  PROVE  /\ Newest(Ids) \in Ids
         /\ \E l \in Seq(Line) :
              /\ Edit(l)
              /\ LET was == OpenTexts(todos[Newest(Ids)].lines)
                 IN  \/ open' = open \cup {t} /\ OpenTexts(l) = was \cup {t}
                     \/ open' = open \ {t} /\ OpenTexts(l) = was \ {t}
<1> DEFINE old == todos[Newest(Ids)].lines
           added == Append(old, Blank(t))
           finished == [i \in DOMAIN old |->
                          IF IsOpen(old[i]) /\ old[i].text = t THEN [old[i] EXCEPT !.done = TRUE]
                                                               ELSE old[i]]
<1>1. Newest(Ids) \in Ids
  BY NewestType, Types DEF AddTask, FinishTask
<1>2. old \in Seq(Line)
  BY <1>1, Types
<1>3. /\ AddTask(t) => Edit(added) /\ open' = open \cup {t}
      /\ FinishTask(t) => Edit(finished) /\ open' = open \ {t}
  BY DEF AddTask, FinishTask
<1> HIDE DEF old
<1>4. DOMAIN old = 1..Len(old) /\ Len(old) \in Nat /\ \A i \in 1..Len(old) : old[i] \in Line
  BY <1>2
<1>5. added \in Seq(Line) /\ OpenTexts(added) = OpenTexts(old) \cup {t}
  <2>1. /\ added \in Seq(Line) /\ DOMAIN added = 1..(Len(old) + 1)
        /\ \A i \in 1..Len(old) : added[i] = old[i]
        /\ added[Len(old) + 1] = Blank(t)
    BY <1>2, BlankType
  <2> HIDE DEF added
  <2>2. ASSUME NEW u
        PROVE  u \in OpenTexts(added) <=> u \in OpenTexts(old) \/ u = t
    <3>1. u \in OpenTexts(old) <=> \E i \in 1..Len(old) : IsOpen(old[i]) /\ old[i].text = u
      BY <1>4, OpenTextsMember
    <3>2. u \in OpenTexts(added) <=> \E i \in 1..(Len(old) + 1) : IsOpen(added[i]) /\ added[i].text = u
      BY <2>1, OpenTextsMember
    <3>3. IsOpen(added[Len(old) + 1]) /\ added[Len(old) + 1].text = t
      BY <2>1, BlankType
    <3>4. \A i \in 1..(Len(old) + 1) : i \in 1..Len(old) \/ i = Len(old) + 1
      BY <1>4
    <3> QED BY <1>4, <2>1, <3>1, <3>2, <3>3, <3>4
  <2> QED BY <2>1, <2>2
<1>6. finished \in Seq(Line) /\ OpenTexts(finished) = OpenTexts(old) \ {t}
  <2>1. ASSUME NEW i \in 1..Len(old)
        PROVE  /\ finished[i] \in Line
               /\ finished[i].text = old[i].text
               /\ IsOpen(finished[i]) <=> IsOpen(old[i]) /\ old[i].text # t
    BY <1>4, LineType DEF Line, IsOpen
  <2>2. finished \in Seq(Line) /\ DOMAIN finished = 1..Len(old)
    BY <1>4, <2>1
  <2> HIDE DEF finished
  <2>3. ASSUME NEW u
        PROVE  u \in OpenTexts(finished) <=> u \in OpenTexts(old) /\ u # t
    <3>1. u \in OpenTexts(old) <=> \E i \in 1..Len(old) : IsOpen(old[i]) /\ old[i].text = u
      BY <1>4, OpenTextsMember
    <3>2. u \in OpenTexts(finished) <=> \E i \in 1..Len(old) : IsOpen(finished[i]) /\ finished[i].text = u
      BY <2>2, OpenTextsMember
    <3> QED BY <2>1, <3>1, <3>2
  <2> QED BY <2>2, <2>3
<1> HIDE DEF added, finished
<1> QED BY <1>1, <1>3, <1>5, <1>6 DEF old

LEMMA InitTypes == Init => TypeInv
<1> SUFFICES ASSUME Init PROVE TypeInv
  OBVIOUS
<1>1. PICK b \in Bodies : /\ todos \in {<<>>, <<[day |-> 1, lines |-> b]>>}
                          /\ open = IF todos = <<>> THEN {} ELSE OpenTexts(b)
  BY DEF Init
<1>2. b \in Seq(Line)
  OBVIOUS
<1>3. [day |-> 1, lines |-> b] \in Todo
  BY <1>2 DEF Todo
<1>4. todos \in Seq(Todo) /\ open \subseteq Tasks
  <2>1. <<>> \in Seq(Todo) /\ <<[day |-> 1, lines |-> b]>> \in Seq(Todo)
    BY <1>3
  <2>2. OpenTexts(b) \subseteq Tasks
    BY <1>2, OpenTextsType
  <2> QED BY <1>1, <2>1, <2>2
<1>5. NoPrev \in [id : Nat, lines : Seq(Line)]
  BY DEF NoPrev
<1>6. /\ day \in 2..LastDay /\ runs \in 0..Runs /\ edits \in 0..Edits
      /\ pc \in [Procs -> {"idle", "findprev", "putprev", "putnew"}]
      /\ today \in [Procs -> 0..LastDay] /\ cut \in BOOLEAN /\ overlap \in BOOLEAN
      /\ \A c \in Procs : pc[c] = "idle"
  <2>1. day = 2 /\ runs = Runs /\ edits = Edits /\ pc = [c \in Procs |-> "idle"]
        /\ today = [c \in Procs |-> 0] /\ cut = FALSE /\ overlap = FALSE
    BY DEF Init
  <2>2. LastDay \in Nat /\ LastDay >= 2 /\ Runs \in Nat /\ Edits \in Nat
    OBVIOUS
  <2>3. day \in 2..LastDay /\ runs \in 0..Runs /\ edits \in 0..Edits
    BY <2>1, <2>2
  <2>4. today \in [Procs -> 0..LastDay]
    BY <2>1, <2>2
  <2>5. cut \in BOOLEAN /\ overlap \in BOOLEAN
    BY <2>1
  <2>6. /\ pc \in [Procs -> {"idle", "findprev", "putprev", "putnew"}]
        /\ \A c \in Procs : pc[c] = "idle"
    BY <2>1
  <2> QED BY <2>3, <2>4, <2>5, <2>6
<1>7. prev \in [Procs -> [id : Nat, lines : Seq(Line)]]
  BY <1>5 DEF Init
<1> QED BY <1>4, <1>6, <1>7 DEF TypeInv, TypeOK, Todo

LEMMA TypesKept == TypeInv /\ [Next]_vars => TypeInv'
<1> SUFFICES ASSUME TypeInv, [Next]_vars PROVE TypeInv'
  OBVIOUS
<1>1. TypeOK
  BY DEF TypeInv
<1>2. CASE UNCHANGED vars
  BY <1>2 DEF vars, TypeInv, TypeOK
<1>3. ASSUME NEW c \in Procs, FindToday(c) PROVE TypeInv'
  <2>1. runs' \in 0..Runs /\ today' \in [Procs -> 0..LastDay]
    BY <1>1, <1>3, Types DEF FindToday, TypeOK
  <2>2. pc' \in [Procs -> {"idle", "findprev", "putprev", "putnew"}] /\ overlap' \in BOOLEAN
    BY <1>1, <1>3 DEF FindToday, TypeOK
  <2>3. \A d \in Procs : pc'[d] # "idle" => today'[d] # 0
    BY <1>1, <1>3, Types DEF FindToday, TypeOK, TypeInv
  <2> QED BY <1>1, <1>3, <2>1, <2>2, <2>3 DEF FindToday, TypeOK, TypeInv
<1>4. ASSUME NEW c \in Procs, FindPrev(c) PROVE TypeInv'
  <2> DEFINE S == BeforeDate(today[c])
  <2>1. S # {} => /\ Newest(S) \in Nat /\ todos[Newest(S)].lines \in Seq(Line)
    <3>1. S \in SUBSET Ids
      BY DEF BeforeDate
    <3>2. S # {} => Newest(S) \in Ids
      BY <1>1, <3>1, NewestType, Types
    <3> QED BY <1>1, <3>2, Types
  <2>2. NoPrev \in [id : Nat, lines : Seq(Line)]
    BY DEF NoPrev
  <2> HIDE DEF S
  <2>3. prev' \in [Procs -> [id : Nat, lines : Seq(Line)]]
    <3>1. S = {} => prev' = [prev EXCEPT ![c] = NoPrev]
      BY <1>4 DEF FindPrev, S
    <3>2. S # {} => prev' = [prev EXCEPT ![c] = [id |-> Newest(S), lines |-> todos[Newest(S)].lines]]
      BY <1>4 DEF FindPrev, S
    <3>3. prev \in [Procs -> [id : Nat, lines : Seq(Line)]]
      BY <1>1 DEF TypeOK
    <3>4. CASE S = {}
      BY <2>2, <3>1, <3>3, <3>4
    <3>5. CASE S # {}
      <4>1. [id |-> Newest(S), lines |-> todos[Newest(S)].lines] \in [id : Nat, lines : Seq(Line)]
        BY <2>1, <3>5
      <4> QED BY <3>2, <3>3, <3>5, <4>1
    <3> QED BY <3>4, <3>5
  <2>4. pc' \in [Procs -> {"idle", "findprev", "putprev", "putnew"}]
        /\ \A d \in Procs : pc'[d] # "idle" => today[d] # 0
    BY <1>1, <1>4 DEF FindPrev, TypeOK, TypeInv
  <2> QED BY <1>1, <1>4, <2>3, <2>4 DEF FindPrev, TypeOK, TypeInv
<1>5. ASSUME NEW c \in Procs, PutPrev(c) PROVE TypeInv'
  <2>1. UpdatedLines(prev[c].lines) \in Seq(Line)
    BY <1>1, Types, UpdatedType
  <2>2. todos' \in Seq(Todo)
    BY <1>1, <1>5, <2>1, Types, PutLines DEF PutPrev
  <2>3. pc' \in [Procs -> {"idle", "findprev", "putprev", "putnew"}]
        /\ \A d \in Procs : pc'[d] # "idle" => today[d] # 0
    BY <1>1, <1>5 DEF PutPrev, TypeOK, TypeInv
  <2> QED BY <1>1, <1>5, <2>2, <2>3 DEF PutPrev, TypeOK, TypeInv, Todo
<1>6. ASSUME NEW c \in Procs, PutNew(c) PROVE TypeInv'
  <2> DEFINE new == NewLines(prev[c].lines)
  <2>1. new \in Seq(Line) /\ OpenTexts(new) \subseteq Tasks
    BY <1>1, Types, NewLinesType, OpenTextsType
  <2>2. today[c] \in 1..LastDay
    BY <1>1, <1>6 DEF PutNew, TypeInv, TypeOK
  <2>3. todos' = Append(todos, [day |-> today[c], lines |-> new]) /\ open' = open \cup OpenTexts(new)
    BY <1>6 DEF PutNew
  <2> HIDE DEF new
  <2>4. todos' \in Seq(Todo) /\ open' \subseteq Tasks
    BY <1>1, <2>1, <2>2, <2>3, Types, PutTodo DEF TypeOK
  <2>5. pc' \in [Procs -> {"idle", "findprev", "putprev", "putnew"}]
        /\ \A d \in Procs : pc'[d] # "idle" => today[d] # 0
    BY <1>1, <1>6 DEF PutNew, TypeOK, TypeInv
  <2> QED BY <1>1, <1>6, <2>4, <2>5 DEF PutNew, TypeOK, TypeInv, Todo
<1>7. ASSUME NEW c \in Procs, Stop(c) PROVE TypeInv'
  <2>1. cut' \in BOOLEAN
    BY <1>7 DEF Stop
  <2> QED BY <1>1, <1>7, <2>1 DEF Stop, TypeOK, TypeInv
<1>8. ASSUME NEW t \in Tasks, AddTask(t) \/ FinishTask(t) PROVE TypeInv'
  <2>1. PICK l \in Seq(Line) : Edit(l) /\ (open' = open \cup {t} \/ open' = open \ {t})
    BY <1>1, <1>8, UserSteps
  <2>2. todos' \in Seq(Todo) /\ open' \subseteq Tasks
    BY <1>1, <2>1, Types, PutLines DEF Edit, TypeOK
  <2>3. edits' \in 0..Edits
    BY <1>1, <2>1 DEF Edit, TypeOK
  <2> QED BY <1>1, <2>1, <2>2, <2>3 DEF Edit, TypeOK, TypeInv, Todo
<1>9. CASE NextDay
  BY <1>1, <1>9 DEF NextDay, TypeOK, TypeInv
<1> QED BY <1>2, <1>3, <1>4, <1>5, <1>6, <1>7, <1>8, <1>9 DEF Next

\* Whatever overlaps or fails, every day and line of every todo is one.
THEOREM TypeCorrect == Spec => []TypeInv
BY InitTypes, TypesKept, PTL DEF Spec

-----------------------------------------------------------------------------
(* Runs that do not overlap, where the local time is not behind UTC: what  *)
(* one finds and reads still holds when it writes.                         *)

CurrentLines == IF todos = <<>> THEN <<>> ELSE todos[Len(todos)].lines

OneAtATime == \A c, d \in Procs : pc[c] # "idle" /\ pc[d] # "idle" => c = d

\* A run goes on only where there was no todo of its day.
DaysInOrder ==
  /\ DaysGrow
  /\ \A i \in Ids : todos[i].day <= day
  /\ \A c \in Procs : pc[c] # "idle" =>
       today[c] <= day /\ \A i \in Ids : todos[i].day < today[c]

\* Every todo but the last has been rolled over.
Settled == \A i \in Ids : i < Len(todos) => OpenTexts(todos[i].lines) = {}

\* The previous todo of a run is the last one, first as read, then as updated.
Handover ==
  \A c \in Procs :
    /\ pc[c] = "putprev" => /\ todos # <<>>
                            /\ prev[c].id = Len(todos)
                            /\ prev[c].lines = CurrentLines
    /\ pc[c] = "putnew" => /\ prev[c].id = 0 => todos = <<>>
                           /\ CurrentLines = UpdatedLines(prev[c].lines)

\* What is to be done is open on the last todo, or in a run's hands.
History ==
  /\ (\A c \in Procs : pc[c] # "putnew") => open = OpenTexts(CurrentLines)
  /\ \A c \in Procs : pc[c] = "putnew" => open = OpenTexts(prev[c].lines)

AloneInv == ~overlap => OneAtATime /\ DaysInOrder /\ Settled /\ Handover /\ (~cut => History)

LEMMA CurrentType ==
  ASSUME TypeOK
  PROVE  /\ CurrentLines \in Seq(Line)
         /\ todos # <<>> <=> Len(todos) > 0
         /\ todos # <<>> => Len(todos) \in Ids /\ CurrentLines = todos[Len(todos)].lines
<1>1. todos \in Seq(Todo) /\ Ids = 1..Len(todos) /\ Len(todos) \in Nat
      /\ \A i \in Ids : todos[i].lines \in Seq(Line)
  BY Types
<1>2. todos # <<>> <=> Len(todos) > 0
  BY <1>1
<1>3. <<>> \in Seq(Line)
  OBVIOUS
<1> QED BY <1>1, <1>2, <1>3 DEF CurrentLines

LEMMA InitAlone == Init => AloneInv
<1> SUFFICES ASSUME Init PROVE AloneInv
  OBVIOUS
<1>1. PICK b \in Bodies : /\ todos \in {<<>>, <<[day |-> 1, lines |-> b]>>}
                          /\ open = IF todos = <<>> THEN {} ELSE OpenTexts(b)
  BY DEF Init
<1>2. day = 2 /\ \A c \in Procs : pc[c] = "idle"
  BY DEF Init
<1>3. CASE todos = <<>>
  <2>1. Ids = {} /\ CurrentLines = <<>> /\ open = {}
    BY <1>1, <1>3 DEF Ids, CurrentLines
  <2> QED BY <1>2, <2>1, OpenTextsNone
          DEF AloneInv, OneAtATime, DaysInOrder, DaysGrow, Settled, Handover, History
<1>4. CASE todos = <<[day |-> 1, lines |-> b]>>
  <2>1. Ids = {1} /\ Len(todos) = 1 /\ todos[1].day = 1 /\ todos[1].lines = b /\ todos # <<>>
    BY <1>4 DEF Ids
  <2>2. CurrentLines = b /\ open = OpenTexts(b)
    BY <1>1, <2>1 DEF CurrentLines
  <2> QED BY <1>2, <2>1, <2>2
          DEF AloneInv, OneAtATime, DaysInOrder, DaysGrow, Settled, Handover, History
<1> QED BY <1>1, <1>3, <1>4

LEMMA FindTodayKeeps ==
  ASSUME TypeInv, AloneInv, "west" \notin Exposed, NEW c \in Procs, FindToday(c)
  PROVE  AloneInv'
<1> SUFFICES ASSUME ~overlap' PROVE (OneAtATime /\ DaysInOrder /\ Settled /\ Handover /\ (~cut => History))'
  BY DEF AloneInv
<1>1. TypeOK /\ pc[c] = "idle"
  BY DEF FindToday, TypeInv
<1>2. ~overlap /\ (Idle \/ ExactDate(day) # {})
  BY DEF FindToday
<1>3. OneAtATime /\ DaysInOrder /\ Settled /\ Handover /\ (~cut => History)
  BY <1>2 DEF AloneInv
<1>4. todos' = todos /\ day' = day /\ prev' = prev /\ open' = open /\ cut' = cut
      /\ Ids' = Ids /\ CurrentLines' = CurrentLines
  BY DEF FindToday, Ids, CurrentLines
<1>5. /\ \A d \in Procs \ {c} : pc'[d] = pc[d] /\ today'[d] = today[d]
      /\ pc'[c] = IF ExactDate(day) # {} THEN "idle" ELSE "findprev"
      /\ today'[c] = day
  BY <1>1 DEF FindToday, TypeOK
<1>6. Settled'
  BY <1>3, <1>4 DEF Settled
<1>7. Handover'
  BY <1>3, <1>4, <1>5 DEF Handover
<1>8. (~cut => History)'
  BY <1>1, <1>3, <1>4, <1>5 DEF History
<1>9. OneAtATime'
  BY <1>2, <1>3, <1>5 DEF OneAtATime, Idle
<1>10. DaysInOrder'
  <2>1. pc'[c] # "idle" => \A i \in Ids : todos[i].day < day
    <3> SUFFICES ASSUME ExactDate(day) = {}, NEW i \in Ids PROVE todos[i].day < day
      BY <1>5
    <3>1. todos[i].day <= day /\ todos[i].day # day
      BY <1>3 DEF DaysInOrder, ExactDate, LocalDay
    <3> QED BY <1>1, <3>1, Types
  <2>2. day <= day
    BY <1>1, Types
  <2>3. ASSUME NEW d \in Procs, pc'[d] # "idle"
        PROVE  today'[d] <= day /\ \A i \in Ids : todos[i].day < today'[d]
    <3>1. CASE d = c
      BY <1>5, <2>1, <2>2, <2>3, <3>1
    <3>2. CASE d # c
      BY <1>3, <1>5, <2>3, <3>2 DEF DaysInOrder
    <3> QED BY <3>1, <3>2
  <2>4. DaysGrow' /\ \A i \in Ids : todos[i].day <= day
    BY <1>3, <1>4 DEF DaysInOrder, DaysGrow
  <2> QED BY <1>4, <2>3, <2>4 DEF DaysInOrder
<1> QED BY <1>6, <1>7, <1>8, <1>9, <1>10

\* Where a run is under way, no other is, and it finds every todo to be before
\* its day.
LEMMA UnderWay ==
  ASSUME TypeInv, AloneInv, ~overlap, "west" \notin Exposed, NEW c \in Procs, pc[c] # "idle"
  PROVE  /\ \A d \in Procs \ {c} : pc[d] = "idle"
         /\ BeforeDate(today[c]) = Ids
         /\ ~Idle
<1>1. OneAtATime /\ DaysInOrder
  BY DEF AloneInv
<1>2. \A i \in Ids : todos[i].day < today[c]
  BY <1>1 DEF DaysInOrder
<1> QED BY <1>1, <1>2 DEF OneAtATime, BeforeDate, LocalDay, Idle

LEMMA FindPrevKeeps ==
  ASSUME TypeInv, AloneInv, "west" \notin Exposed, NEW c \in Procs, FindPrev(c)
  PROVE  AloneInv'
<1> SUFFICES ASSUME ~overlap' PROVE (OneAtATime /\ DaysInOrder /\ Settled /\ Handover /\ (~cut => History))'
  BY DEF AloneInv
<1>1. TypeOK /\ pc[c] = "findprev" /\ ~overlap
  BY DEF FindPrev, TypeInv
<1>2. OneAtATime /\ DaysInOrder /\ Settled /\ (~cut => History)
  BY <1>1 DEF AloneInv
<1>3. (\A d \in Procs \ {c} : pc[d] = "idle") /\ BeforeDate(today[c]) = Ids
  BY <1>1, UnderWay
<1>4. todos' = todos /\ day' = day /\ today' = today /\ open' = open /\ cut' = cut
      /\ Ids' = Ids /\ CurrentLines' = CurrentLines
  BY DEF FindPrev, Ids, CurrentLines
<1>5. \A d \in Procs \ {c} : pc'[d] = "idle"
  BY <1>1, <1>3 DEF FindPrev, TypeOK
<1>6. IF todos = <<>> THEN prev'[c] = NoPrev /\ pc'[c] = "putnew"
                      ELSE prev'[c] = [id |-> Len(todos), lines |-> CurrentLines] /\ pc'[c] = "putprev"
  <2>1. CASE todos = <<>>
    <3>1. Ids = {}
      BY <2>1 DEF Ids
    <3> QED BY <1>1, <1>3, <2>1, <3>1 DEF FindPrev, TypeOK
  <2>2. CASE todos # <<>>
    <3>1. Ids # {} /\ Newest(Ids) = Len(todos) /\ CurrentLines = todos[Len(todos)].lines
      BY <1>1, <1>2, <2>2, CurrentType, NewestIsLast, Types DEF DaysInOrder
    <3> QED BY <1>1, <1>3, <2>2, <3>1 DEF FindPrev, TypeOK
  <2> QED BY <2>1, <2>2
<1>7. DaysInOrder'
  BY <1>1, <1>2, <1>4, <1>5, <1>6 DEF DaysInOrder, DaysGrow
<1>8. Settled' /\ OneAtATime'
  BY <1>2, <1>4, <1>5 DEF Settled, OneAtATime
<1>9. Handover' /\ (~cut => History)'
  <2>1. ~cut => open = OpenTexts(CurrentLines)
    BY <1>1, <1>2, <1>3 DEF History
  <2>2. CASE todos = <<>>
    <3>1. CurrentLines = <<>> /\ UpdatedLines(<<>>) = <<>>
      BY <2>2 DEF CurrentLines, UpdatedLines
    <3>2. prev'[c].lines = <<>> /\ pc'[c] = "putnew"
      BY <1>6, <2>2 DEF NoPrev
    <3> QED BY <1>4, <1>5, <2>1, <2>2, <3>1, <3>2 DEF Handover, History
  <2>3. CASE todos # <<>>
    BY <1>4, <1>5, <1>6, <2>1, <2>3 DEF Handover, History
  <2> QED BY <2>2, <2>3
<1> QED BY <1>7, <1>8, <1>9

\* Other lines on the last todo leave the days and the todos before it alone.
LEMMA LastPut ==
  ASSUME TypeOK, todos # <<>>, NEW l \in Seq(Line),
         todos' = [todos EXCEPT ![Len(todos)].lines = l]
  PROVE  /\ todos' # <<>> /\ CurrentLines' = l /\ Ids' = Ids /\ Len(todos') = Len(todos)
         /\ \A i \in Ids : todos'[i].day = todos[i].day
         /\ DaysGrow => DaysGrow'
         /\ Settled => Settled'
<1>1. /\ todos' \in Seq(Todo) /\ Len(todos') = Len(todos) /\ Ids' = Ids
      /\ \A j \in Ids : /\ todos'[j].day = todos[j].day
                        /\ todos'[j].lines = IF j = Len(todos) THEN l ELSE todos[j].lines
  <2>1. todos \in Seq(Todo)
    BY Types
  <2> QED BY ZenonT(30), <2>1, PutLines
<1>2. Len(todos) \in Ids /\ Len(todos) > 0
  BY CurrentType
<1>3. todos' # <<>> /\ CurrentLines' = l
  <2>1. todos' # <<>>
    BY <1>1, <1>2
  <2> QED BY <1>1, <1>2, <2>1 DEF CurrentLines
<1>4. DaysGrow => DaysGrow'
  BY <1>1 DEF DaysGrow
<1>5. Settled => Settled'
  <2>1. \A i \in Ids : i < Len(todos) => i # Len(todos)
    BY Types
  <2> QED BY <1>1, <2>1 DEF Settled
<1> QED BY <1>1, <1>3, <1>4, <1>5

LEMMA PutPrevKeeps ==
  ASSUME TypeInv, AloneInv, "west" \notin Exposed, NEW c \in Procs, PutPrev(c)
  PROVE  AloneInv'
<1> SUFFICES ASSUME ~overlap' PROVE (OneAtATime /\ DaysInOrder /\ Settled /\ Handover /\ (~cut => History))'
  BY DEF AloneInv
<1>1. TypeOK /\ pc[c] = "putprev" /\ ~overlap
  BY DEF PutPrev, TypeInv
<1>2. OneAtATime /\ DaysInOrder /\ Settled /\ Handover /\ (~cut => History)
  BY <1>1 DEF AloneInv
<1>3. \A d \in Procs \ {c} : pc[d] = "idle"
  BY <1>1, UnderWay
<1>4. todos # <<>> /\ prev[c].id = Len(todos) /\ prev[c].lines = CurrentLines
  BY <1>1, <1>2 DEF Handover
<1> DEFINE l == UpdatedLines(prev[c].lines)
<1>5. l \in Seq(Line) /\ todos' = [todos EXCEPT ![Len(todos)].lines = l]
  BY <1>1, <1>4, CurrentType, UpdatedType DEF PutPrev
<1>6. day' = day /\ today' = today /\ prev' = prev /\ open' = open /\ cut' = cut
  BY DEF PutPrev
<1>7. pc'[c] = "putnew" /\ \A d \in Procs \ {c} : pc'[d] = "idle"
  BY <1>1, <1>3 DEF PutPrev, TypeOK
<1> HIDE DEF l
<1>8. /\ todos' # <<>> /\ CurrentLines' = l /\ Ids' = Ids /\ DaysGrow' /\ Settled'
      /\ \A i \in Ids : todos'[i].day = todos[i].day
  BY <1>1, <1>2, <1>4, <1>5, LastPut DEF DaysInOrder
<1>9. DaysInOrder'
  BY <1>1, <1>2, <1>6, <1>7, <1>8 DEF DaysInOrder
<1>10. OneAtATime'
  BY <1>7 DEF OneAtATime
<1>11. Handover'
  <2>1. prev[c].id # 0
    BY <1>1, <1>4, CurrentType
  <2> QED BY <1>6, <1>7, <1>8, <2>1 DEF Handover, l
<1>12. (~cut => History)'
  <2>1. ~cut => open = OpenTexts(CurrentLines)
    BY <1>1, <1>2, <1>3 DEF History
  <2> QED BY <1>4, <1>6, <1>7, <2>1 DEF History
<1> QED BY <1>8, <1>9, <1>10, <1>11, <1>12

LEMMA PutNewKeeps ==
  ASSUME TypeInv, AloneInv, "west" \notin Exposed, NEW c \in Procs, PutNew(c)
  PROVE  AloneInv'
<1> SUFFICES ASSUME ~overlap' PROVE (OneAtATime /\ DaysInOrder /\ Settled /\ Handover /\ (~cut => History))'
  BY DEF AloneInv
<1>1. TypeOK /\ pc[c] = "putnew" /\ ~overlap
  BY DEF PutNew, TypeInv
<1>2. OneAtATime /\ DaysInOrder /\ Settled /\ Handover /\ (~cut => History)
  BY <1>1 DEF AloneInv
<1>3. \A d \in Procs \ {c} : pc[d] = "idle"
  BY <1>1, UnderWay
<1> DEFINE new == NewLines(prev[c].lines)
<1>4. prev[c].lines \in Seq(Line) /\ new \in Seq(Line)
      /\ OpenTexts(prev[c].lines) \subseteq OpenTexts(new)
  BY <1>1, Types, NewLinesType, CarriedTextsOf
<1>5. today[c] \in 1..LastDay /\ today[c] <= day /\ \A i \in Ids : todos[i].day < today[c]
  BY <1>1, <1>2 DEF DaysInOrder, TypeInv, TypeOK
<1>6. todos' = Append(todos, [day |-> today[c], lines |-> new]) /\ open' = open \cup OpenTexts(new)
      /\ day' = day /\ today' = today /\ cut' = cut
  BY DEF PutNew
<1>7. \A d \in Procs : pc'[d] = "idle"
  BY <1>1, <1>3 DEF PutNew, TypeOK
<1> HIDE DEF new
<1> DEFINE n == Len(todos)
<1>8. /\ todos' \in Seq(Todo) /\ Len(todos') = n + 1 /\ n \in Nat
      /\ Ids = 1..n /\ Ids' = 1..(n + 1)
      /\ \A j \in Ids : todos'[j] = todos[j]
      /\ todos'[n + 1] = [day |-> today[c], lines |-> new]
  BY <1>1, <1>4, <1>5, <1>6, Types, PutTodo
<1>9. CurrentLines' = new
  <2>1. todos' # <<>>
    BY <1>8
  <2> QED BY <1>8, <2>1 DEF CurrentLines
<1>10. OneAtATime' /\ Handover'
  BY <1>7 DEF OneAtATime, Handover
<1>11. DaysInOrder'
  <2>1. ASSUME NEW i \in Ids', NEW j \in Ids', i < j
        PROVE  todos'[i].day < todos'[j].day
    <3>1. CASE j = n + 1
      <4>1. i \in Ids
        BY <1>8, <2>1, <3>1
      <4> QED BY <1>5, <1>8, <3>1, <4>1
    <3>2. CASE j # n + 1
      <4>1. i \in Ids /\ j \in Ids
        BY <1>8, <2>1, <3>2
      <4> QED BY <1>2, <1>8, <2>1, <4>1 DEF DaysInOrder, DaysGrow
    <3> QED BY <3>1, <3>2
  <2>2. ASSUME NEW i \in Ids'
        PROVE  todos'[i].day <= day
    <3>1. CASE i = n + 1
      BY <1>5, <1>8, <3>1
    <3>2. CASE i # n + 1
      <4>1. i \in Ids
        BY <1>8, <3>2
      <4> QED BY <1>2, <1>8, <4>1 DEF DaysInOrder
    <3> QED BY <3>1, <3>2
  <2> QED BY <1>6, <1>7, <2>1, <2>2 DEF DaysInOrder, DaysGrow
<1>12. Settled'
  <2>1. \A i \in Ids : i < n => OpenTexts(todos[i].lines) = {}
    BY <1>2 DEF Settled
  <2>2. n \in Ids => OpenTexts(todos[n].lines) = {}
    <3> SUFFICES ASSUME n \in Ids PROVE OpenTexts(todos[n].lines) = {}
      OBVIOUS
    <3>1. todos # <<>>
      BY <1>8
    <3>2. todos[n].lines = UpdatedLines(prev[c].lines)
      BY <1>1, <1>2, <3>1, CurrentType DEF Handover
    <3> QED BY <1>4, <3>2, UpdatedType
  <2>3. \A i \in Ids' : i < n + 1 => i \in Ids /\ (i < n \/ i = n)
    BY <1>8
  <2> QED BY <1>8, <2>1, <2>2, <2>3 DEF Settled
<1>13. (~cut => History)'
  <2>1. ~cut => open = OpenTexts(prev[c].lines)
    BY <1>1, <1>2 DEF History
  <2> QED BY <1>4, <1>6, <1>7, <1>9, <2>1 DEF History
<1> QED BY <1>10, <1>11, <1>12, <1>13

\* A task is lost where the previous todo was updated and the new one is not
\* written; without a previous todo there is none to lose.
LEMMA StopKeeps ==
  ASSUME TypeInv, AloneInv, "west" \notin Exposed, NEW c \in Procs, Stop(c)
  PROVE  AloneInv'
<1> SUFFICES ASSUME ~overlap' PROVE (OneAtATime /\ DaysInOrder /\ Settled /\ Handover /\ (~cut => History))'
  BY DEF AloneInv
<1>1. TypeOK /\ pc[c] # "idle" /\ ~overlap
  BY DEF Stop, TypeInv
<1>2. OneAtATime /\ DaysInOrder /\ Settled /\ Handover /\ (~cut => History)
  BY <1>1 DEF AloneInv
<1>3. \A d \in Procs \ {c} : pc[d] = "idle"
  BY <1>1, UnderWay
<1>4. todos' = todos /\ day' = day /\ today' = today /\ open' = open
      /\ Ids' = Ids /\ CurrentLines' = CurrentLines
  BY DEF Stop, Ids, CurrentLines
<1>5. \A d \in Procs : pc'[d] = "idle"
  BY <1>1, <1>3 DEF Stop, TypeOK
<1>6. (OneAtATime /\ DaysInOrder /\ Settled /\ Handover)'
  BY <1>2, <1>4, <1>5 DEF OneAtATime, DaysInOrder, DaysGrow, Settled, Handover
<1>7. (~cut => History)'
  <2> SUFFICES ASSUME ~cut' PROVE History'
    OBVIOUS
  <2>1. ~cut /\ (pc[c] # "putnew" \/ prev[c].id = 0)
    BY DEF Stop
  <2>2. open = OpenTexts(CurrentLines)
    <3>1. CASE pc[c] # "putnew"
      BY <1>2, <1>3, <2>1, <3>1 DEF History
    <3>2. CASE pc[c] = "putnew"
      <4>1. todos = <<>> /\ CurrentLines = UpdatedLines(prev[c].lines)
            /\ open = OpenTexts(prev[c].lines)
        BY <1>2, <2>1, <3>2 DEF Handover, History
      <4>2. CurrentLines = <<>>
        BY <4>1 DEF CurrentLines
      <4>3. DOMAIN prev[c].lines = {}
        <5>1. prev[c].lines \in Seq(Line)
          BY <1>1, Types
        <5>2. DOMAIN UpdatedLines(prev[c].lines) = DOMAIN prev[c].lines
          BY <5>1, UpdatedType
        <5> QED BY <4>1, <4>2, <5>2
      <4>4. OpenTexts(prev[c].lines) = {}
        BY <4>3, OpenTextsMember
      <4> QED BY <4>1, <4>2, <4>4, OpenTextsNone
    <3> QED BY <3>1, <3>2
  <2> QED BY <1>4, <1>5, <2>2 DEF History
<1> QED BY <1>6, <1>7

LEMMA UserKeeps ==
  ASSUME TypeInv, AloneInv, NEW t \in Tasks, AddTask(t) \/ FinishTask(t)
  PROVE  AloneInv'
<1> SUFFICES ASSUME ~overlap' PROVE (OneAtATime /\ DaysInOrder /\ Settled /\ Handover /\ (~cut => History))'
  BY DEF AloneInv
<1>1. TypeOK
  BY DEF TypeInv
<1> DEFINE was == OpenTexts(todos[Newest(Ids)].lines)
<1>2. PICK l \in Seq(Line) :
        /\ Edit(l)
        /\ \/ open' = open \cup {t} /\ OpenTexts(l) = was \cup {t}
           \/ open' = open \ {t} /\ OpenTexts(l) = was \ {t}
  BY <1>1, UserSteps
<1>3. Newest(Ids) \in Ids
  BY <1>1, UserSteps
<1>4. ~overlap /\ (\A c \in Procs : pc[c] = "idle") /\ pc' = pc
  BY <1>2 DEF Edit, Idle
<1>5. OneAtATime /\ DaysInOrder /\ Settled /\ (~cut => History)
  BY <1>4 DEF AloneInv
<1>6. todos # <<>> /\ Len(todos) > 0
  BY <1>1, <1>3, CurrentType, Types
<1>7. Newest(Ids) = Len(todos)
  BY <1>1, <1>5, <1>6, NewestIsLast, Types DEF DaysInOrder
<1>8. todos' = [todos EXCEPT ![Len(todos)].lines = l] /\ day' = day /\ cut' = cut
  BY <1>2, <1>7 DEF Edit
<1>9. /\ CurrentLines' = l /\ Ids' = Ids /\ DaysGrow' /\ Settled'
      /\ \A i \in Ids : todos'[i].day = todos[i].day
  BY <1>1, <1>5, <1>6, <1>8, LastPut DEF DaysInOrder
<1>10. (OneAtATime /\ DaysInOrder /\ Handover)'
  BY <1>4, <1>5, <1>8, <1>9 DEF OneAtATime, DaysInOrder, Handover
<1>11. (~cut => History)'
  <2>1. ~cut => open = was
    BY <1>1, <1>4, <1>5, <1>6, <1>7, CurrentType DEF History
  <2>2. ~cut => open' = OpenTexts(l)
    BY <1>2, <2>1
  <2> QED BY <1>4, <1>8, <1>9, <2>2 DEF History
<1> QED BY <1>9, <1>10, <1>11

LEMMA AloneKept ==
  ASSUME "west" \notin Exposed
  PROVE  TypeInv /\ AloneInv /\ [Next]_vars => AloneInv'
<1> SUFFICES ASSUME TypeInv, AloneInv, [Next]_vars PROVE AloneInv'
  OBVIOUS
<1>1. CASE UNCHANGED vars
  BY <1>1 DEF vars, AloneInv, OneAtATime, DaysInOrder, DaysGrow, Settled, Handover, History,
              CurrentLines, Ids
<1>2. CASE NextDay
  <2>1. todos' = todos /\ pc' = pc /\ today' = today /\ prev' = prev /\ open' = open /\ cut' = cut
        /\ overlap' = overlap /\ Ids' = Ids /\ CurrentLines' = CurrentLines /\ day' = day + 1
    BY <1>2 DEF NextDay, Ids, CurrentLines
  <2>2. DaysInOrder => DaysInOrder'
    <3>1. day \in Nat /\ \A i \in Ids : todos[i].day \in Nat
      BY Types DEF TypeInv
    <3>2. \A c \in Procs : today[c] \in Nat
      BY DEF TypeInv, TypeOK
    <3> QED BY <2>1, <3>1, <3>2 DEF DaysInOrder, DaysGrow
  <2>3. /\ OneAtATime => OneAtATime'
        /\ Settled => Settled'
        /\ Handover => Handover'
        /\ History => History'
    BY <2>1 DEF OneAtATime, Settled, Handover, History
  <2> QED BY <2>1, <2>2, <2>3 DEF AloneInv
<1>3. ASSUME NEW c \in Procs, FindToday(c) \/ FindPrev(c) \/ PutPrev(c) \/ PutNew(c) \/ Stop(c)
      PROVE  AloneInv'
  BY <1>3, FindTodayKeeps, FindPrevKeeps, PutPrevKeeps, PutNewKeeps, StopKeeps
<1>4. ASSUME NEW t \in Tasks, AddTask(t) \/ FinishTask(t)
      PROVE  AloneInv'
  BY <1>4, UserKeeps
<1> QED BY <1>1, <1>2, <1>3, <1>4 DEF Next

LEMMA AloneAlways ==
  ASSUME "west" \notin Exposed
  PROVE  Spec => [](TypeInv /\ AloneInv)
<1>1. Init => TypeInv /\ AloneInv
  BY InitTypes, InitAlone
<1>2. TypeInv /\ AloneInv /\ [Next]_vars => (TypeInv /\ AloneInv)'
  BY TypesKept, AloneKept
<1> QED BY <1>1, <1>2, PTL DEF Spec

\* There is one todo a day, unless runs overlap: a run that found none of its day
\* is the only one to write before it does, and the days only grow.
THEOREM OneADay ==
  ASSUME "west" \notin Exposed
  PROVE  Spec => []OneTodoPerDay
<1>1. TypeInv /\ AloneInv => OneTodoPerDay
  <2> SUFFICES ASSUME TypeInv, AloneInv, ~overlap,
                      NEW i \in Ids, NEW j \in Ids, todos[i].day = todos[j].day
               PROVE  i = j
    BY DEF OneTodoPerDay
  <2>1. DaysGrow
    BY DEF AloneInv, DaysInOrder
  <2>2. i \in Nat /\ j \in Nat /\ todos[i].day \in Nat /\ todos[j].day \in Nat
    BY Types DEF TypeInv
  <2>3. ~(i < j) /\ ~(j < i)
    BY <2>1, <2>2 DEF DaysGrow
  <2> QED BY <2>2, <2>3
<1> QED BY <1>1, AloneAlways, PTL

\* Between two runs, everything still to be done is open on the newest todo,
\* wherever runs before failed or died, except between their two Puts.
THEOREM NewestHasOpenTasks ==
  ASSUME "west" \notin Exposed
  PROVE  Spec => []OpenTasksOnNewest
<1>1. TypeInv /\ AloneInv => OpenTasksOnNewest
  <2> SUFFICES ASSUME TypeInv, AloneInv, ~cut, ~overlap, Idle, open # {}
               PROVE  open \subseteq OpenTexts(todos[Newest(Ids)].lines)
    BY DEF OpenTasksOnNewest, RolloverKeepsTasks
  <2>1. TypeOK /\ DaysGrow /\ open = OpenTexts(CurrentLines)
    BY DEF TypeInv, AloneInv, DaysInOrder, History, Idle
  <2>2. todos # <<>>
    BY <2>1, OpenTextsNone DEF CurrentLines
  <2>3. Newest(Ids) = Len(todos) /\ CurrentLines = todos[Len(todos)].lines
    BY <2>1, <2>2, CurrentType, NewestIsLast, Types
  <2> QED BY <2>1, <2>3
<1> QED BY <1>1, AloneAlways, PTL

\* Finishing a task on one todo finishes it: it is open on no other, since a run
\* marks the tasks of the previous todo before it writes them to the new one.
THEOREM OpenOnOne ==
  ASSUME "west" \notin Exposed
  PROVE  Spec => []OpenOnce
<1>1. TypeInv /\ AloneInv => OpenOnce
  <2> SUFFICES ASSUME TypeInv, AloneInv, ~overlap, NEW i \in Ids, NEW j \in Ids, i # j
               PROVE  OpenTexts(todos[i].lines) \cap OpenTexts(todos[j].lines) = {}
    BY DEF OpenOnce
  <2>1. Ids = 1..Len(todos) /\ Len(todos) \in Nat
    BY Types DEF TypeInv
  <2>2. i < Len(todos) \/ j < Len(todos)
    BY <2>1
  <2> QED BY <2>2 DEF AloneInv, Settled
<1> QED BY <1>1, AloneAlways, PTL

\* Only PutNew makes the list of todos longer.
LEMMA OnlyPutNewAdds ==
  ASSUME TypeOK, [Next]_vars, Len(todos') > Len(todos)
  PROVE  \E c \in Procs : PutNew(c)
<1>1. Len(todos) \in Nat
  BY Types
<1>2. ASSUME todos' = todos
      PROVE  FALSE
  BY <1>1, <1>2
<1>3. ASSUME NEW c \in Procs, PutPrev(c)
      PROVE  FALSE
  <2>1. UpdatedLines(prev[c].lines) \in Seq(Line)
    BY Types, UpdatedType
  <2>2. Len(todos') = Len(todos)
    BY <1>3, <2>1, Types, PutLines DEF PutPrev
  <2> QED BY <1>1, <2>2
<1>4. ASSUME NEW t \in Tasks, AddTask(t) \/ FinishTask(t)
      PROVE  FALSE
  <2>1. PICK l \in Seq(Line) : Edit(l)
    BY <1>4, UserSteps
  <2>2. Len(todos') = Len(todos)
    BY <2>1, Types, PutLines DEF Edit
  <2> QED BY <1>1, <2>2
<1>5. /\ UNCHANGED vars \/ NextDay => todos' = todos
      /\ \A c \in Procs : FindToday(c) \/ FindPrev(c) \/ Stop(c) => todos' = todos
  BY DEF vars, NextDay, FindToday, FindPrev, Stop
<1> QED BY <1>2, <1>3, <1>4, <1>5 DEF Next

\* What a run writes is complete, and without repetitions.
LEMMA NewTodoStep ==
  ASSUME "west" \notin Exposed, TypeInv, AloneInv, NEW c \in Procs, PutNew(c), ~cut, ~overlap
  PROVE  LET lines == Last(todos').lines
             daily == IF todos = <<>> THEN {} ELSE {l.text : l \in ToSet(todos[Newest(Ids)].lines)} \cap Daily
         IN  /\ ToSet(lines) = {Blank(t) : t \in open \cup daily}
             /\ IsInjective(lines)
<1> DEFINE old == prev[c].lines
           daily == IF todos = <<>> THEN {} ELSE {l.text : l \in ToSet(todos[Newest(Ids)].lines)} \cap Daily
<1>1. TypeOK /\ pc[c] = "putnew"
  BY DEF PutNew, TypeInv
<1>2. DaysInOrder /\ Handover /\ History
  BY DEF AloneInv
<1>3. old \in Seq(Line) /\ today[c] \in 1..LastDay
  BY <1>1, Types DEF TypeInv, TypeOK
<1>4. Last(todos').lines = NewLines(old)
  <2>1. NewLines(old) \in Seq(Line)
        /\ todos' = Append(todos, [day |-> today[c], lines |-> NewLines(old)])
    BY <1>3, NewLinesType DEF PutNew
  <2>2. Len(todos') = Len(todos) + 1
        /\ todos'[Len(todos) + 1] = [day |-> today[c], lines |-> NewLines(old)]
    BY <1>1, <1>3, <2>1, Types, PutTodo
  <2> QED BY <2>2 DEF Last
<1>5. open = OpenTexts(old) /\ CurrentLines = UpdatedLines(old)
  BY <1>1, <1>2 DEF Handover, History
<1>6. {l.text : l \in ToSet(old)} \cap Daily = daily
  <2>1. /\ DOMAIN UpdatedLines(old) = DOMAIN old
        /\ \A i \in DOMAIN old : UpdatedLines(old)[i].text = old[i].text
    BY <1>3, UpdatedType
  <2>2. {l.text : l \in ToSet(UpdatedLines(old))} = {l.text : l \in ToSet(old)}
    BY <2>1 DEF ToSet
  <2>3. CASE todos = <<>>
    <3>1. DOMAIN old = {}
      BY <1>5, <2>1, <2>3 DEF CurrentLines
    <3> QED BY <2>3, <3>1 DEF ToSet
  <2>4. CASE todos # <<>>
    <3>1. Newest(Ids) = Len(todos) /\ CurrentLines = todos[Len(todos)].lines
      BY <1>1, <1>2, <2>4, CurrentType, NewestIsLast, Types DEF DaysInOrder
    <3> QED BY <1>5, <2>2, <2>4, <3>1
  <2> QED BY <2>3, <2>4
<1>7. CarriedTexts(old) = open \cup daily
  BY <1>3, <1>5, <1>6, CarriedTextsOf
<1> QED BY <1>3, <1>4, <1>7, NewLinesType

\* A new todo has each open task and each daily task of the todo before, once.
THEOREM CompleteTodo ==
  ASSUME "west" \notin Exposed
  PROVE  Spec => NewTodoIsComplete
<1>1. TypeInv /\ AloneInv /\ [Next]_vars =>
        [Len(todos') > Len(todos) /\ ~cut /\ ~overlap =>
           LET lines == Last(todos').lines
               daily == IF todos = <<>> THEN {} ELSE {l.text : l \in ToSet(todos[Newest(Ids)].lines)} \cap Daily
           IN  /\ ToSet(lines) = {Blank(t) : t \in open \cup daily}
               /\ IsInjective(lines)]_vars
  <2> SUFFICES ASSUME TypeInv, AloneInv, [Next]_vars, Len(todos') > Len(todos), ~cut, ~overlap
               PROVE  LET lines == Last(todos').lines
                          daily == IF todos = <<>> THEN {}
                                   ELSE {l.text : l \in ToSet(todos[Newest(Ids)].lines)} \cap Daily
                      IN  /\ ToSet(lines) = {Blank(t) : t \in open \cup daily}
                          /\ IsInjective(lines)
    OBVIOUS
  <2>1. PICK c \in Procs : PutNew(c)
    BY OnlyPutNewAdds DEF TypeInv
  <2> QED BY <2>1, NewTodoStep
<1> QED BY <1>1, AloneAlways, PTL DEF Spec, NewTodoIsComplete

-----------------------------------------------------------------------------
(* Runs that overlap.                                                      *)

\* What was open on the previous todo when it was read, and more may not be
\* since, is open in the lines a run holds.
Held ==
  \A c \in Procs :
    /\ pc[c] = "putprev" => /\ prev[c].id \in Ids
                            /\ OpenTexts(todos[prev[c].id].lines) \subseteq OpenTexts(prev[c].lines)
    /\ pc[c] = "putnew" /\ prev[c].id = 0 => prev[c].lines = <<>>

Carrying(c) == IF pc[c] = "putnew" THEN CarriedTexts(prev[c].lines) ELSE {}

\* Each task is open on some todo or carried by some run.
Kept ==
  \A t \in open : \/ \E i \in Ids : t \in OpenTexts(todos[i].lines)
                  \/ \E c \in Procs : t \in Carrying(c)

SurviveInv == Held /\ (~cut => Kept)

LEMMA InitSurvive == Init => SurviveInv
<1> SUFFICES ASSUME Init PROVE SurviveInv
  OBVIOUS
<1>1. PICK b \in Bodies : /\ todos \in {<<>>, <<[day |-> 1, lines |-> b]>>}
                          /\ open = IF todos = <<>> THEN {} ELSE OpenTexts(b)
  BY DEF Init
<1>2. \A c \in Procs : pc[c] = "idle"
  BY DEF Init
<1>3. Kept
  <2>1. CASE todos = <<>>
    BY <1>1, <2>1 DEF Kept
  <2>2. CASE todos = <<[day |-> 1, lines |-> b]>>
    <3>1. 1 \in Ids /\ todos[1].lines = b /\ todos # <<>>
      BY <2>2 DEF Ids
    <3> QED BY <1>1, <3>1 DEF Kept
  <2> QED BY <1>1, <2>1, <2>2
<1> QED BY <1>2, <1>3 DEF SurviveInv, Held

LEMMA FindKeepsHeld ==
  ASSUME TypeOK, SurviveInv, NEW c \in Procs, FindToday(c) \/ FindPrev(c)
  PROVE  SurviveInv'
<1>1. todos' = todos /\ open' = open /\ cut' = cut /\ Ids' = Ids
  BY DEF FindToday, FindPrev, Ids
<1>2. \A d \in Procs \ {c} : pc'[d] = pc[d] /\ prev'[d] = prev[d]
  BY DEF FindToday, FindPrev, TypeOK
<1>3. pc[c] # "putnew"
  BY DEF FindToday, FindPrev
<1>4. Held'
  <2>1. CASE FindToday(c)
    BY <1>1, <1>2, <2>1 DEF FindToday, TypeOK, SurviveInv, Held
  <2>2. CASE FindPrev(c)
    <3> DEFINE S == BeforeDate(today[c])
    <3>1. CASE S = {}
      <4>1. pc'[c] = "putnew" /\ prev'[c].id = 0 /\ prev'[c].lines = <<>>
        BY <2>2, <3>1 DEF FindPrev, TypeOK, NoPrev
      <4> QED BY <1>1, <1>2, <4>1 DEF SurviveInv, Held
    <3>2. CASE S # {}
      <4>1. S \in SUBSET Ids
        BY DEF BeforeDate
      <4>2. Newest(S) \in Ids /\ Newest(S) # 0
        BY <3>2, <4>1, NewestType, Types
      <4>3. pc'[c] = "putprev" /\ prev'[c] = [id |-> Newest(S), lines |-> todos[Newest(S)].lines]
        BY <2>2, <3>2 DEF FindPrev, TypeOK
      <4> HIDE DEF S
      <4>4. prev'[c].id = Newest(S) /\ prev'[c].lines = todos[Newest(S)].lines
        BY <4>3
      <4> QED BY <1>1, <1>2, <4>2, <4>3, <4>4 DEF SurviveInv, Held
    <3> QED BY <3>1, <3>2
  <2> QED BY <2>1, <2>2
<1>5. \A d \in Procs : d # c => Carrying(d)' = Carrying(d)
  BY <1>2 DEF Carrying
<1>6. Carrying(c) = {}
  BY <1>3 DEF Carrying
<1>7. Kept => Kept'
  BY <1>1, <1>5, <1>6 DEF Kept
<1> QED BY <1>1, <1>4, <1>7 DEF SurviveInv

\* Whatever is open on the previous todo when it is overwritten, the run that
\* overwrites it carries over.
LEMMA PutPrevHolds ==
  ASSUME TypeOK, SurviveInv, NEW c \in Procs, PutPrev(c)
  PROVE  SurviveInv'
<1> DEFINE l == UpdatedLines(prev[c].lines)
           id == prev[c].id
<1>1. prev[c].lines \in Seq(Line) /\ l \in Seq(Line) /\ OpenTexts(l) = {}
  BY Types, UpdatedType
<1>2. pc[c] = "putprev" /\ id \in Ids /\ OpenTexts(todos[id].lines) \subseteq OpenTexts(prev[c].lines)
      /\ id # 0
  <2>1. pc[c] = "putprev" /\ id \in Ids /\ OpenTexts(todos[id].lines) \subseteq OpenTexts(prev[c].lines)
    BY DEF PutPrev, SurviveInv, Held
  <2>2. id # 0
    BY <2>1, Types
  <2> QED BY <2>1, <2>2
<1>3. todos' = [todos EXCEPT ![id].lines = l]
  BY DEF PutPrev
<1> HIDE DEF l
<1>4. Ids' = Ids /\ \A j \in Ids : todos'[j].lines = IF j = id THEN l ELSE todos[j].lines
  <2>1. todos \in Seq(Todo)
    BY Types
  <2>2. /\ todos' \in Seq(Todo) /\ Len(todos') = Len(todos) /\ Ids' = Ids
        /\ \A j \in Ids : /\ todos'[j].day = todos[j].day
                          /\ todos'[j].lines = IF j = id THEN l ELSE todos[j].lines
    BY ZenonT(30), <1>1, <1>3, <2>1, PutLines
  <2> QED BY <2>2
<1>5. /\ open' = open /\ cut' = cut /\ prev' = prev
      /\ pc'[c] = "putnew" /\ \A d \in Procs \ {c} : pc'[d] = pc[d]
  BY DEF PutPrev, TypeOK
<1>6. Held'
  <2>1. \A j \in Ids : OpenTexts(todos'[j].lines) \subseteq OpenTexts(todos[j].lines)
    BY <1>1, <1>4
  <2>2. ASSUME NEW d \in Procs \ {c}
        PROVE  /\ pc[d] = "putprev" => /\ prev[d].id \in Ids
                                       /\ OpenTexts(todos'[prev[d].id].lines) \subseteq OpenTexts(prev[d].lines)
               /\ pc[d] = "putnew" /\ prev[d].id = 0 => prev[d].lines = <<>>
    BY <2>1 DEF SurviveInv, Held
  <2> QED BY <1>2, <1>4, <1>5, <2>2 DEF Held
<1>7. Carrying(c)' = CarriedTexts(prev[c].lines) /\ OpenTexts(prev[c].lines) \subseteq Carrying(c)'
      /\ Carrying(c) = {}
  BY <1>1, <1>2, <1>5, CarriedTextsOf DEF Carrying
<1>8. \A d \in Procs : d # c => Carrying(d)' = Carrying(d)
  BY <1>5 DEF Carrying
<1>9. Kept => Kept'
  <2> SUFFICES ASSUME Kept, NEW t \in open
               PROVE  \/ \E i \in Ids : t \in OpenTexts(todos'[i].lines)
                      \/ \E d \in Procs : t \in Carrying(d)'
    BY <1>4, <1>5 DEF Kept
  <2>1. CASE \E i \in Ids : t \in OpenTexts(todos[i].lines)
    <3>1. PICK i \in Ids : t \in OpenTexts(todos[i].lines)
      BY <2>1
    <3>2. CASE i = id
      BY <1>2, <1>7, <3>1, <3>2
    <3>3. CASE i # id
      BY <1>4, <3>1, <3>3
    <3> QED BY <3>2, <3>3
  <2>2. CASE \E d \in Procs : t \in Carrying(d)
    BY <1>7, <1>8, <2>2
  <2> QED BY <2>1, <2>2 DEF Kept
<1> QED BY <1>5, <1>6, <1>9 DEF SurviveInv

LEMMA PutNewHolds ==
  ASSUME TypeInv, SurviveInv, NEW c \in Procs, PutNew(c)
  PROVE  SurviveInv'
<1> DEFINE new == NewLines(prev[c].lines)
           n == Len(todos)
<1>1. TypeOK /\ pc[c] = "putnew"
  BY DEF TypeInv, PutNew
<1>2. prev[c].lines \in Seq(Line) /\ new \in Seq(Line) /\ OpenTexts(new) = CarriedTexts(prev[c].lines)
  BY <1>1, Types, NewLinesType
<1>3. today[c] \in 1..LastDay
  BY <1>1 DEF TypeInv, TypeOK
<1>4. todos' = Append(todos, [day |-> today[c], lines |-> new]) /\ open' = open \cup OpenTexts(new)
      /\ cut' = cut /\ prev' = prev
  BY DEF PutNew
<1>5. pc'[c] = "idle" /\ \A d \in Procs \ {c} : pc'[d] = pc[d]
  BY <1>1 DEF PutNew, TypeOK
<1> HIDE DEF new
<1>6. /\ n \in Nat /\ Ids = 1..n /\ Ids' = 1..(n + 1)
      /\ \A j \in Ids : todos'[j] = todos[j]
      /\ todos'[n + 1] = [day |-> today[c], lines |-> new]
  BY <1>1, <1>2, <1>3, <1>4, Types, PutTodo
<1>7. n + 1 \in Ids' /\ todos'[n + 1].lines = new /\ \A j \in Ids : j \in Ids' /\ todos'[j] = todos[j]
  BY <1>6
<1>8. Held'
  BY <1>4, <1>5, <1>7 DEF SurviveInv, Held
<1>9. Carrying(c) = OpenTexts(new)
  BY <1>1, <1>2 DEF Carrying
<1>10. \A d \in Procs : d # c => Carrying(d)' = Carrying(d)
  BY <1>4, <1>5 DEF Carrying
<1>11. Kept => Kept'
  <2> SUFFICES ASSUME Kept, NEW t \in open \cup OpenTexts(new)
               PROVE  \/ \E i \in Ids' : t \in OpenTexts(todos'[i].lines)
                      \/ \E d \in Procs : t \in Carrying(d)'
    BY <1>4 DEF Kept
  <2>1. CASE t \in OpenTexts(new)
    BY <1>7, <2>1
  <2>2. CASE t \in open /\ t \notin OpenTexts(new)
    BY <1>7, <1>9, <1>10, <2>2 DEF Kept
  <2> QED BY <2>1, <2>2
<1> QED BY <1>4, <1>8, <1>11 DEF SurviveInv

LEMMA StopHolds ==
  ASSUME TypeOK, SurviveInv, NEW c \in Procs, Stop(c)
  PROVE  SurviveInv'
<1>1. todos' = todos /\ open' = open /\ Ids' = Ids /\ prev' = prev
  BY DEF Stop, Ids
<1>2. pc'[c] = "idle" /\ \A d \in Procs \ {c} : pc'[d] = pc[d]
  BY DEF Stop, TypeOK
<1>3. Held'
  BY <1>1, <1>2 DEF SurviveInv, Held
<1>4. \A d \in Procs : d # c => Carrying(d)' = Carrying(d)
  BY <1>1, <1>2 DEF Carrying
<1>5. ~cut' => ~cut /\ Carrying(c) = {}
  <2> SUFFICES ASSUME ~cut', pc[c] = "putnew" PROVE Carrying(c) = {}
    BY DEF Stop, Carrying
  <2>1. prev[c].lines = <<>>
    BY DEF Stop, SurviveInv, Held
  <2> QED BY <2>1 DEF Carrying, CarriedTexts
<1>6. ~cut' => Kept'
  BY <1>1, <1>4, <1>5 DEF SurviveInv, Kept
<1> QED BY <1>3, <1>6 DEF SurviveInv

LEMMA UserHolds ==
  ASSUME TypeOK, SurviveInv, NEW t \in Tasks, AddTask(t) \/ FinishTask(t)
  PROVE  SurviveInv'
<1> DEFINE N == Newest(Ids)
           was == OpenTexts(todos[N].lines)
<1>1. N \in Ids
  BY UserSteps
<1>2. PICK l \in Seq(Line) :
        /\ Edit(l)
        /\ \/ open' = open \cup {t} /\ OpenTexts(l) = was \cup {t}
           \/ open' = open \ {t} /\ OpenTexts(l) = was \ {t}
  BY UserSteps
<1>3. todos' = [todos EXCEPT ![N].lines = l] /\ cut' = cut /\ pc' = pc
      /\ \A c \in Procs : pc[c] = "idle"
  BY <1>2 DEF Edit, Idle
<1> HIDE DEF N
<1>4. Ids' = Ids /\ \A j \in Ids : todos'[j].lines = IF j = N THEN l ELSE todos[j].lines
  <2>1. todos \in Seq(Todo)
    BY Types
  <2>2. /\ todos' \in Seq(Todo) /\ Len(todos') = Len(todos) /\ Ids' = Ids
        /\ \A j \in Ids : /\ todos'[j].day = todos[j].day
                          /\ todos'[j].lines = IF j = N THEN l ELSE todos[j].lines
    <3>1. l \in Seq(Line) /\ todos' = [todos EXCEPT ![N].lines = l]
      BY <1>3
    <3> QED BY ZenonT(30), <2>1, <3>1, PutLines
  <2> QED BY <2>2
<1>5. \A c \in Procs : Carrying(c) = {}
  BY <1>3 DEF Carrying
<1>6. Kept => Kept'
  <2> SUFFICES ASSUME Kept, NEW u \in open'
               PROVE  \E i \in Ids : u \in OpenTexts(todos'[i].lines)
    BY <1>4 DEF Kept
  <2>1. CASE u = t
    BY <1>1, <1>2, <1>4, <2>1
  <2>2. CASE u # t
    <3>1. PICK i \in Ids : u \in OpenTexts(todos[i].lines)
      BY <1>2, <1>5, <2>2 DEF Kept
    <3>2. u \in OpenTexts(todos'[i].lines)
      BY <1>2, <1>4, <2>2, <3>1
    <3> QED BY <3>2
  <2> QED BY <2>1, <2>2
<1>7. Held'
  BY <1>3 DEF Held
<1> QED BY <1>3, <1>6, <1>7 DEF SurviveInv

LEMMA SurviveKept == TypeInv /\ SurviveInv /\ [Next]_vars => SurviveInv'
<1> SUFFICES ASSUME TypeInv, SurviveInv, [Next]_vars PROVE SurviveInv'
  OBVIOUS
<1>1. TypeOK
  BY DEF TypeInv
<1>2. CASE UNCHANGED vars \/ NextDay
  <2>1. todos' = todos /\ Ids' = Ids /\ open' = open /\ cut' = cut /\ pc' = pc /\ prev' = prev
    BY <1>2 DEF vars, NextDay, Ids
  <2> QED BY <2>1 DEF SurviveInv, Held, Kept, Carrying
<1>3. ASSUME NEW c \in Procs, FindToday(c) \/ FindPrev(c) \/ PutPrev(c) \/ PutNew(c) \/ Stop(c)
      PROVE  SurviveInv'
  BY <1>1, <1>3, FindKeepsHeld, PutPrevHolds, PutNewHolds, StopHolds
<1>4. ASSUME NEW t \in Tasks, AddTask(t) \/ FinishTask(t)
      PROVE  SurviveInv'
  BY <1>1, <1>4, UserHolds
<1> QED BY <1>2, <1>3, <1>4 DEF Next

\* However many runs overlap, in whatever time zone, no open task is lost, unless
\* a run ends between its two Puts.
THEOREM NoTaskLost == Spec => []OpenTasksSurvive
<1>1. TypeInv /\ SurviveInv => OpenTasksSurvive
  <2> SUFFICES ASSUME TypeInv, SurviveInv, ~cut, NEW t \in open
               PROVE  \/ \E i \in Ids : t \in OpenTexts(todos[i].lines)
                      \/ \E c \in Procs : pc[c] = "putnew" /\ Blank(t) \in ToSet(NewLines(prev[c].lines))
    BY DEF OpenTasksSurvive
  <2>1. CASE \E c \in Procs : t \in Carrying(c)
    <3>1. PICK c \in Procs : pc[c] = "putnew" /\ t \in CarriedTexts(prev[c].lines)
      BY <2>1 DEF Carrying
    <3>2. ToSet(NewLines(prev[c].lines)) = {Blank(u) : u \in CarriedTexts(prev[c].lines)}
      BY Types, NewLinesType DEF TypeInv
    <3> QED BY <3>1, <3>2
  <2> QED BY <2>1 DEF SurviveInv, Kept
<1>2. Init => TypeInv /\ SurviveInv
  BY InitTypes, InitSurvive
<1>3. TypeInv /\ SurviveInv /\ [Next]_vars => (TypeInv /\ SurviveInv)'
  BY TypesKept, SurviveKept
<1> QED BY <1>1, <1>2, <1>3, PTL DEF Spec
=============================================================================
