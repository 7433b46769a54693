-------------------------- MODULE NetBuildingProofs ---------------------------
(***************************************************************************)
(* Facts about the operators of NetBuilding that hold for every report and *)
(* every table of nets, and about the sums over the log that the counts of *)
(* nets are compared with.  Inductions are by a least counterexample.      *)
(***************************************************************************)
EXTENDS NetBuilding, Sequences, FiniteSetTheorems, SequenceTheorems, TLAPS

------------------------------------------------------------------------------
\* Sums.

\* g sums f over every subset of S, in the order MapThenSumSet takes.
IsSum(g, f, S) ==
  g = [s \in SUBSET S |->
         IF s = {} THEN 0
         ELSE f[CHOOSE x \in s : TRUE] + g[s \ {CHOOSE x \in s : TRUE}]]

\* The sum of the counts of the log rows S, as LoggedCount takes it.
SumOfLog(log, S) == MapThenSumSet(LAMBDA k : log[k].nti, S)

\* Every set of naturals that is not empty has a least element: what the inductions
\* below rest on.
LEMMA SmallestNat ==
  ASSUME NEW T \in SUBSET Nat, T # {}
  PROVE  \E n \in T : \A m \in T : n <= m
<1>1. PICK n \in T : \A m \in T : <<m, n>> \notin OpToRel(<, Nat)
      BY NatLessThanWellFounded, WFMin
<1>2. \A m \in T : ~(m < n)
      BY <1>1 DEF OpToRel
<1>3. \A m \in T : m \in Nat /\ n \in Nat
      OBVIOUS
<1> HIDE <1>1
<1>4. \A m \in T : n <= m 
   BY <1>2, <1>3
<1> QED BY <1>4

\* Every set of subsets of a finite set that is not empty has a minimal element.
LEMMA SmallestSubset ==
  ASSUME NEW S, IsFiniteSet(S), NEW T \in SUBSET (SUBSET S), T # {}
  PROVE  \E m \in T : \A y \in T : y \subseteq m => y = m
<1>1. IsWellFoundedOn(StrictSubsetOrdering(S), SUBSET S)
   BY FS_StrictSubsetOrderingWellFounded, FS_FiniteSubsetsOfFinite
<1>2. \E x \in T : \A y \in T : ~ (<<y, x>> \in StrictSubsetOrdering(S))
   BY <1>1, WFMin
<1> QED BY <1>2 DEF StrictSubsetOrdering

\* There is such a g: built up by cardinality.
LEMMA SumExists ==
  ASSUME NEW S, IsFiniteSet(S), NEW f
  PROVE  \E g : IsSum(g, f, S)
<1> DEFINE c(s) == CHOOSE x \in s : TRUE
           D(n) == {s \in SUBSET S : Cardinality(s) <= n}
           body(g, s) == IF s = {} THEN 0 ELSE f[c(s)] + g[s \ {c(s)}]
           Sums(n) == \E g : g = [s \in D(n) |-> body(g, s)]
<1>1. \A s \in SUBSET S : IsFiniteSet(s) /\ Cardinality(s) \in Nat /\ Cardinality(s) <= Cardinality(S)
      BY FS_Subset, FS_CardinalityType
<1>2. Sums(0)
  <2>1. D(0) = {{}}
        BY <1>1, FS_EmptySet
  <2> DEFINE g == [s \in D(0) |-> 0]
  <2>2. g = [s \in D(0) |-> body(g, s)]
        BY <2>1
  <2> QED BY <2>2
<1>3. ASSUME NEW n \in Nat, Sums(n) PROVE Sums(n+1)
  <2>1. PICK g : g = [s \in D(n) |-> body(g, s)]
        BY <1>3
  <2> DEFINE h == [s \in D(n+1) |-> body(g, s)]
  <2>2. ASSUME NEW s \in D(n+1), s # {}
        PROVE s \ {c(s)} \in D(n)
    <3>1. c(s) \in s 
          BY <2>2
    <3>2. Cardinality(s \ {c(s)}) = Cardinality(s) - 1
          BY <1>1, <3>1, FS_RemoveElement
    <3> HIDE DEF c
    <3> QED BY <3>2, <1>1
  <2>3. \A s \in D(n) : s \in D(n+1) /\ h[s] = g[s]
        <3> HIDE DEF body
        <3>1. \A s \in D(n) : g[s] = body(g, s)
              BY <2>1
        <3>2. \A s \in D(n) : s \in D(n+1)
              BY <1>1
        <3> QED BY <3>1, <3>2
  <2>4. \A s \in D(n+1) : body(g, s) = body(h, s)
        <3> HIDE DEF c, h, D
        <3> QED BY <2>2, <2>3
  <2>5. h = [s \in D(n+1) |-> body(h, s)]
        <3> HIDE DEF body, D
        <3> QED BY <2>4
  <2> QED BY <2>5
<1>4. \A n \in Nat : Sums(n)
  <2> HIDE DEF Sums
  <2> DEFINE T == {n \in Nat : ~Sums(n)}
  <2> SUFFICES ASSUME T # {} PROVE FALSE
      OBVIOUS
  <2>1. PICK n \in T : \A m \in T : n <= m
        BY SmallestNat
  <2>2. n # 0 BY <1>2
  <2>3. n - 1 \in Nat /\ n - 1 \notin T BY <2>1, <2>2
  <2>4. Sums(n - 1 + 1) BY <1>3, <2>3
  <2> QED BY <2>4
<1>5. D(Cardinality(S)) = SUBSET S
      BY <1>1
<1>6. Cardinality(S) \in Nat BY FS_CardinalityType
<1> HIDE DEF Sums, D
<1>7. Sums(Cardinality(S))
      BY <1>4, <1>6
<1> QED
    BY <1>5, <1>7 DEF Sums, IsSum

\* A sum of naturals is one, and any element can be taken off first: the order the
\* rows of the log are summed in does not matter.
LEMMA SumTerms ==
  ASSUME NEW S, IsFiniteSet(S), NEW f, \A x \in S : f[x] \in Nat,
         NEW g, IsSum(g, f, S)
  PROVE  /\ g[{}] = 0
         /\ \A s \in SUBSET S : g[s] \in Nat
         /\ \A s \in SUBSET S : \A x \in s : g[s] = f[x] + g[s \ {x}]
<1> DEFINE c(s) == CHOOSE x \in s : TRUE
<1>1. g[{}] = 0
      BY DEF IsSum
<1>2. \A s \in SUBSET S : s # {} => c(s) \in s /\ g[s] = f[c(s)] + g[s \ {c(s)}]
      BY DEF IsSum
<1> HIDE DEF c
<1>3. \A s \in SUBSET S : g[s] \in Nat
  <2> DEFINE T == {s \in SUBSET S : g[s] \notin Nat}
  <2> SUFFICES ASSUME T # {} PROVE FALSE
      OBVIOUS
  <2>0. T \in SUBSET (SUBSET S)
        OBVIOUS
  <2>1. PICK s \in T : \A t \in T : t \subseteq s => t = s
    <3> HIDE DEF T
    <3> QED
        BY <2>0, SmallestSubset
  <2>2. s # {}
        BY <1>1
  <2>3. c(s) \in s /\ s \ {c(s)} \subseteq s /\ s \ {c(s)} # s
        BY <1>2, <2>2
  <2>4. g[s \ {c(s)}] \in Nat
        BY <2>1, <2>3
  <2>5. f[c(s)] \in Nat /\ g[s] = f[c(s)] + g[s \ {c(s)}]
        BY <1>2, <2>2, <2>3
  <2>6. g[s] \in Nat
        BY <2>4, <2>5
  <2> QED
      BY <2>6
<1>4. \A s \in SUBSET S : \A x \in s : g[s] = f[x] + g[s \ {x}]
  <2> DEFINE T == {s \in SUBSET S : \E x \in s : g[s] # f[x] + g[s \ {x}]}
  <2> SUFFICES ASSUME T # {} PROVE FALSE
      OBVIOUS
  <2>0. T \in SUBSET (SUBSET S)
        OBVIOUS
  <2>1. PICK s \in T : \A t \in T : t \subseteq s => t = s
    <3> HIDE DEF T
    <3> QED
        BY <2>0, SmallestSubset
  <2>2. PICK x \in s : g[s] # f[x] + g[s \ {x}]
        OBVIOUS
  <2> DEFINE y == c(s)
  <2>3. y \in s /\ g[s] = f[y] + g[s \ {y}] /\ x # y
        BY <1>2, <2>2
  <2> DEFINE u == (s \ {x}) \ {y}
  <2> HIDE DEF y
  <2>4. g[s \ {y}] = f[x] + g[(s \ {y}) \ {x}]
    <3>1. s \ {y} \subseteq s /\ s \ {y} # s /\ x \in s \ {y}
          BY <2>3
    <3> QED BY <2>1, <3>1
  <2>5. g[s \ {x}] = f[y] + g[u]
    <3>1. s \ {x} \subseteq s /\ s \ {x} # s /\ y \in s \ {x}
          BY <2>3
    <3> QED BY <2>1, <3>1
  <2>6. (s \ {y}) \ {x} = u
        OBVIOUS
  <2>7. g[u] \in Nat /\ f[x] \in Nat /\ f[y] \in Nat
        BY <1>3, <2>3
  <2> HIDE DEF u
  <2>8. g[s] = f[y] + (f[x] + g[u]) /\ g[s \ {x}] = f[y] + g[u]
        BY <2>3, <2>4, <2>5, <2>6
  <2> QED
      BY <2>2, <2>7, <2>8
<1> QED
    BY <1>1, <1>3, <1>4

\* Two tables that agree on a set have the same sum over it.
LEMMA SumsAgree ==
  ASSUME NEW A, IsFiniteSet(A), NEW a, \A x \in A : a[x] \in Nat, NEW u, IsSum(u, a, A),
         NEW B, IsFiniteSet(B), NEW b, \A x \in B : b[x] \in Nat, NEW v, IsSum(v, b, B)
  PROVE  A \subseteq B /\ (\A x \in A : a[x] = b[x]) => \A s \in SUBSET A : u[s] = v[s]
<1> DEFINE Terms(w, t, U) ==
      /\ w[{}] = 0
      /\ \A s \in SUBSET U : \A x \in s : w[s] = t[x] + w[s \ {x}]
<1>1. Terms(u, a, A)
      BY SumTerms
<1>2. Terms(v, b, B)
      BY SumTerms
<1> DEFINE T == {s \in SUBSET A : u[s] # v[s]}
<1> SUFFICES ASSUME A \subseteq B, \A x \in A : a[x] = b[x], T # {}
             PROVE  FALSE
    OBVIOUS
<1>3. T \in SUBSET (SUBSET A)
      OBVIOUS
<1>4. PICK s \in T : \A t \in T : t \subseteq s => t = s
  <2> HIDE DEF T
  <2> QED
      BY <1>3, SmallestSubset
<1>5. PICK x \in s : TRUE
      BY <1>1, <1>2
<1>6. u[s] = a[x] + u[s \ {x}] /\ v[s] = b[x] + v[s \ {x}]
      BY <1>1, <1>2
<1>7. u[s \ {x}] = v[s \ {x}]
  <2>1. s \ {x} \subseteq s /\ s \ {x} # s
        BY <1>5
  <2> QED BY <1>4, <2>1
<1>8. a[x] = b[x]
      OBVIOUS
<1> QED BY <1>6, <1>7, <1>8

\* The sum over a set of log rows is the sum the lemmas above speak of.
LEMMA SumOfLogIs ==
  ASSUME NEW log, NEW S, IsFiniteSet(S), NEW R, S \subseteq R
  PROVE  \E g : IsSum(g, [k \in R |-> log[k].nti], S) /\ SumOfLog(log, S) = g[S]
<1> DEFINE f == [k \in R |-> log[k].nti]
           body(g) == [s \in SUBSET S |->
                        IF s = {} THEN 0
                        ELSE log[CHOOSE x \in s : TRUE].nti + g[s \ {CHOOSE x \in s : TRUE}]]
           iter == CHOOSE g : g = body(g)
<1>1. SumOfLog(log, S) = iter[S]
      BY DEF SumOfLog, MapThenSumSet, MapThenFoldSet
<1>2. \A g : IsSum(g, f, S) <=> g = body(g)
  <2> TAKE g
  <2>1. \A s \in SUBSET S : s # {} => (CHOOSE x \in s : TRUE) \in R
        OBVIOUS
  <2>2. body(g) = [s \in SUBSET S |-> IF s = {} THEN 0
         ELSE f[CHOOSE x \in s : TRUE] + g[s \ {CHOOSE x \in s : TRUE}]]
        BY <2>1
  <2> QED BY <2>2 DEF IsSum
<1>3. \E g : g = body(g)
      <2> HIDE DEF body, f
      <2> QED BY <1>2, SumExists
<1>4. iter = body(iter)
      <2> HIDE DEF body
      <2> QED BY <1>3
<1>5. IsSum(iter, f, S)
   <2> HIDE DEF body, iter, f
   <2> QED BY <1>2, <1>4
<1> HIDE DEF iter, f
<1> QED BY <1>1, <1>5 DEF f

\* The sum over no row is 0.
LEMMA SumOfNothing == \A log : SumOfLog(log, {}) = 0
<1> TAKE log
<1>1. PICK g : IsSum(g, [k \in {} |-> log[k].nti], {}) /\ SumOfLog(log, {}) = g[{}]
      BY SumOfLogIs, FS_EmptySet
<1> QED
    BY <1>1 DEF IsSum

\* One more row adds its count.
LEMMA SumOfMore ==
  ASSUME NEW log, NEW S, IsFiniteSet(S), NEW x, x \notin S,
         \A k \in S \cup {x} : log[k].nti \in Nat
  PROVE  /\ SumOfLog(log, S) \in Nat
         /\ SumOfLog(log, S \cup {x}) = SumOfLog(log, S) + log[x].nti
<1> DEFINE R == S \cup {x}
           f == [k \in R |-> log[k].nti]
<1>1. IsFiniteSet(R)
      BY FS_AddElement
<1>2. PICK g : IsSum(g, f, S) /\ SumOfLog(log, S) = g[S]
      BY SumOfLogIs
<1>3. PICK h : IsSum(h, f, R) /\ SumOfLog(log, R) = h[R]
      BY <1>1, SumOfLogIs
<1>4. \A k \in R : f[k] = log[k].nti /\ f[k] \in Nat
      OBVIOUS
<1>5. S \subseteq R /\ x \in R /\ R \ {x} = S
      OBVIOUS
<1> HIDE DEF f, R
<1>6. /\ \A s \in SUBSET R : h[s] \in Nat
      /\ \A s \in SUBSET R : \A y \in s : h[s] = f[y] + h[s \ {y}]
      BY <1>1, <1>3, <1>4, SumTerms
<1>7. \A s \in SUBSET S : g[s] = h[s]
      BY <1>1, <1>2, <1>3, <1>4, <1>5, SumsAgree
<1>8. h[R] = f[x] + h[S] /\ h[S] \in Nat /\ g[S] = h[S]
      BY <1>5, <1>6, <1>7
<1> QED
    BY <1>2, <1>3, <1>4, <1>5, <1>8 DEF R

\* The sum depends on the counts of the rows summed and on nothing else.
LEMMA SumOfSame ==
  ASSUME NEW log, NEW book, NEW S, IsFiniteSet(S),
         \A k \in S : log[k].nti \in Nat /\ book[k].nti = log[k].nti
  PROVE  SumOfLog(book, S) = SumOfLog(log, S)
<1> DEFINE f == [k \in S |-> log[k].nti]
           e == [k \in S |-> book[k].nti]
<1>1. PICK g : IsSum(g, f, S) /\ SumOfLog(log, S) = g[S]
      BY SumOfLogIs
<1>2. PICK h : IsSum(h, e, S) /\ SumOfLog(book, S) = h[S]
      BY SumOfLogIs
<1>3. e = f /\ \A k \in S : f[k] \in Nat
      OBVIOUS
<1> HIDE DEF e, f
<1>4. g[S] = h[S]
      BY <1>1, <1>2, <1>3, SumsAgree
<1> QED
    BY <1>1, <1>2, <1>4

\* Renaming the keys of the rows changes no sum.
LEMMA SumOfImage ==
  ASSUME NEW log, NEW S, IsFiniteSet(S), \A x \in S : log[x].nti \in Nat,
         NEW book, NEW b,
         \A x, y \in S : b[x] = b[y] => x = y,
         \A x \in S : book[b[x]].nti = log[x].nti
  PROVE  /\ IsFiniteSet({b[x] : x \in S})
         /\ SumOfLog(book, {b[x] : x \in S}) = SumOfLog(log, S)
<1> DEFINE Im(s) == {b[x] : x \in s}
           Same(s) == IsFiniteSet(Im(s)) /\ SumOfLog(book, Im(s)) = SumOfLog(log, s)
           T == {s \in SUBSET S : ~Same(s)}
<1> SUFFICES ASSUME T # {} PROVE FALSE
    OBVIOUS
<1>1. PICK s \in T : \A t \in T : t \subseteq s => t = s
  <2>1. T \in SUBSET (SUBSET S)
        OBVIOUS
  <2> HIDE DEF T
  <2> QED
      BY <2>1, SmallestSubset
<1>2. PICK x \in s : TRUE
  <2>1. Im({}) = {}
        OBVIOUS
  <2>2. Same({})
        BY <2>1, FS_EmptySet, SumOfNothing
  <2> QED
      BY <2>2
<1> DEFINE r == s \ {x}
<1>3. Same(r)
  <2>1. r \subseteq s /\ r # s
        BY <1>2
  <2> HIDE DEF Same
  <2> QED
      BY <1>1, <2>1
<1>4. Im(s) = Im(r) \cup {b[x]} /\ b[x] \notin Im(r) /\ s = r \cup {x} /\ x \notin r
      BY <1>2
<1>5. IsFiniteSet(Im(s)) /\ IsFiniteSet(r)
  <2>1. IsFiniteSet(r)
        BY FS_Subset
  <2> HIDE DEF Im, r
  <2> QED
      BY <1>3, <1>4, <2>1, FS_AddElement
<1>6. SumOfLog(log, s) = SumOfLog(log, r) + log[x].nti
  <2>1. \A k \in r \cup {x} : log[k].nti \in Nat
        BY <1>2
  <2> HIDE DEF r
  <2> QED
      BY <1>4, <1>5, <2>1, SumOfMore
<1>7. SumOfLog(book, Im(s)) = SumOfLog(book, Im(r)) + log[x].nti
  <2>1. \A k \in Im(r) \cup {b[x]} : book[k].nti \in Nat
        BY <1>2
  <2>2. book[b[x]].nti = log[x].nti
        BY <1>2
  <2> HIDE DEF Im, r
  <2> QED
      BY <1>3, <1>4, <2>1, <2>2, SumOfMore
<1> QED
    BY <1>3, <1>5, <1>6, <1>7

\* In particular, shifting the rows of a sequence by one place does not.
LEMMA SumOfShifted ==
  ASSUME NEW log, NEW J, J \subseteq Nat, IsFiniteSet(J), \A x \in J : log[x].nti \in Nat,
         NEW book, \A x \in J : book[x + 1].nti = log[x].nti
  PROVE  /\ IsFiniteSet({x + 1 : x \in J})
         /\ SumOfLog(book, {x + 1 : x \in J}) = SumOfLog(log, J)
<1>1. PICK up : up = [x \in J |-> x + 1]
      OBVIOUS
<1>2. /\ \A x, y \in J : up[x] = up[y] => x = y
      /\ \A x \in J : book[up[x]].nti = log[x].nti
      BY <1>1
<1>4. {up[x] : x \in J} = {x + 1 : x \in J}
      BY <1>1
<1>3. /\ IsFiniteSet({up[x] : x \in J})
      /\ SumOfLog(book, {up[x] : x \in J}) = SumOfLog(log, J)
      BY ONLY IsFiniteSet(J), \A x \in J : log[x].nti \in Nat, <1>2, SumOfImage
<1> QED
    BY <1>3, <1>4

\* A sum of counts is a natural number.
LEMMA SumIsNat ==
  ASSUME NEW log, NEW S, IsFiniteSet(S), \A k \in S : log[k].nti \in Nat
  PROVE  SumOfLog(log, S) \in Nat
<1>1. CASE S = {}
      BY <1>1, SumOfNothing
<1>2. CASE S # {}
  <2>1. PICK x \in S : TRUE
        BY <1>2
  <2> DEFINE r == S \ {x}
  <2>2. IsFiniteSet(r) /\ x \notin r /\ S = r \cup {x}
        BY FS_Subset
  <2>3. \A k \in r \cup {x} : log[k].nti \in Nat
        OBVIOUS
  <2> HIDE DEF r
  <2>4. SumOfLog(log, r) \in Nat /\ SumOfLog(log, S) = SumOfLog(log, r) + log[x].nti
        BY <2>2, <2>3, SumOfMore
  <2>5. log[x].nti \in Nat
        OBVIOUS
  <2> QED
      BY <2>4, <2>5
<1> QED
    BY <1>1, <1>2

\* A finite set that is not empty has an element of the highest value.
LEMMA HighestExists ==
  ASSUME NEW S, IsFiniteSet(S), S # {}, NEW f, \A x \in S : f[x] \in Int
  PROVE  \E m \in S : \A x \in S : f[x] <= f[m]
<1> DEFINE High(s) == \E m \in s : \A x \in s : f[x] <= f[m]
           T == {s \in SUBSET S : s # {} /\ ~High(s)}
<1> SUFFICES ASSUME T # {} PROVE FALSE
    OBVIOUS
<1>1. PICK s \in T : \A t \in T : t \subseteq s => t = s
  <2>1. T \in SUBSET (SUBSET S)
        OBVIOUS
  <2> HIDE DEF T
  <2> QED
      BY <2>1, SmallestSubset
<1>2. PICK x \in s : TRUE
      OBVIOUS
<1>3. CASE s = {x}
      BY <1>3
<1>4. CASE s # {x}
  <2>1. s \ {x} \subseteq s /\ s \ {x} # s /\ s \ {x} # {}
        BY <1>2, <1>4
  <2>2. High(s \ {x})
    <3> HIDE DEF High
    <3> QED
        BY <1>1, <2>1
  <2>3. PICK m \in s \ {x} : \A y \in s \ {x} : f[y] <= f[m]
        BY <2>2
  <2>4. \A y \in s : f[y] \in Int
        OBVIOUS
  <2>5. CASE f[x] <= f[m]
        BY <2>3, <2>5
  <2>6. CASE ~(f[x] <= f[m])
    <3>1. \A y \in s : f[y] <= f[x]
          BY <2>3, <2>4, <2>6
    <3> QED
        BY <1>2, <3>1
  <2> QED
      BY <2>5, <2>6
<1> QED
    BY <1>3, <1>4
------------------------------------------------------------------------------
\* A table of nets.

\* A table of nets: finite, with the net_ids assign_net allocates.
NetTable(nets) ==
  /\ nets \in [DOMAIN nets -> NetRow]
  /\ IsFiniteSet(DOMAIN nets)
  /\ DOMAIN nets \subseteq {n \in Nat : n >= SystemNetStart}

\* routed is what became of rep: one net is new or collapsed, the others are as before.
Routed(members, rep, routed) ==
  /\ DOMAIN routed.members = DOMAIN members \cup {routed.net}
  /\ DOMAIN routed.spans = DOMAIN routed.members
  /\ \A n \in DOMAIN members \ {routed.net} : routed.members[n] = members[n]
  /\ routed.members[routed.net].rdfs = rep.rdfs
  /\ routed.net \notin DOMAIN members =>
       /\ routed.action = "new"
       /\ routed.net = NextNetId(members)
       /\ routed.members[routed.net] = NewRow(rep, NextMyNetId(members))
  /\ routed.net \in DOMAIN members =>
       /\ routed.action = "collapsed"
       /\ rep.rdfs # Null /\ members[routed.net].rdfs = rep.rdfs
       /\ \E timestamps \in BOOLEAN :
            routed.members[routed.net] = Collapsed(members[routed.net], rep, timestamps)

\* Max names the highest of a set of naturals.
LEMMA MaxOf ==
  ASSUME NEW S, NEW m \in S, S \subseteq Nat, \A x \in S : x <= m
  PROVE  Max(S) = m
<1>1. \A x \in S : x \in Nat /\ m >= x
      OBVIOUS
<1>2. Max(S) \in S /\ \A x \in S : Max(S) >= x
      BY <1>1 DEF Max
<1>3. m \in Nat /\ Max(S) \in Nat /\ m >= Max(S) /\ Max(S) >= m
      BY <1>1, <1>2
<1> QED
    BY <1>3

\* The net_id and my_net_id assign_net allocates are above every one in the table.
LEMMA NewIds ==
  ASSUME NEW nets, NetTable(nets)
  PROVE  /\ NextNetId(nets) \in Nat /\ NextNetId(nets) >= SystemNetStart
         /\ \A n \in DOMAIN nets : n < NextNetId(nets)
         /\ NextMyNetId(nets) \in Nat
         /\ \A n \in DOMAIN nets : nets[n].my < NextMyNetId(nets)
<1>1. \A n \in DOMAIN nets : n \in Nat /\ n >= SystemNetStart /\ nets[n].my \in Nat
      BY DEF NetTable, NetRow
<1>2. CASE DOMAIN nets = {}
      BY <1>2 DEF NextNetId, NextMyNetId, SystemNetStart, MyNetStart
<1>3. CASE DOMAIN nets # {}
  <2> DEFINE id == [n \in DOMAIN nets |-> n]
             my == [n \in DOMAIN nets |-> nets[n].my]
             mys == {nets[n].my : n \in DOMAIN nets}
  <2>1. PICK h \in DOMAIN nets : \A n \in DOMAIN nets : n <= h
    <3>1. \A n \in DOMAIN nets : id[n] \in Int /\ id[n] = n
          BY <1>1
    <3> HIDE DEF id
    <3>2. \E h \in DOMAIN nets : \A n \in DOMAIN nets : id[n] <= id[h]
          BY <1>3, <3>1, HighestExists DEF NetTable
    <3> QED
        BY <3>1, <3>2
  <2>2. Max(DOMAIN nets) = h
        BY <1>1, <2>1, MaxOf
  <2>3. PICK g \in DOMAIN nets : \A n \in DOMAIN nets : nets[n].my <= nets[g].my
    <3>1. \A n \in DOMAIN nets : my[n] \in Int /\ my[n] = nets[n].my
          BY <1>1
    <3> HIDE DEF my
    <3>2. \E h2 \in DOMAIN nets : \A n \in DOMAIN nets : my[n] <= my[h2]
          BY <1>3, <3>1, HighestExists DEF NetTable
    <3> QED
        BY <3>1, <3>2
  <2>4. Max(mys) = nets[g].my
    <3>1. mys \subseteq Nat /\ nets[g].my \in mys /\ \A x \in mys : x <= nets[g].my
          BY <1>1, <2>3
    <3> HIDE DEF mys
    <3> QED
        BY <3>1, MaxOf
  <2>5. NextNetId(nets) = h + 1 /\ NextMyNetId(nets) = nets[g].my + 1
        BY <1>3, <2>2, <2>4 DEF NextNetId, NextMyNetId
  <2>6. h \in Nat /\ nets[g].my \in Nat /\ h >= SystemNetStart
        BY <1>1
  <2> QED
      BY <1>1, <2>1, <2>3, <2>5, <2>6 DEF SystemNetStart
<1> QED
    BY <1>2, <1>3

\* What becomes of a date in the table is a date.
LEMMA StoredDateIsInt ==
  ASSUME NEW date \in Int, NEW timestamps \in BOOLEAN
  PROVE  StoredDate(date, timestamps) \in Int
BY DEF StoredDate, Reparsed

\* collapse_into changes neither the station nor the group of a net and adds the
\* report's count to its own.
LEMMA CollapsedRow ==
  ASSUME NEW row \in NetRow, NEW rep \in Report, NEW timestamps \in BOOLEAN
  PROVE  LET new == Collapsed(row, rep, timestamps)
         IN  /\ new \in NetRow
             /\ new.rdfs = row.rdfs /\ new.my = row.my
             /\ new.nti = (IF row.nti = Null THEN 0 ELSE row.nti) + rep.nti
             /\ new.fti = StoredDate(Earliest(row.fti, rep.fti), timestamps)
             /\ new.lti = StoredDate(Latest(row.lti, rep.lti), timestamps)
<1> DEFINE newest == IF rep.lti >= row.lti
                       THEN [row EXCEPT !.ff = rep.ff, !.freq = Newer(@, rep.freq),
                                        !.half = rep.half, !.loc = Newer(@, rep.loc)]
                       ELSE row
           fti == StoredDate(Earliest(row.fti, rep.fti), timestamps)
           lti == StoredDate(Latest(row.lti, rep.lti), timestamps)
<1>1. /\ rep.ff \in Nat /\ rep.freq \in Int /\ rep.half \in Nat /\ rep.loc \in Int
      /\ rep.fti \in Nat /\ rep.lti \in Nat /\ rep.nti \in Nat
      BY DEF Report
<1>2. newest \in NetRow
  <2>1. CASE rep.lti >= row.lti
    <3>1. Newer(row.freq, rep.freq) \in Int /\ Newer(row.loc, rep.loc) \in Int
          BY <1>1 DEF Newer, NetRow
    <3>2. newest = [my |-> row.my, rdfs |-> row.rdfs, ff |-> rep.ff,
                    freq |-> Newer(row.freq, rep.freq), half |-> rep.half,
                    loc |-> Newer(row.loc, rep.loc),
                    fti |-> row.fti, lti |-> row.lti, nti |-> row.nti]
          BY <2>1 DEF NetRow
    <3>3. /\ row.my \in Nat /\ row.rdfs \in Int
          /\ row.fti \in Int /\ row.lti \in Int /\ row.nti \in Int
          BY DEF NetRow
    <3> HIDE DEF newest
    <3> QED
        BY <1>1, <3>1, <3>2, <3>3 DEF NetRow
  <2>2. CASE ~(rep.lti >= row.lti)
        BY <2>2
  <2> QED
      BY <2>1, <2>2
<1>3. /\ newest.rdfs = row.rdfs /\ newest.my = row.my /\ newest.fti = row.fti
      /\ newest.lti = row.lti /\ newest.nti = row.nti
      BY DEF NetRow
<1>4. fti \in Int /\ lti \in Int
  <2>1. Earliest(row.fti, rep.fti) \in Int /\ Latest(row.lti, rep.lti) \in Int
        BY <1>1 DEF NetRow, Earliest, Latest
  <2> QED
      BY <2>1, StoredDateIsInt
<1>5. Collapsed(row, rep, timestamps) =
        [newest EXCEPT !.fti = StoredDate(Earliest(@, rep.fti), timestamps),
                       !.lti = StoredDate(Latest(@, rep.lti), timestamps),
                       !.nti = (IF @ = Null THEN 0 ELSE @) + rep.nti]
      BY DEF Collapsed
<1> DEFINE nti == (IF row.nti = Null THEN 0 ELSE row.nti) + rep.nti
<1>6. nti \in Int
      BY <1>1 DEF NetRow
<1> HIDE DEF newest, fti, lti, nti
<1>7. Collapsed(row, rep, timestamps) = [newest EXCEPT !.fti = fti, !.lti = lti, !.nti = nti]
      BY <1>3, <1>5 DEF fti, lti, nti
<1>8. Collapsed(row, rep, timestamps) \in NetRow
      BY <1>2, <1>4, <1>6, <1>7 DEF NetRow
<1>9. LET new == Collapsed(row, rep, timestamps)
      IN  /\ new.rdfs = row.rdfs /\ new.my = row.my
          /\ new.nti = nti /\ new.fti = fti /\ new.lti = lti
      BY <1>2, <1>3, <1>7 DEF NetRow
<1> QED
    BY <1>8, <1>9 DEF fti, lti, nti

\* The row of a new net is one.
LEMMA NewRowType ==
  ASSUME NEW rep \in Report, NEW my \in Nat
  PROVE  NewRow(rep, my) \in NetRow
BY DEF NewRow, Report, NetRow

\* assign_net keeps a table of nets one, and routes the report to one net.
LEMMA Routing ==
  ASSUME NEW members, NetTable(members), NEW spans, DOMAIN spans = DOMAIN members,
         NEW rep \in Report, NEW timestamps \in BOOLEAN,
         NEW routed \in AssignNet(members, spans, rep, timestamps)
  PROVE  NetTable(routed.members) /\ Routed(members, rep, routed)
<1> DEFINE cand == Candidates(members, spans, rep)
<1>1. CASE cand = {}
  <2>1. routed = SpawnNet(members, spans, rep)
        BY <1>1 DEF AssignNet
  <2> DEFINE n == NextNetId(members)
             row == NewRow(rep, NextMyNetId(members))
  <2>2. /\ routed.net = n /\ routed.action = "new"
        /\ routed.members = Insert(members, n, row)
        /\ routed.spans = Insert(spans, n, Band(rep))
        BY <2>1 DEF SpawnNet
  <2>3. row \in NetRow /\ n \in Nat /\ n >= SystemNetStart /\ n \notin DOMAIN members
    <3>1. \A m \in DOMAIN members : m \in Nat /\ m < n
          BY NewIds DEF NetTable
    <3> QED
        BY <3>1, NewIds, NewRowType
  <2>4. row.rdfs = rep.rdfs
        BY DEF NewRow
  <2> HIDE DEF n, row
  <2>5. IsFiniteSet(DOMAIN members \cup {n})
        BY FS_AddElement DEF NetTable
  <2>6. NetTable(routed.members)
        BY <2>2, <2>3, <2>5 DEF NetTable, Insert
  <2>7. Routed(members, rep, routed)
        BY <2>2, <2>3, <2>4 DEF Routed, Insert, n, row
  <2> QED
      BY <2>6, <2>7
<1>2. CASE cand # {}
  <2>1. PICK n \in Newest(members, cand) :
               routed = CollapseInto(members, spans, rep, timestamps, n)
        BY <1>2 DEF AssignNet
  <2>2. n \in DOMAIN members /\ members[n].rdfs = rep.rdfs /\ rep.rdfs # Null
        BY DEF Newest, Candidates, SameEmitter
  <2> DEFINE row == Collapsed(members[n], rep, timestamps)
  <2>3. /\ routed.net = n /\ routed.action = "collapsed"
        /\ routed.members = [members EXCEPT ![n] = row]
        /\ DOMAIN routed.spans = DOMAIN spans
        BY <2>1 DEF CollapseInto
  <2>4. members[n] \in NetRow
        BY <2>2 DEF NetTable
  <2>5. row \in NetRow /\ row.rdfs = rep.rdfs
        BY <2>2, <2>4, CollapsedRow
  <2>6. \E ts \in BOOLEAN : row = Collapsed(members[n], rep, ts)
        OBVIOUS
  <2> HIDE DEF row
  <2>7. NetTable(routed.members)
        BY <2>2, <2>3, <2>5 DEF NetTable
  <2>8. routed.members[n] = row
        BY <2>2, <2>3
  <2>9. Routed(members, rep, routed)
        BY <2>2, <2>3, <2>5, <2>6, <2>8 DEF Routed
  <2> QED
      BY <2>7, <2>9
<1> QED
    BY <1>1, <1>2
\* Every net has a count.
Sighted(nets) == NetTable(nets) /\ \A n \in DOMAIN nets : nets[n].nti \in Nat

\* The table with no row is a table of nets.
LEMMA NoNets == Sighted(EmptyTable)
BY FS_EmptySet DEF Sighted, NetTable, EmptyTable

\* Routing a report leaves the members a table in which every net has a count.
LEMMA RoutingKeepsCounts ==
  ASSUME NEW members, Sighted(members), NEW spans, DOMAIN spans = DOMAIN members,
         NEW rep \in Report, NEW timestamps \in BOOLEAN,
         NEW routed \in AssignNet(members, spans, rep, timestamps)
  PROVE  /\ Sighted(routed.members) /\ Routed(members, rep, routed)
         /\ LET n == routed.net
            IN  routed.members[n].nti =
                  (IF n \in DOMAIN members THEN members[n].nti ELSE 0) + rep.nti
<1>1. NetTable(routed.members) /\ Routed(members, rep, routed)
      BY Routing DEF Sighted
<1> DEFINE n == routed.net
<1>2. rep.nti \in Nat
      BY DEF Report
<1>3. CASE n \in DOMAIN members
  <2>1. members[n] \in NetRow /\ members[n].nti \in Nat
        BY <1>3 DEF Sighted, NetTable
  <2>2. PICK ts \in BOOLEAN : routed.members[n] = Collapsed(members[n], rep, ts)
        BY <1>1, <1>3 DEF Routed
  <2>3. routed.members[n].nti = (IF members[n].nti = Null THEN 0 ELSE members[n].nti) + rep.nti
        BY <2>1, <2>2, CollapsedRow
  <2> QED
      BY <1>1, <1>2, <1>3, <2>1, <2>3 DEF Sighted, Routed, Null
<1>4. CASE n \notin DOMAIN members
  <2>1. routed.members[n] = NewRow(rep, NextMyNetId(members))
        BY <1>1, <1>4 DEF Routed
  <2>2. routed.members[n].nti = rep.nti
        BY <2>1 DEF NewRow
  <2> QED
      BY <1>1, <1>2, <1>4, <2>2 DEF Sighted, Routed
<1> QED
    BY <1>3, <1>4
------------------------------------------------------------------------------
\* Counts of the log, and of entries still to be logged.

\* A log of sightings: finite, every row counts.
LogTable(log) == IsFiniteSet(DOMAIN log) /\ \A k \in DOMAIN log : log[k].nti \in Nat

\* The sum of the sightings a log has of net n.
Logged(log, n) == SumOfLog(log, {k \in DOMAIN log : k[1] = n})

\* What is logged for a net is a count.
LEMMA LoggedIsNat ==
  ASSUME NEW log, LogTable(log), NEW n
  PROVE  Logged(log, n) \in Nat
<1> DEFINE S == {k \in DOMAIN log : k[1] = n}
<1>1. IsFiniteSet(S) /\ \A k \in S : log[k].nti \in Nat
      BY FS_Subset DEF LogTable
<1> HIDE DEF S
<1>2. SumOfLog(log, S) \in Nat
      BY <1>1, SumIsNat
<1> QED
    BY <1>2 DEF Logged, S

\* A net without log rows has none.
LEMMA NothingLogged ==
  ASSUME NEW log, NEW n, \A k \in DOMAIN log : k[1] # n
  PROVE  Logged(log, n) = 0
<1>1. {k \in DOMAIN log : k[1] = n} = {}
      OBVIOUS
<1> QED
    BY <1>1, SumOfNothing DEF Logged

\* An INSERT into the log adds the row's count to what is logged for its net, unless
\* it replaces a row of the same key.
LEMMA LoggedInsert ==
  ASSUME NEW log, LogTable(log), NEW key, NEW row, row.nti \in Nat, NEW n
  PROVE  /\ LogTable(Insert(log, key, row))
         /\ key[1] # n => Logged(Insert(log, key, row), n) = Logged(log, n)
         /\ key[1] = n => Logged(Insert(log, key, row), n) <= Logged(log, n) + row.nti
         /\ key[1] = n /\ key \notin DOMAIN log =>
              Logged(Insert(log, key, row), n) = Logged(log, n) + row.nti
<1> DEFINE new == Insert(log, key, row)
           S == {k \in DOMAIN log : k[1] = n}
           R == {k \in DOMAIN new : k[1] = n}
           rest == S \ {key}
<1>1. /\ DOMAIN new = DOMAIN log \cup {key}
      /\ new[key] = row /\ \A k \in DOMAIN log \ {key} : new[k] = log[k]
      BY DEF Insert
<1>2. LogTable(new)
  <2>1. IsFiniteSet(DOMAIN log \cup {key})
        BY FS_AddElement DEF LogTable
  <2> HIDE DEF new
  <2> QED
      BY <1>1, <2>1 DEF LogTable
<1> HIDE DEF new
<1>3. IsFiniteSet(S) /\ IsFiniteSet(rest)
      BY FS_Subset DEF LogTable
<1>4. SumOfLog(new, rest) = SumOfLog(log, rest) /\ SumOfLog(log, rest) \in Nat
  <2>1. \A k \in rest : log[k].nti \in Nat /\ new[k].nti = log[k].nti
        BY <1>1 DEF LogTable
  <2> HIDE DEF rest
  <2> QED
      BY <1>3, <2>1, SumOfSame, SumIsNat
<1>5. CASE key[1] # n
  <2>1. R = rest /\ S = rest
        BY <1>1, <1>5
  <2> HIDE DEF S, R, rest
  <2>2. SumOfLog(new, R) = SumOfLog(log, S)
        BY <1>4, <2>1
  <2> QED
      BY <1>2, <1>5, <2>2 DEF Logged, new, S, R
<1>6. CASE key[1] = n
  <2>1. R = rest \cup {key} /\ key \notin rest
        BY <1>1, <1>6
  <2>2. \A k \in rest \cup {key} : new[k].nti \in Nat
        BY <1>1 DEF LogTable
  <2>3. SumOfLog(new, R) = SumOfLog(log, rest) + row.nti
    <3> HIDE DEF rest, R
    <3> QED
        BY <1>1, <1>3, <1>4, <2>1, <2>2, SumOfMore
  <2>4. CASE key \notin DOMAIN log
    <3>1. S = rest
          BY <2>4
    <3> HIDE DEF S, R, rest
    <3>2. SumOfLog(new, R) = SumOfLog(log, S) + row.nti /\ SumOfLog(log, S) \in Nat
          BY <1>4, <2>3, <3>1
    <3>3. Logged(new, n) = Logged(log, n) + row.nti /\ Logged(log, n) \in Nat
          BY <3>2 DEF Logged, R, S
    <3> QED
        BY <1>2, <1>6, <3>3 DEF new
  <2>5. CASE key \in DOMAIN log
    <3>1. S = rest \cup {key} /\ \A k \in rest \cup {key} : log[k].nti \in Nat
          BY <1>6, <2>5 DEF LogTable
    <3>2. SumOfLog(log, S) = SumOfLog(log, rest) + log[key].nti
      <4> HIDE DEF rest, S
      <4> QED
          BY <1>3, <2>1, <3>1, SumOfMore
    <3>3. log[key].nti \in Nat
          BY <2>5 DEF LogTable
    <3> HIDE DEF S, R, rest
    <3>4. SumOfLog(new, R) <= SumOfLog(log, S) + row.nti
          BY <1>4, <2>3, <3>2, <3>3
    <3>5. Logged(new, n) <= Logged(log, n) + row.nti
          BY <3>4 DEF Logged, R, S
    <3> QED
        BY <1>2, <1>6, <2>5, <3>5 DEF new
  <2> QED
      BY <2>4, <2>5
<1> QED
    BY <1>5, <1>6

\* The log rows that a sequence of entries holds.
RowsOf(es) == [i \in DOMAIN es |-> es[i].row]

\* The sum of the sightings of net n among entries still to be logged.
Pending(es, n) == SumOfLog(RowsOf(es), {i \in DOMAIN es : es[i].net = n})

\* What one entry adds to it.
Count(entry, n) == IF entry.net = n THEN entry.row.nti ELSE 0

\* What a run has still to log for a net is a count.
LEMMA PendingIsNat ==
  ASSUME NEW S, NEW es \in Seq(S), \A i \in 1..Len(es) : es[i].row.nti \in Nat, NEW n
  PROVE  Pending(es, n) \in Nat
<1> DEFINE I == {i \in DOMAIN es : es[i].net = n}
<1>1. DOMAIN es = 1..Len(es) /\ Len(es) \in Nat
      BY LenProperties
<1>2. IsFiniteSet(I)
  <2>1. IsFiniteSet(1..Len(es))
        BY <1>1, FS_Interval
  <2> QED
      BY <1>1, <2>1, FS_Subset
<1>3. \A i \in I : RowsOf(es)[i].nti \in Nat
      BY <1>1 DEF RowsOf
<1> HIDE DEF I
<1>4. SumOfLog(RowsOf(es), I) \in Nat
      BY <1>2, <1>3, SumIsNat
<1> QED
    BY <1>4 DEF Pending, I

\* No entry, no count.
LEMMA NothingPending == \A n : Pending(<<>>, n) = 0
<1> TAKE n
<1>1. {i \in DOMAIN <<>> : <<>>[i].net = n} = {}
      OBVIOUS
<1> QED
    BY <1>1, SumOfNothing DEF Pending

\* Folding a report adds its count to what is to be logged for the net it went to.
LEMMA PendingAppend ==
  ASSUME NEW S, NEW es \in Seq(S), \A i \in 1..Len(es) : es[i].row.nti \in Nat,
         NEW entry \in S, entry.row.nti \in Nat, NEW n
  PROVE  Pending(Append(es, entry), n) = Pending(es, n) + Count(entry, n)
<1> DEFINE new == Append(es, entry)
           l == Len(es)
           I == {i \in DOMAIN es : es[i].net = n}
           J == {i \in DOMAIN new : new[i].net = n}
<1>1. /\ DOMAIN es = 1..l /\ l \in Nat /\ DOMAIN new = 1..(l + 1)
      /\ \A i \in 1..l : new[i] = es[i]
      /\ new[l + 1] = entry
  <2>1. l \in Nat /\ DOMAIN es = 1..l
        BY LenProperties
  <2>2. new \in Seq(S) /\ Len(new) = l + 1
        BY AppendProperties
  <2>3. DOMAIN new = 1..(l + 1)
        BY <2>2, LenProperties
  <2> QED
      BY <2>1, <2>3, AppendProperties
<1> HIDE DEF new, l
<1>2. IsFiniteSet(I)
  <2>1. IsFiniteSet(1..l)
        BY <1>1, FS_Interval
  <2> QED
      BY <1>1, <2>1, FS_Subset
<1>3. /\ \A i \in I : RowsOf(es)[i].nti \in Nat
      /\ \A i \in I : RowsOf(new)[i].nti = RowsOf(es)[i].nti
      /\ RowsOf(new)[l + 1] = entry.row
      BY <1>1 DEF RowsOf, l
<1>4. l + 1 \notin I /\ J = IF entry.net = n THEN I \cup {l + 1} ELSE I
  <2>1. 1..(l + 1) = 1..l \cup {l + 1} /\ l + 1 \notin 1..l
        BY <1>1
  <2> QED
      BY <1>1, <2>1
<1> HIDE DEF I, J
<1>5. SumOfLog(RowsOf(new), I) = SumOfLog(RowsOf(es), I) /\ SumOfLog(RowsOf(es), I) \in Nat
      BY <1>2, <1>3, SumOfSame, SumIsNat
<1>6. CASE entry.net = n
  <2>1. \A i \in I \cup {l + 1} : RowsOf(new)[i].nti \in Nat
        BY <1>3
  <2>2. SumOfLog(RowsOf(new), I \cup {l + 1}) = SumOfLog(RowsOf(new), I) + RowsOf(new)[l + 1].nti
        BY <1>2, <1>4, <2>1, SumOfMore
  <2> QED
      BY <1>3, <1>4, <1>5, <1>6, <2>2 DEF Pending, Count, I, J, new
<1>7. CASE entry.net # n
  <2>1. SumOfLog(RowsOf(new), J) = SumOfLog(RowsOf(es), I) + 0
        BY <1>4, <1>5, <1>7
  <2> QED
      BY <1>7, <2>1 DEF Pending, Count, I, J, new
<1> QED
    BY <1>6, <1>7

\* Logging the first entry takes its count off.
LEMMA PendingHead ==
  ASSUME NEW S, NEW es \in Seq(S), es # <<>>,
         \A i \in 1..Len(es) : es[i].row.nti \in Nat, NEW n
  PROVE  Pending(es, n) = Pending(Tail(es), n) + Count(Head(es), n)
<1> DEFINE rest == Tail(es)
           l == Len(es)
           I == {i \in DOMAIN es : es[i].net = n}
           J == {i \in DOMAIN rest : rest[i].net = n}
           Up == {i + 1 : i \in J}
<1>1. /\ DOMAIN es = 1..l /\ l \in Nat /\ l >= 1 /\ DOMAIN rest = 1..(l - 1)
      /\ \A i \in 1..(l - 1) : rest[i] = es[i + 1]
      /\ Head(es) = es[1]
  <2>1. l \in Nat /\ DOMAIN es = 1..l
        BY LenProperties
  <2>2. l # 0
        BY EmptySeq, <2>1
  <2>3. rest \in Seq(S) /\ Len(rest) = l - 1 /\ \A i \in 1..Len(rest) : rest[i] = es[i + 1]
        BY HeadTailProperties
  <2>4. DOMAIN rest = 1..(l - 1)
        BY <2>3, LenProperties
  <2> QED
      BY <2>1, <2>2, <2>3, <2>4
<1> HIDE DEF rest, l
<1>2. IsFiniteSet(J)
  <2>1. IsFiniteSet(1..(l - 1))
        BY <1>1, FS_Interval
  <2> QED
      BY <1>1, <2>1, FS_Subset
<1>3. /\ \A i \in J : RowsOf(rest)[i].nti \in Nat
      /\ \A i \in J : i \in Nat /\ RowsOf(es)[i + 1].nti = RowsOf(rest)[i].nti
  <2>1. \A i \in J : i \in 1..(l - 1) /\ i + 1 \in 1..l /\ rest[i] = es[i + 1]
        BY <1>1
  <2> QED
      BY <1>1, <2>1 DEF RowsOf, l
<1>4. 1 \notin Up /\ I = IF Head(es).net = n THEN Up \cup {1} ELSE Up
  <2>1. ASSUME NEW i \in 1..l, i # 1 PROVE i \in I <=> i \in Up
    <3>1. i - 1 \in 1..(l - 1) /\ rest[i - 1] = es[i] /\ i - 1 + 1 = i
          BY <1>1, <2>1
    <3>2. i \in I => i - 1 \in J
          BY <1>1, <3>1
    <3>3. ASSUME NEW j \in J, j + 1 = i PROVE i \in I
      <4>1. j = i - 1
            BY <1>1, <3>1, <3>3
      <4> QED
          BY <1>1, <3>1, <4>1
    <3> QED
        BY <3>2, <3>3
  <2>2. \A j \in J : j + 1 \in 1..l /\ j + 1 # 1
        BY <1>1
  <2>3. 1 \in 1..l /\ I \subseteq 1..l /\ (1 \in I <=> Head(es).net = n)
        BY <1>1
  <2> HIDE DEF I, J
  <2> QED
      BY <2>1, <2>2, <2>3
<1> HIDE DEF I, J
<1>5. /\ IsFiniteSet(Up)
      /\ SumOfLog(RowsOf(es), Up) = SumOfLog(RowsOf(rest), J)
      /\ SumOfLog(RowsOf(rest), J) \in Nat
  <2>1. SumOfLog(RowsOf(rest), J) \in Nat
        BY <1>2, <1>3, SumIsNat
  <2>2. J \subseteq Nat
        BY <1>3
  <2>3. /\ IsFiniteSet(Up)
        /\ SumOfLog(RowsOf(es), Up) = SumOfLog(RowsOf(rest), J)
        BY ONLY <1>2, <1>3, <2>2, SumOfShifted
  <2> QED
      BY <2>1, <2>3
<1>6. CASE Head(es).net = n
  <2>2. RowsOf(es)[1] = Head(es).row /\ 1 \in 1..Len(es)
        BY <1>1 DEF RowsOf, l
  <2>4. \A i \in Up : RowsOf(es)[i].nti \in Nat
        BY <1>3
  <2>1. \A i \in Up \cup {1} : RowsOf(es)[i].nti \in Nat
        BY <1>1, <2>2, <2>4
  <2> HIDE DEF Up
  <2>3. SumOfLog(RowsOf(es), Up \cup {1}) = SumOfLog(RowsOf(es), Up) + RowsOf(es)[1].nti
        BY <1>4, <1>5, <2>1, SumOfMore
  <2> QED
      BY <1>4, <1>5, <1>6, <2>2, <2>3 DEF Pending, Count, I, J, rest
<1>7. CASE Head(es).net # n
  <2>1. SumOfLog(RowsOf(es), I) = SumOfLog(RowsOf(rest), J) + 0
        BY <1>4, <1>5, <1>7
  <2> QED
      BY <1>7, <2>1 DEF Pending, Count, I, J, rest
<1> QED
    BY <1>6, <1>7
==============================================================================
