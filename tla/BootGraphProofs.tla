-------------------------- MODULE BootGraphProofs ---------------------------
(***************************************************************************)
(* Proofs that parse_boot_graph computes what boot.toml says, for every    *)
(* text, any number of lines, services and dependencies, and any limits.   *)
(* What its loops compute is proved by induction over the lines of a text  *)
(* and over the items of a list.  A set takes the place of the predicate   *)
(* that is proved, and the induction is by its least counterexample.       *)
(***************************************************************************)
EXTENDS BootText, FiniteSetTheorems, WellFoundedInduction, TLAPS

(* A non-empty set of natural numbers has a least element, and Min is it:  *)
(* a search for the first match returns it.                                *)
LEMMA MinIsLeast ==
  ASSUME NEW S \in SUBSET Nat, S # {}
  PROVE  Min(S) \in S /\ \A y \in S : Min(S) <= y
  <1>1. IsWellFoundedOn(OpToRel(<, Nat), Nat)
    BY NatLessThanWellFounded
  <1>2. PICK x \in S : \A y \in S : ~(<<y, x>> \in OpToRel(<, Nat))
    BY <1>1, WFMin
  <1>3. ASSUME NEW y \in S PROVE x <= y
    <2>1. y < x => <<y, x>> \in OpToRel(<, Nat)
      <3>1. <<y, x>> \in Nat \X Nat /\ <<y, x>>[1] = y /\ <<y, x>>[2] = x
        OBVIOUS
      <3> QED BY <3>1, Zenon DEF OpToRel
    <2>2. ~(y < x)
      BY <1>2, <2>1, Zenon
    <2> QED BY <2>2
  <1> QED
    BY <1>2, <1>3 DEF Min

(* A bounded non-empty set of natural numbers has a greatest element, and  *)
(* Max is it.                                                              *)
LEMMA MaxIsGreatest ==
  ASSUME NEW S \in SUBSET Nat, S # {}, NEW b \in Nat, \A y \in S : y <= b
  PROVE  Max(S) \in S /\ \A y \in S : y <= Max(S)
  <1> DEFINE B == {n \in Nat : \A y \in S : y <= n}
  <1>1. Min(B) \in B /\ \A n \in B : Min(B) <= n
    <2>1. B \in SUBSET Nat /\ b \in B
      OBVIOUS
    <2> HIDE DEF B
    <2> QED BY <2>1, MinIsLeast
  <1>2. PICK m \in B : \A n \in B : m <= n
    BY <1>1, Zenon
  <1>3. m \in S
    <2> SUFFICES ASSUME m \notin S PROVE FALSE
      OBVIOUS
    <2>1. PICK y \in S : TRUE
      OBVIOUS
    <2>2. m - 1 \in Nat /\ \A z \in S : z <= m - 1
      BY <1>2, <2>1
    <2>3. m - 1 \in B
      BY <2>2
    <2>4. m <= m - 1
      BY <1>2, <2>3, Zenon
    <2> QED BY <2>2, <2>4, <1>2
  <1>4. \E x \in S : \A y \in S : x >= y
    BY <1>2, <1>3
  <1>5. Max(S) \in S /\ \A y \in S : Max(S) >= y
    BY <1>4, Zenon DEF Max
  <1> QED BY <1>5

(* Induction over the naturals.                                            *)
LEMMA SetInduction ==
  ASSUME NEW S, 0 \in S, \A n \in Nat : n \in S => n + 1 \in S
  PROVE  Nat \subseteq S
  <1> DEFINE T == Nat \ S
  <1> SUFFICES ASSUME T # {} PROVE FALSE
    OBVIOUS
  <1>1. Min(T) \in T /\ \A y \in T : Min(T) <= y
    BY MinIsLeast, T \in SUBSET Nat
  <1>2. PICK m \in T : \A y \in T : m <= y
    BY <1>1, Zenon
  <1>3. m \in Nat /\ m \notin S /\ m # 0
    BY <1>2
  <1>4. m - 1 \in Nat /\ m - 1 \notin T /\ m = (m - 1) + 1
    BY <1>2, <1>3
  <1> QED BY <1>3, <1>4

(* What appending does.                                                    *)
LEMMA AppendFacts ==
  ASSUME NEW X, NEW s \in Seq(X), NEW x \in X
  PROVE  /\ Len(s) \in Nat /\ Append(s, x) \in Seq(X) /\ Len(Append(s, x)) = Len(s) + 1
         /\ DOMAIN s = 1 .. Len(s) /\ DOMAIN Append(s, x) = DOMAIN s \cup {Len(s) + 1}
         /\ \A n \in DOMAIN s : Append(s, x)[n] = s[n]
         /\ Append(s, x)[Len(s) + 1] = x
  OBVIOUS

(* Induction over sequences that grow at the end.                          *)
LEMMA SeqInduction ==
  ASSUME NEW X, NEW S, <<>> \in S, \A s \in Seq(X), x \in X : s \in S => Append(s, x) \in S
  PROVE  Seq(X) \subseteq S
  <1> DEFINE T == {n \in Nat : \A s \in Seq(X) : Len(s) = n => s \in S}
  <1>1. 0 \in T
    <2>1. \A s \in Seq(X) : Len(s) = 0 => s = <<>>
      OBVIOUS
    <2> QED BY <2>1
  <1>2. ASSUME NEW n \in Nat, n \in T PROVE n + 1 \in T
    <2> SUFFICES ASSUME NEW s \in Seq(X), Len(s) = n + 1 PROVE s \in S
      OBVIOUS
    <2> DEFINE front == SubSeq(s, 1, n)
    <2>1. front \in Seq(X) /\ Len(front) = n /\ s[n + 1] \in X
      OBVIOUS
    <2>2. s = Append(front, s[n + 1])
      OBVIOUS
    <2> HIDE DEF front
    <2>3. front \in S
      BY <1>2, <2>1
    <2> QED BY <2>1, <2>2, <2>3
  <1> HIDE DEF T
  <1>3. Nat \subseteq T
    BY <1>1, <1>2, SetInduction
  <1> QED BY <1>3 DEF T

-----------------------------------------------------------------------------
(* g[n] is what the loop over the lines has computed after n of them.      *)
IsLoop(g, t) ==
  /\ DOMAIN g = 0 .. Len(t) /\ g[0] = [out |-> <<>>, cur |-> EmptySpec]
  /\ \A n \in 1 .. Len(t) : g[n] = ParseLine(g[n - 1], t[n])

(* There is such a function.                                               *)
LEMMA LoopExists ==
  ASSUME NEW t \in Seq(Lines)
  PROVE  \E g : g = [n \in 0 .. Len(t) |->
                       IF n = 0 THEN [out |-> <<>>, cur |-> EmptySpec]
                       ELSE ParseLine(g[n - 1], t[n])]
  <1> DEFINE F(g, n) == IF n = 0 THEN [out |-> <<>>, cur |-> EmptySpec]
                        ELSE ParseLine(g[n - 1], t[n])
             S == {m \in Nat : \E g : g = [n \in 0 .. m |-> F(g, n)]}
  <1>1. 0 \in S
    <2> DEFINE g == [n \in 0 .. 0 |-> [out |-> <<>>, cur |-> EmptySpec]]
    <2>1. g = [n \in 0 .. 0 |-> F(g, n)]
      OBVIOUS
    <2> QED BY <2>1
  <1>2. ASSUME NEW m \in Nat, m \in S PROVE m + 1 \in S
    <2>1. PICK g : g = [n \in 0 .. m |-> F(g, n)]
      BY <1>2
    <2> DEFINE h == [n \in 0 .. m + 1 |-> IF n = m + 1 THEN ParseLine(g[m], t[m + 1]) ELSE g[n]]
    <2>2. \A n \in 0 .. m : h[n] = g[n]
      OBVIOUS
    <2>3. ASSUME NEW n \in 0 .. m + 1 PROVE h[n] = F(h, n)
      <3>1. CASE n = m + 1
        BY <3>1, <2>2
      <3>2. CASE n \in 0 .. m
        <4>1. h[n] = F(g, n)
          BY <2>1, <2>2, <3>2, Zenon
        <4>2. n # 0 => n - 1 \in 0 .. m
          BY <3>2
        <4> QED BY <4>1, <4>2, <2>2
      <3> QED BY <3>1, <3>2
    <2>4. h = [n \in 0 .. m + 1 |-> F(h, n)]
      <3> HIDE DEF F
      <3> QED BY <2>3
    <2> HIDE DEF h, F
    <2> QED BY <2>4
  <1>3. Nat \subseteq S
    <2> HIDE DEF S
    <2> QED BY <1>1, <1>2, SetInduction
  <1> QED BY <1>3

(* The recursive function has the values that its definition says.         *)
LEMMA LoopValues ==
  ASSUME NEW t \in Seq(Lines)
  PROVE  \E g : IsLoop(g, t) /\ Parsed(t) = g[Len(t)]
  <1> DEFINE F(g) == [n \in 0 .. Len(t) |-> IF n = 0 THEN [out |-> <<>>, cur |-> EmptySpec]
                                            ELSE ParseLine(g[n - 1], t[n])]
             f == CHOOSE g : g = F(g)
  <1>1. f = F(f)
    <2>1. \E g : g = F(g)
      BY LoopExists
    <2> HIDE DEF F
    <2> QED BY <2>1, Zenon
  <1>2. Parsed(t) = f[Len(t)]
    BY DEF Parsed
  <1> HIDE DEF f
  <1>3. DOMAIN f = 0 .. Len(t) /\ f[0] = [out |-> <<>>, cur |-> EmptySpec]
    BY <1>1
  <1>4. \A n \in 1 .. Len(t) : f[n] = ParseLine(f[n - 1], t[n])
    BY <1>1
  <1> QED BY <1>2, <1>3, <1>4, Zenon DEF IsLoop

(* Nothing is read of an empty text.                                       *)
LEMMA ParsedEmpty == Parsed(<<>>) = [out |-> <<>>, cur |-> EmptySpec]
  <1>1. <<>> \in Seq(Lines) /\ Len(<<>>) = 0
    OBVIOUS
  <1>2. PICK g : IsLoop(g, <<>>) /\ Parsed(<<>>) = g[Len(<<>>)]
    BY <1>1, LoopValues
  <1> QED BY <1>1, <1>2, Zenon DEF IsLoop

(* The last line of a text is read when what comes before it has been.     *)
LEMMA ParsedAppend ==
  ASSUME NEW t \in Seq(Lines), NEW line \in Lines
  PROVE  Parsed(Append(t, line)) = ParseLine(Parsed(t), line)
  <1> DEFINE u == Append(t, line)
  <1>1. /\ u \in Seq(Lines) /\ Len(t) \in Nat /\ Len(u) = Len(t) + 1 /\ u[Len(t) + 1] = line
        /\ \A n \in 1 .. Len(t) : u[n] = t[n]
    BY AppendFacts
  <1> HIDE DEF u
  <1>2. PICK f : IsLoop(f, t) /\ Parsed(t) = f[Len(t)]
    BY LoopValues
  <1>3. PICK g : IsLoop(g, u) /\ Parsed(u) = g[Len(u)]
    BY <1>1, LoopValues
  <1> DEFINE S == {n \in Nat : n <= Len(t) => g[n] = f[n]}
  <1>4. 0 \in S
    BY <1>2, <1>3, Zenon DEF IsLoop
  <1>5. ASSUME NEW n \in Nat, n \in S PROVE n + 1 \in S
    <2> SUFFICES ASSUME n + 1 <= Len(t) PROVE g[n + 1] = f[n + 1]
      OBVIOUS
    <2>1. g[n] = f[n] /\ n + 1 \in 1 .. Len(t) /\ n + 1 \in 1 .. Len(u) /\ (n + 1) - 1 = n
      BY <1>1, <1>5
    <2>2. u[n + 1] = t[n + 1]
      BY <1>1, <2>1
    <2>3. g[n + 1] = ParseLine(g[n], u[n + 1]) /\ f[n + 1] = ParseLine(f[n], t[n + 1])
      BY <1>2, <1>3, <2>1 DEF IsLoop
    <2> QED BY <2>1, <2>2, <2>3
  <1>6. g[Len(t)] = f[Len(t)]
    <2>1. Nat \subseteq S
      <3> HIDE DEF S
      <3> QED BY <1>4, <1>5, SetInduction
    <2> QED BY <1>1, <2>1
  <1>7. g[Len(t) + 1] = ParseLine(g[Len(t)], line)
    <2>1. Len(t) + 1 \in 1 .. Len(u) /\ (Len(t) + 1) - 1 = Len(t)
      BY <1>1
    <2> QED BY <1>1, <1>3, <2>1 DEF IsLoop
  <1>8. Parsed(u) = ParseLine(Parsed(t), line)
    BY <1>1, <1>2, <1>3, <1>6, <1>7
  <1> QED BY <1>8 DEF u

(* Finite sets of naturals: the place of a member among the others.        *)
LEMMA RankFacts ==
  ASSUME NEW S \in SUBSET Nat, IsFiniteSet(S)
  PROVE  /\ Cardinality(S) \in Nat
         /\ \A p \in S : Rank(S, p) \in 1 .. Cardinality(S)
         /\ \A p, q \in S : p < q => Rank(S, p) < Rank(S, q)
  <1> DEFINE U(p) == {q \in S : q <= p}
  <1>1. Cardinality(S) \in Nat
    BY FS_CardinalityType
  <1>2. ASSUME NEW p \in S
        PROVE  IsFiniteSet(U(p)) /\ Cardinality(U(p)) \in 1 .. Cardinality(S)
    <2>1. U(p) \in SUBSET S /\ p \in U(p)
      OBVIOUS
    <2> HIDE DEF U
    <2>2. IsFiniteSet(U(p)) /\ Cardinality(U(p)) <= Cardinality(S)
      BY <2>1, FS_Subset
    <2>3. Cardinality(U(p)) \in Nat /\ Cardinality(U(p)) # 0
      BY <2>1, <2>2, FS_CardinalityType, FS_EmptySet
    <2> QED BY <1>1, <2>2, <2>3
  <1>3. ASSUME NEW p \in S, NEW q \in S, p < q PROVE Cardinality(U(p)) < Cardinality(U(q))
    <2>0. q <= q /\ ~(q <= p) /\ \A r \in S : r <= p => r <= q
      BY <1>3
    <2>1. U(p) \in SUBSET U(q) /\ q \in U(q) /\ q \notin U(p)
      BY <2>0
    <2>2. IsFiniteSet(U(q)) /\ Cardinality(U(p)) \in Nat /\ Cardinality(U(q)) \in Nat
      BY <1>1, <1>2
    <2> HIDE DEF U
    <2>3. Cardinality(U(p)) <= Cardinality(U(q)) /\ Cardinality(U(p)) # Cardinality(U(q))
      BY <2>1, <2>2, FS_Subset
    <2> QED BY <2>2, <2>3
  <1> QED BY <1>1, <1>2, <1>3 DEF Rank

(* A member greater than all others comes last.                            *)
LEMMA RankAdd ==
  ASSUME NEW S \in SUBSET Nat, IsFiniteSet(S), NEW c \in Nat, \A p \in S : p < c
  PROVE  /\ S \cup {c} \in SUBSET Nat /\ IsFiniteSet(S \cup {c})
         /\ Cardinality(S \cup {c}) = Cardinality(S) + 1
         /\ Rank(S \cup {c}, c) = Cardinality(S) + 1
         /\ \A p \in S : Rank(S \cup {c}, p) = Rank(S, p)
  <1>1. c \notin S
    OBVIOUS
  <1>2. IsFiniteSet(S \cup {c}) /\ Cardinality(S \cup {c}) = Cardinality(S) + 1
    BY <1>1, FS_AddElement
  <1>3. {q \in S \cup {c} : q <= c} = S \cup {c}
    <2>1. \A q \in S \cup {c} : q <= c
      OBVIOUS
    <2> QED BY <2>1, Zenon
  <1>4. \A p \in S : {q \in S \cup {c} : q <= p} = {q \in S : q <= p}
    OBVIOUS
  <1> QED BY <1>2, <1>3, <1>4 DEF Rank

(* There are as many leading members as there is room for.                 *)
Filled(S, max) ==
  Cardinality(Leading(S, max)) = IF Cardinality(S) < max THEN Cardinality(S) ELSE max

(* The leading members of a finite set are a finite set.                   *)
LEMMA LeadingFacts ==
  ASSUME NEW S \in SUBSET Nat, IsFiniteSet(S), NEW max
  PROVE  /\ Leading(S, max) \in SUBSET S /\ Leading(S, max) \in SUBSET Nat
         /\ IsFiniteSet(Leading(S, max)) /\ Cardinality(Leading(S, max)) \in Nat
  <1>1. Leading(S, max) \in SUBSET S
    BY DEF Leading
  <1> QED BY <1>1, FS_Subset, FS_CardinalityType

(* A member greater than all others leads if there is room.                *)
LEMMA LeadingAdd ==
  ASSUME NEW S \in SUBSET Nat, IsFiniteSet(S), NEW c \in Nat, \A p \in S : p < c,
         NEW max \in Nat, Filled(S, max)
  PROVE  /\ Leading(S \cup {c}, max) =
              IF Cardinality(Leading(S, max)) >= max THEN Leading(S, max) ELSE Leading(S, max) \cup {c}
         /\ Filled(S \cup {c}, max)
  <1> DEFINE L == Leading(S, max)
  <1>1. /\ Cardinality(S \cup {c}) = Cardinality(S) + 1 /\ Rank(S \cup {c}, c) = Cardinality(S) + 1
        /\ \A p \in S : Rank(S \cup {c}, p) = Rank(S, p)
    BY RankAdd
  <1>2. Cardinality(S) \in Nat /\ c \notin S
    BY RankFacts
  <1>3. L \in SUBSET S /\ IsFiniteSet(L) /\ Cardinality(L) \in Nat
    BY LeadingFacts
  <1>4. Leading(S \cup {c}, max) = IF Cardinality(S) + 1 <= max THEN L \cup {c} ELSE L
    BY <1>1, <1>2 DEF Leading
  <1>5. Cardinality(L \cup {c}) = Cardinality(L) + 1
    BY <1>2, <1>3, FS_AddElement
  <1>6. Cardinality(L) = IF Cardinality(S) < max THEN Cardinality(S) ELSE max
    BY DEF Filled
  <1> HIDE DEF L
  <1>7. Cardinality(L) >= max <=> ~(Cardinality(S) + 1 <= max)
    BY <1>2, <1>3, <1>6
  <1>8. Filled(S \cup {c}, max)
    BY <1>1, <1>2, <1>3, <1>4, <1>5, <1>6 DEF Filled
  <1> QED BY <1>4, <1>7, <1>8 DEF L

(* out lists the values of f on S, in the order of the arguments.          *)
Lists(out, S, f) ==
  /\ Len(out) = Cardinality(S)
  /\ \A p \in S : out[Rank(S, p)] = f[p]
  /\ \A n \in DOMAIN out : \E p \in S : n = Rank(S, p)

(* The empty list lists nothing.                                           *)
LEMMA ListsEmpty == ASSUME NEW f PROVE Lists(<<>>, {}, f)
  BY FS_EmptySet DEF Lists

(* Appending the value of a greater argument lists that one too.           *)
LEMMA ListsAdd ==
  ASSUME NEW X, NEW out \in Seq(X), NEW f, NEW S \in SUBSET Nat, IsFiniteSet(S), Lists(out, S, f),
         NEW c \in Nat, \A p \in S : p < c, NEW x \in X, f[c] = x
  PROVE  Lists(Append(out, x), S \cup {c}, f)
  <1> DEFINE new == Append(out, x)
             T == S \cup {c}
  <1>1. /\ Cardinality(T) = Cardinality(S) + 1 /\ Rank(T, c) = Cardinality(S) + 1
        /\ \A p \in S : Rank(T, p) = Rank(S, p)
    BY RankAdd
  <1>2. \A p \in S : Rank(S, p) \in 1 .. Cardinality(S)
    BY RankFacts
  <1>3. /\ Len(out) \in Nat /\ Len(new) = Len(out) + 1 /\ new[Len(out) + 1] = x
        /\ DOMAIN new = 1 .. Len(out) + 1 /\ DOMAIN out = 1 .. Len(out)
        /\ \A n \in 1 .. Len(out) : new[n] = out[n]
    OBVIOUS
  <1> HIDE DEF new
  <1>4. /\ Len(out) = Cardinality(S) /\ \A p \in S : out[Rank(S, p)] = f[p]
        /\ \A n \in DOMAIN out : \E p \in S : n = Rank(S, p)
    BY DEF Lists
  <1>5. Len(new) = Cardinality(T)
    BY <1>1, <1>3, <1>4
  <1>6. ASSUME NEW p \in T PROVE new[Rank(T, p)] = f[p]
    <2>1. CASE p = c
      BY <2>1, <1>1, <1>3, <1>4
    <2>2. CASE p \in S
      BY <2>2, <1>1, <1>2, <1>3, <1>4
    <2> QED BY <2>1, <2>2
  <1>7. ASSUME NEW n \in DOMAIN new PROVE \E p \in T : n = Rank(T, p)
    <2>1. CASE n = Len(out) + 1
      BY <2>1, <1>1, <1>4
    <2>2. CASE n \in DOMAIN out
      <3>1. PICK p \in S : n = Rank(S, p)
        BY <2>2, <1>4
      <3> QED BY <3>1, <1>1
    <2>3. n = Len(out) + 1 \/ n \in DOMAIN out
      BY <1>3
    <2> QED BY <2>1, <2>2, <2>3
  <1>8. Lists(new, T, f)
    BY <1>5, <1>6, <1>7, Zenon DEF Lists
  <1> QED BY <1>8 DEF new

(* Only the values on S matter.                                            *)
LEMMA ListsSame ==
  ASSUME NEW out, NEW S, NEW f, NEW g, Lists(out, S, f), \A p \in S : g[p] = f[p]
  PROVE  Lists(out, S, g)
  BY DEF Lists

(* The loop of parse_dep_list over the items of a value, in the same way.  *)
IsDepLoop(g, t) ==
  /\ DOMAIN g = 0 .. Len(t) /\ g[0] = <<>>
  /\ \A n \in 1 .. Len(t) : g[n] = AddDep(g[n - 1], t[n])

(* There is such a function.                                               *)
LEMMA DepLoopExists ==
  ASSUME NEW t \in Seq(Word)
  PROVE  \E g : g = [n \in 0 .. Len(t) |->
                       IF n = 0 THEN <<>>
                       ELSE AddDep(g[n - 1], t[n])]
  <1> DEFINE F(g, n) == IF n = 0 THEN <<>>
                        ELSE AddDep(g[n - 1], t[n])
             S == {m \in Nat : \E g : g = [n \in 0 .. m |-> F(g, n)]}
  <1>1. 0 \in S
    <2> DEFINE g == [n \in 0 .. 0 |-> <<>>]
    <2>1. g = [n \in 0 .. 0 |-> F(g, n)]
      OBVIOUS
    <2> QED BY <2>1
  <1>2. ASSUME NEW m \in Nat, m \in S PROVE m + 1 \in S
    <2>1. PICK g : g = [n \in 0 .. m |-> F(g, n)]
      BY <1>2
    <2> DEFINE h == [n \in 0 .. m + 1 |-> IF n = m + 1 THEN AddDep(g[m], t[m + 1]) ELSE g[n]]
    <2>2. \A n \in 0 .. m : h[n] = g[n]
      OBVIOUS
    <2>3. ASSUME NEW n \in 0 .. m + 1 PROVE h[n] = F(h, n)
      <3>1. CASE n = m + 1
        BY <3>1, <2>2
      <3>2. CASE n \in 0 .. m
        <4>1. h[n] = F(g, n)
          BY <2>1, <2>2, <3>2, Zenon
        <4>2. n # 0 => n - 1 \in 0 .. m
          BY <3>2
        <4> QED BY <4>1, <4>2, <2>2
      <3> QED BY <3>1, <3>2
    <2>4. h = [n \in 0 .. m + 1 |-> F(h, n)]
      <3> HIDE DEF F
      <3> QED BY <2>3
    <2> HIDE DEF h, F
    <2> QED BY <2>4
  <1>3. Nat \subseteq S
    <2> HIDE DEF S
    <2> QED BY <1>1, <1>2, SetInduction
  <1> QED BY <1>3

(* Again the recursive function has the values that its definition says.   *)
LEMMA DepLoopValues ==
  ASSUME NEW t \in Seq(Word)
  PROVE  \E g : IsDepLoop(g, t) /\ parse_dep_list(t) = g[Len(t)]
  <1> DEFINE F(g) == [n \in 0 .. Len(t) |-> IF n = 0 THEN <<>>
                                            ELSE AddDep(g[n - 1], t[n])]
             f == CHOOSE g : g = F(g)
  <1>1. f = F(f)
    <2>1. \E g : g = F(g)
      BY DepLoopExists
    <2> HIDE DEF F
    <2> QED BY <2>1, Zenon
  <1>2. parse_dep_list(t) = f[Len(t)]
    BY DEF parse_dep_list
  <1> HIDE DEF f
  <1>3. DOMAIN f = 0 .. Len(t) /\ f[0] = <<>>
    BY <1>1
  <1>4. \A n \in 1 .. Len(t) : f[n] = AddDep(f[n - 1], t[n])
    BY <1>1
  <1> QED BY <1>2, <1>3, <1>4, Zenon DEF IsDepLoop

(* An empty value names no dependency.                                     *)
LEMMA DepListEmpty == parse_dep_list(<<>>) = <<>>
  <1>1. <<>> \in Seq(Word) /\ Len(<<>>) = 0
    OBVIOUS
  <1>2. PICK g : IsDepLoop(g, <<>>) /\ parse_dep_list(<<>>) = g[Len(<<>>)]
    BY <1>1, DepLoopValues
  <1> QED BY <1>1, <1>2, Zenon DEF IsDepLoop

(* The last item is added to what comes before it.                         *)
LEMMA DepListAppend ==
  ASSUME NEW t \in Seq(Word), NEW item \in Word
  PROVE  parse_dep_list(Append(t, item)) = AddDep(parse_dep_list(t), item)
  <1> DEFINE u == Append(t, item)
  <1>1. /\ u \in Seq(Word) /\ Len(t) \in Nat /\ Len(u) = Len(t) + 1 /\ u[Len(t) + 1] = item
        /\ \A n \in 1 .. Len(t) : u[n] = t[n]
    BY AppendFacts
  <1> HIDE DEF u
  <1>2. PICK f : IsDepLoop(f, t) /\ parse_dep_list(t) = f[Len(t)]
    BY DepLoopValues
  <1>3. PICK g : IsDepLoop(g, u) /\ parse_dep_list(u) = g[Len(u)]
    BY <1>1, DepLoopValues
  <1> DEFINE S == {n \in Nat : n <= Len(t) => g[n] = f[n]}
  <1>4. 0 \in S
    BY <1>2, <1>3, Zenon DEF IsDepLoop
  <1>5. ASSUME NEW n \in Nat, n \in S PROVE n + 1 \in S
    <2> SUFFICES ASSUME n + 1 <= Len(t) PROVE g[n + 1] = f[n + 1]
      OBVIOUS
    <2>1. g[n] = f[n] /\ n + 1 \in 1 .. Len(t) /\ n + 1 \in 1 .. Len(u) /\ (n + 1) - 1 = n
      BY <1>1, <1>5
    <2>2. u[n + 1] = t[n + 1]
      BY <1>1, <2>1
    <2>3. g[n + 1] = AddDep(g[n], u[n + 1]) /\ f[n + 1] = AddDep(f[n], t[n + 1])
      BY <1>2, <1>3, <2>1 DEF IsDepLoop
    <2> QED BY <2>1, <2>2, <2>3
  <1>6. g[Len(t)] = f[Len(t)]
    <2>1. Nat \subseteq S
      <3> HIDE DEF S
      <3> QED BY <1>4, <1>5, SetInduction
    <2> QED BY <1>1, <2>1
  <1>7. g[Len(t) + 1] = AddDep(g[Len(t)], item)
    <2>1. Len(t) + 1 \in 1 .. Len(u) /\ (Len(t) + 1) - 1 = Len(t)
      BY <1>1
    <2> QED BY <1>1, <1>3, <2>1 DEF IsDepLoop
  <1>8. parse_dep_list(u) = AddDep(parse_dep_list(t), item)
    BY <1>1, <1>2, <1>3, <1>6, <1>7
  <1> QED BY <1>8 DEF u

(* parse_dep_list keeps the first MAX_DEPS names of a value.               *)
LEMMA DepListIsFirst ==
  ASSUME NEW list \in Seq(Word)
  PROVE  parse_dep_list(list) = FirstNames(list) /\ parse_dep_list(list) \in Seq(Word)
  <1> DEFINE Named(s) == {q \in DOMAIN s : s[q] # NoName}
             Kept1(s) == Leading(Named(s), MAX_DEPS)
             Good(s) == /\ parse_dep_list(s) \in Seq(Word) /\ Filled(Named(s), MAX_DEPS)
                        /\ Lists(parse_dep_list(s), Kept1(s), s)
             S == {s \in Seq(Word) : Good(s)}
  <1>0. ASSUME NEW s \in Seq(Word)
        PROVE  Named(s) \in SUBSET Nat /\ IsFiniteSet(Named(s)) /\ \A q \in Named(s) : q <= Len(s)
    <2>1. Named(s) \in SUBSET (1 .. Len(s)) /\ Len(s) \in Nat
      OBVIOUS
    <2> HIDE DEF Named
    <2>2. IsFiniteSet(1 .. Len(s))
      BY <2>1, FS_Interval
    <2> QED BY <2>1, <2>2, FS_Subset
  <1>1. <<>> \in S
    <2>1. Named(<<>>) = {}
      OBVIOUS
    <2>2. Leading({}, MAX_DEPS) = {}
      BY DEF Leading
    <2>3. Filled({}, MAX_DEPS)
      <3>1. Cardinality({}) = 0 /\ MAX_DEPS \in Nat
        BY FS_EmptySet, BootGraphAssumption
      <3>2. \A m \in Nat : 0 = IF 0 < m THEN 0 ELSE m
        OBVIOUS
      <3> QED BY <2>2, <3>1, <3>2, Zenon DEF Filled
    <2>4. parse_dep_list(<<>>) = <<>>
      BY DepListEmpty
    <2> HIDE DEF Named
    <2>5. Lists(<<>>, {}, <<>>)
      BY ListsEmpty
    <2>6. <<>> \in Seq(Word)
      OBVIOUS
    <2>7. Good(<<>>)
      BY <2>1, <2>2, <2>3, <2>4, <2>5, <2>6, Zenon
    <2> HIDE DEF Good
    <2> QED BY <2>6, <2>7, Zenon
  <1>2. ASSUME NEW s \in Seq(Word), NEW item \in Word, s \in S PROVE Append(s, item) \in S
    <2> DEFINE u == Append(s, item)
               c == Len(s) + 1
               out == parse_dep_list(s)
    <2>1. /\ u \in Seq(Word) /\ Len(s) \in Nat /\ DOMAIN u = DOMAIN s \cup {c} /\ u[c] = item
          /\ \A q \in DOMAIN s : u[q] = s[q]
      BY AppendFacts
    <2>2. parse_dep_list(u) = AddDep(out, item)
      BY DepListAppend
    <2>3. Named(u) = IF item = NoName THEN Named(s) ELSE Named(s) \cup {c}
      <3> HIDE DEF u
      <3> QED BY <2>1
    <2>4. /\ out \in Seq(Word) /\ Filled(Named(s), MAX_DEPS)
          /\ Lists(out, Kept1(s), s) /\ Len(out) \in Nat
      BY <1>2
    <2>5. Named(s) \in SUBSET Nat /\ IsFiniteSet(Named(s)) /\ \A q \in Named(s) : q < c
      <3> HIDE DEF Named
      <3> QED BY <1>0, <2>1
    <2>6. Kept1(s) \in SUBSET Named(s) /\ Kept1(s) \in SUBSET Nat /\ IsFiniteSet(Kept1(s))
      <3> HIDE DEF Named
      <3> QED BY <2>5, LeadingFacts
    <2>7. Lists(out, Kept1(s), u)
      <3>1. \A q \in Kept1(s) : u[q] = s[q]
        <4> HIDE DEF u, Kept1
        <4> QED BY <2>1, <2>6
      <3> HIDE DEF u, Kept1, out
      <3> QED BY <2>4, <3>1, ListsSame
    <2>8. Len(out) = Cardinality(Kept1(s))
      BY <2>4 DEF Lists
    <2>9. c \in Nat /\ MAX_DEPS \in Nat
      BY <2>1, BootGraphAssumption
    <2> HIDE DEF u, c, out, Named
    <2>10. CASE item = NoName
      <3>1. Named(u) = Named(s) /\ parse_dep_list(u) = out
        BY <2>2, <2>3, <2>10 DEF AddDep
      <3> QED BY <2>1, <2>4, <2>7, <3>1 DEF u
    <2>11. CASE item # NoName
      <3>1. Named(u) = Named(s) \cup {c}
        BY <2>3, <2>11
      <3>2. /\ Kept1(u) = IF Len(out) >= MAX_DEPS THEN Kept1(s) ELSE Kept1(s) \cup {c}
            /\ Filled(Named(u), MAX_DEPS)
        <4> DEFINE N == Named(s)
        <4>1. /\ Leading(N \cup {c}, MAX_DEPS) =
                   IF Cardinality(Leading(N, MAX_DEPS)) >= MAX_DEPS
                   THEN Leading(N, MAX_DEPS) ELSE Leading(N, MAX_DEPS) \cup {c}
              /\ Filled(N \cup {c}, MAX_DEPS)
          <5> HIDE DEF N
          <5>1. N \in SUBSET Nat /\ IsFiniteSet(N) /\ (\A q \in N : q < c) /\ Filled(N, MAX_DEPS)
            BY <2>4, <2>5 DEF N
          <5> QED BY <2>9, <5>1, LeadingAdd
        <4> QED BY <2>8, <3>1, <4>1
      <3>3. parse_dep_list(u) = IF Len(out) >= MAX_DEPS THEN out ELSE Append(out, item)
        BY <2>2, <2>11 DEF AddDep
      <3>4. Lists(Append(out, item), Kept1(s) \cup {c}, u)
        <4>1. \A q \in Kept1(s) : q < c
          BY <2>5, <2>6
        <4> HIDE DEF Kept1
        <4> QED BY <2>1, <2>4, <2>6, <2>7, <2>9, <4>1, ListsAdd DEF c
      <3>5. Append(out, item) \in Seq(Word)
        BY <2>4, AppendFacts
      <3>6. Good(u)
        <4> HIDE DEF Kept1
        <4> QED BY <2>4, <2>7, <3>2, <3>3, <3>4, <3>5
      <3> QED BY <2>1, <3>6 DEF u
    <2> QED BY <2>10, <2>11
  <1>3. Good(list)
    <2> HIDE DEF S
    <2>1. Seq(Word) \subseteq S
      BY <1>1, <1>2, SeqInduction
    <2> QED BY <2>1 DEF S
  <1> DEFINE K == Kept1(list)
             out == parse_dep_list(list)
  <1>4. K \in SUBSET Nat /\ IsFiniteSet(K)
    <2> HIDE DEF Named
    <2> QED BY <1>0, LeadingFacts
  <1>5. FirstNames(list) = [n \in 1 .. Cardinality(K) |-> list[CHOOSE q \in K : Rank(K, q) = n]]
    BY DEF FirstNames
  <1>6. /\ out \in Seq(Word) /\ Len(out) = Cardinality(K)
        /\ \A p \in K : out[Rank(K, p)] = list[p]
        /\ \A n \in DOMAIN out : \E p \in K : n = Rank(K, p)
    BY <1>3 DEF Lists
  <1> HIDE DEF K, out
  <1>7. ASSUME NEW n \in 1 .. Cardinality(K)
        PROVE  out[n] = list[CHOOSE q \in K : Rank(K, q) = n]
    <2>1. n \in DOMAIN out
      BY <1>6
    <2>2. \E p \in K : Rank(K, p) = n
      BY <1>6, <2>1
    <2> DEFINE p == CHOOSE q \in K : Rank(K, q) = n
    <2>3. p \in K /\ Rank(K, p) = n
      BY <2>2, Zenon
    <2> QED BY <1>6, <2>3
  <1>8. out = FirstNames(list)
    BY <1>5, <1>6, <1>7
  <1> QED BY <1>6, <1>8 DEF out

(* The parser returns specifications, and no more than there is room for.  *)
SpecType ==
  [valid : BOOLEAN, name : Word, binary : Word, dep_names : Seq(Word), dep_mask : SUBSET Nat,
   restart_policy : {"always", "on-failure", "one-shot"},
   health_probe : {"fs_ping", "blk_ping", "none"}, launch_mode : {"fs_exec", "spawn"}]

ReadType == {st \in [out : Seq(SpecType), cur : SpecType] : Len(st.out) <= MAX_SERVICES}

(* The parser starts from a specification.                                 *)
LEMMA EmptySpecType == EmptySpec \in SpecType
  <1>1. <<>> \in Seq(Word) /\ {} \in SUBSET Nat
    OBVIOUS
  <1> QED BY <1>1, BootGraphAssumption DEF EmptySpec, SpecType

(* A key leaves a specification.                                           *)
LEMMA SetKeyType ==
  ASSUME NEW cur \in SpecType, NEW line \in Lines PROVE SetKey(cur, line) \in SpecType
  <1>1. line.v \in Word /\ line.list \in Seq(Word)
    BY DEF Lines
  <1>2. parse_dep_list(line.list) \in Seq(Word)
    BY <1>1, DepListIsFirst
  <1>3. /\ parse_policy(line.v) \in {"always", "on-failure", "one-shot"}
        /\ parse_probe(line.v) \in {"fs_ping", "blk_ping", "none"}
    BY DEF parse_policy, parse_probe
  <1>4. /\ [cur EXCEPT !.binary = line.v] \in SpecType
        /\ [cur EXCEPT !.dep_names = parse_dep_list(line.list)] \in SpecType
        /\ [cur EXCEPT !.restart_policy = parse_policy(line.v)] \in SpecType
        /\ [cur EXCEPT !.health_probe = parse_probe(line.v)] \in SpecType
        /\ [cur EXCEPT !.launch_mode = IF line.v = "fs_exec" THEN "fs_exec" ELSE "spawn"] \in SpecType
    BY <1>1, <1>2, <1>3 DEF SpecType
  <1> QED BY <1>4, Zenon DEF SetKey

(* finish_spec keeps to the room that there is.                            *)
LEMMA FinishType ==
  ASSUME NEW out \in Seq(SpecType), Len(out) <= MAX_SERVICES, NEW cur \in SpecType
  PROVE  finish_spec(out, cur) \in Seq(SpecType) /\ Len(finish_spec(out, cur)) <= MAX_SERVICES
  <1>1. /\ Append(out, cur) \in Seq(SpecType) /\ Len(Append(out, cur)) = Len(out) + 1
        /\ Len(out) \in Nat
    BY AppendFacts
  <1>2. MAX_SERVICES \in Nat
    BY BootGraphAssumption
  <1> QED BY <1>1, <1>2 DEF finish_spec

(* So the loop over the lines never lists more services than there is room *)
(* for.                                                                    *)
LEMMA ParsedType == ASSUME NEW t \in Seq(Lines) PROVE Parsed(t) \in ReadType
  <1> DEFINE S == {u \in Seq(Lines) : Parsed(u) \in ReadType}
  <1>1. <<>> \in S
    <2>1. <<>> \in Seq(Lines)
      OBVIOUS
    <2>2. [out |-> <<>>, cur |-> EmptySpec] \in ReadType
      BY EmptySpecType, BootGraphAssumption DEF ReadType
    <2> QED BY <2>1, <2>2, ParsedEmpty, Zenon
  <1>2. ASSUME NEW u \in Seq(Lines), NEW line \in Lines, u \in S PROVE Append(u, line) \in S
    <2> DEFINE st == Parsed(u)
               new == ParseLine(st, line)
    <2>1. /\ st \in [out : Seq(SpecType), cur : SpecType] /\ Len(st.out) <= MAX_SERVICES
          /\ st.out \in Seq(SpecType) /\ st.cur \in SpecType
      BY <1>2 DEF ReadType
    <2>2. Append(u, line) \in Seq(Lines) /\ Parsed(Append(u, line)) = new
      BY ParsedAppend, AppendFacts
    <2> HIDE DEF st
    <2>3. new \in ReadType
      <3>1. CASE line.k = "section"
        <4>1. /\ finish_spec(st.out, st.cur) \in Seq(SpecType)
              /\ Len(finish_spec(st.out, st.cur)) <= MAX_SERVICES
          BY <2>1, FinishType
        <4>2. [EmptySpec EXCEPT !.valid = TRUE, !.name = line.v] \in SpecType
          BY EmptySpecType DEF SpecType, Lines
        <4> QED BY <3>1, <4>1, <4>2 DEF ParseLine, ReadType
      <3>2. CASE line.k # "section" /\ st.cur.valid
        <4>1. SetKey(st.cur, line) \in SpecType
          BY <2>1, SetKeyType
        <4>2. new = [st EXCEPT !.cur = SetKey(st.cur, line)]
          BY <3>2 DEF ParseLine
        <4> QED BY <2>1, <4>1, <4>2 DEF ReadType
      <3>3. CASE line.k # "section" /\ ~st.cur.valid
        <4>1. new = st
          BY <3>3 DEF ParseLine
        <4> QED BY <2>1, <4>1 DEF ReadType
      <3> QED BY <3>1, <3>2, <3>3
    <2> QED BY <2>2, <2>3
  <1> HIDE DEF S
  <1>3. Seq(Lines) \subseteq S
    BY <1>1, <1>2, SeqInduction
  <1> QED BY <1>3 DEF S

(* The services before their dependencies are resolved.                    *)
Unresolved(t) == finish_spec(Parsed(t).out, Parsed(t).cur)

(* And neither does the last finish_spec.                                  *)
LEMMA UnresolvedType ==
  ASSUME NEW t \in Seq(Lines)
  PROVE  Unresolved(t) \in Seq(SpecType) /\ Len(Unresolved(t)) <= MAX_SERVICES
  BY ParsedType, FinishType DEF ReadType, Unresolved

(* Resolving the dependencies changes the masks only, and a mask has bits  *)
(* of services only.                                                       *)
LEMMA ResolveType ==
  ASSUME NEW g \in Seq(SpecType)
  PROVE  /\ resolve_dep_mask(g) \in Seq(SpecType) /\ Len(resolve_dep_mask(g)) = Len(g)
         /\ \A s \in DOMAIN g : resolve_dep_mask(g)[s].dep_mask \subseteq DOMAIN g
  <1> DEFINE Named(d) == {j \in DOMAIN g : g[j].name = d}
             Mask(names) == {Min(Named(d)) : d \in {e \in Range(names) : Named(e) # {}}}
             new == [s \in DOMAIN g |-> [g[s] EXCEPT !.dep_mask = Mask(g[s].dep_names)]]
  <1>1. resolve_dep_mask(g) = new
    BY Zenon DEF resolve_dep_mask
  <1>2. DOMAIN g = 1 .. Len(g) /\ Len(g) \in Nat /\ \A s \in DOMAIN g : g[s] \in SpecType
    OBVIOUS
  <1>3. ASSUME NEW d, Named(d) # {} PROVE Min(Named(d)) \in DOMAIN g
    <2>1. Named(d) \in SUBSET Nat /\ Named(d) \subseteq DOMAIN g
      BY <1>2
    <2> HIDE DEF Named
    <2> QED BY <1>3, <2>1, MinIsLeast
  <1>4. \A names : Mask(names) \subseteq DOMAIN g
    <2> HIDE DEF Named
    <2> QED BY <1>3
  <1> HIDE DEF Mask
  <1>5. ASSUME NEW s \in DOMAIN g
        PROVE  new[s] \in SpecType /\ new[s].dep_mask = Mask(g[s].dep_names)
    <2>1. Mask(g[s].dep_names) \in SUBSET Nat
      BY <1>2, <1>4
    <2> QED BY <1>2, <2>1 DEF SpecType
  <1>6. DOMAIN new = 1 .. Len(g)
    BY <1>2
  <1> HIDE DEF new
  <1>7. new \in Seq(SpecType) /\ Len(new) = Len(g)
    <2>1. new \in [1 .. Len(g) -> SpecType]
      <3>1. new = [s \in 1 .. Len(g) |-> new[s]]
        BY <1>2 DEF new
      <3> QED BY <1>2, <1>5, <3>1
    <2> QED BY <1>2, <2>1
  <1> QED BY <1>1, <1>4, <1>5, <1>7

(* The sections of a text, and those that make a service, are finitely     *)
(* many.                                                                   *)
LEMMA HeadFacts ==
  ASSUME NEW t \in Seq(Lines)
  PROVE  /\ DOMAIN t = 1 .. Len(t) /\ Len(t) \in Nat
         /\ Heads(t) \in SUBSET Nat /\ IsFiniteSet(Heads(t)) /\ Heads(t) \subseteq DOMAIN t
         /\ Complete(t) \in SUBSET Nat /\ IsFiniteSet(Complete(t)) /\ Complete(t) \subseteq Heads(t)
  <1>1. DOMAIN t = 1 .. Len(t) /\ Len(t) \in Nat
    OBVIOUS
  <1>2. IsFiniteSet(DOMAIN t)
    BY <1>1, FS_Interval
  <1>3. Heads(t) \in SUBSET DOMAIN t /\ Complete(t) \in SUBSET Heads(t)
    BY DEF Heads, Complete
  <1> QED BY <1>1, <1>2, <1>3, FS_Subset

(* How what a text says changes when a line is added to it: its sections.  *)
LEMMA HeadsAppend ==
  ASSUME NEW t \in Seq(Lines), NEW line \in Lines
  PROVE  Heads(Append(t, line)) =
           IF line.k = "section" THEN Heads(t) \cup {Len(t) + 1} ELSE Heads(t)
  <1> DEFINE u == Append(t, line)
  <1>1. DOMAIN u = DOMAIN t \cup {Len(t) + 1} /\ u[Len(t) + 1] = line /\ \A q \in DOMAIN t : u[q] = t[q]
    BY AppendFacts
  <1> HIDE DEF u
  <1>2. Heads(u) = IF line.k = "section" THEN Heads(t) \cup {Len(t) + 1} ELSE Heads(t)
    BY <1>1 DEF Heads
  <1> QED BY <1>2 DEF u

(* The new line belongs to the last section, unless it starts one.         *)
LEMMA BodyAppend ==
  ASSUME NEW t \in Seq(Lines), NEW line \in Lines, NEW p \in Heads(t)
  PROVE  Body(Append(t, line), p) =
           IF line.k # "section" /\ \A h \in Heads(t) : h <= p
           THEN Body(t, p) \cup {Len(t) + 1} ELSE Body(t, p)
  <1> DEFINE u == Append(t, line)
             c == Len(t) + 1
             last == \A h \in Heads(t) : h <= p
  <1>1. DOMAIN u = DOMAIN t \cup {c} /\ DOMAIN t = 1 .. Len(t) /\ Len(t) \in Nat
    BY AppendFacts
  <1>2. Heads(u) = IF line.k = "section" THEN Heads(t) \cup {c} ELSE Heads(t)
    BY HeadsAppend
  <1>3. Heads(t) \subseteq DOMAIN t
    BY HeadFacts
  <1> HIDE DEF u
  <1>4. ASSUME NEW q \in DOMAIN t
        PROVE  (\A h \in Heads(u) : h <= p \/ h > q) <=> (\A h \in Heads(t) : h <= p \/ h > q)
    BY <1>1, <1>2
  <1>5. c > p /\ c \notin DOMAIN t
    BY <1>1, <1>3
  <1>6. (\A h \in Heads(u) : h <= p \/ h > c) <=> line.k # "section" /\ last
    <2>1. \A h \in Heads(t) : ~(h > c)
      BY <1>1, <1>3
    <2>2. ~(c <= p) /\ ~(c > c)
      BY <1>1, <1>5, <1>3
    <2> QED BY <1>2, <2>1, <2>2
  <1>7. Body(u, p) = IF line.k # "section" /\ last THEN Body(t, p) \cup {c} ELSE Body(t, p)
    BY <1>1, <1>4, <1>5, <1>6 DEF Body
  <1> QED BY <1>7 DEF u

(* A section that has just been started has no lines.                      *)
LEMMA BodyOfNew ==
  ASSUME NEW t \in Seq(Lines), NEW line \in Lines, line.k = "section"
  PROVE  Body(Append(t, line), Len(t) + 1) = {}
  <1>1. /\ DOMAIN Append(t, line) = DOMAIN t \cup {Len(t) + 1}
        /\ DOMAIN t = 1 .. Len(t) /\ Len(t) \in Nat
    BY AppendFacts
  <1> QED BY <1>1 DEF Body

(* The lines that give a key, and the last of them.                        *)
LEMMA GivenFacts ==
  ASSUME NEW t \in Seq(Lines), NEW p, NEW key
  PROVE  /\ Given(t, p, key) \subseteq DOMAIN t
         /\ Given(t, p, key) # {} => Max(Given(t, p, key)) \in DOMAIN t
  <1> DEFINE G == Given(t, p, key)
  <1>1. G \subseteq DOMAIN t /\ DOMAIN t = 1 .. Len(t) /\ Len(t) \in Nat
    BY DEF Given, Body
  <1> HIDE DEF G
  <1>2. G \in SUBSET Nat /\ \A q \in G : q <= Len(t)
    BY <1>1
  <1>3. G # {} => Max(G) \in G
    BY <1>1, <1>2, MaxIsGreatest
  <1> QED BY <1>1, <1>3 DEF G

(* What a section says changes only with its lines.                        *)
LEMMA SaidKept ==
  ASSUME NEW t \in Seq(Lines), NEW line \in Lines, NEW p \in Heads(t),
         Body(Append(t, line), p) = Body(t, p)
  PROVE  /\ Said(Append(t, line), p) = Said(t, p)
         /\ Value(Append(t, line), p, "binary", NoName) = Value(t, p, "binary", NoName)
         /\ Append(t, line)[p].v = t[p].v
  <1> DEFINE u == Append(t, line)
  <1>1. /\ \A q \in DOMAIN t : u[q] = t[q]
        /\ Body(t, p) \subseteq DOMAIN t /\ p \in DOMAIN t
    BY AppendFacts, HeadFacts DEF Body
  <1>2. Body(u, p) = Body(t, p)
    OBVIOUS
  <1> HIDE DEF u
  <1>3. \A key : Given(u, p, key) = Given(t, p, key)
    BY <1>1, <1>2 DEF Given
  <1>4. \A key, default : Value(u, p, key, default) = Value(t, p, key, default)
    BY <1>1, <1>3, GivenFacts DEF Value
  <1>5. DepNames(u, p) = DepNames(t, p)
    BY <1>1, <1>3, GivenFacts DEF DepNames
  <1>6. u[p].v = t[p].v
    BY <1>1
  <1>7. Said(u, p) = Said(t, p)
    BY <1>4, <1>5, <1>6 DEF Said
  <1> QED BY <1>4, <1>6, <1>7 DEF u

(* A line of the last section sets its key and no other.                   *)
LEMMA SaidSet ==
  ASSUME NEW t \in Seq(Lines), NEW line \in Lines, NEW p \in Heads(t),
         Body(Append(t, line), p) = Body(t, p) \cup {Len(t) + 1}
  PROVE  Said(Append(t, line), p) = SetKey(Said(t, p), line)
  <1> DEFINE u == Append(t, line)
             c == Len(t) + 1
  <1>1. /\ \A q \in DOMAIN t : u[q] = t[q]
        /\ Body(t, p) \subseteq DOMAIN t /\ p \in DOMAIN t
        /\ DOMAIN t = 1 .. Len(t) /\ Len(t) \in Nat /\ u[c] = line /\ c \notin DOMAIN t
    BY AppendFacts, HeadFacts DEF Body
  <1>2. Body(u, p) = Body(t, p) \cup {c}
    OBVIOUS
  <1> HIDE DEF u
  <1>3. \A key : Given(u, p, key) =
                   IF line.k = key THEN Given(t, p, key) \cup {c} ELSE Given(t, p, key)
    BY <1>1, <1>2 DEF Given
  <1>4. ASSUME NEW key, line.k = key PROVE Given(u, p, key) # {} /\ Max(Given(u, p, key)) = c
    <2> DEFINE G == Given(t, p, key)
    <2>1. G \in SUBSET Nat /\ \A q \in G : q <= Len(t)
      BY <1>1, GivenFacts
    <2> HIDE DEF G
    <2>2. G \cup {c} \in SUBSET Nat /\ G \cup {c} # {} /\ c \in Nat /\ \A q \in G \cup {c} : q <= c
      <3>1. c \in Nat /\ c <= c /\ \A q \in G : q \in Nat /\ q <= c
        BY <1>1, <2>1
      <3> QED BY <3>1, Zenon
    <2>3. Max(G \cup {c}) \in G \cup {c} /\ c <= Max(G \cup {c})
      BY <2>2, MaxIsGreatest
    <2>4. Max(G \cup {c}) = c
      BY <2>2, <2>3
    <2>5. Given(u, p, key) = G \cup {c}
      BY <1>3, <1>4 DEF G
    <2> QED BY <2>2, <2>4, <2>5
  <1>5. \A key, default : Value(u, p, key, default) =
                            IF line.k = key THEN line.v ELSE Value(t, p, key, default)
    <2>1. ASSUME NEW key, NEW default, line.k = key PROVE Value(u, p, key, default) = line.v
      BY <1>1, <1>4, <2>1 DEF Value
    <2>2. ASSUME NEW key, NEW default, line.k # key
          PROVE  Value(u, p, key, default) = Value(t, p, key, default)
      BY <1>1, <1>3, <2>2, GivenFacts DEF Value
    <2> QED BY <2>1, <2>2
  <1>6. DepNames(u, p) =
          IF line.k = "depends_on" THEN parse_dep_list(line.list) ELSE DepNames(t, p)
    <2>1. CASE line.k = "depends_on"
      <3>1. line.list \in Seq(Word)
        BY DEF Lines
      <3>2. FirstNames(line.list) = parse_dep_list(line.list)
        BY <3>1, DepListIsFirst
      <3> QED BY <1>1, <1>4, <2>1, <3>2 DEF DepNames
    <2>2. CASE line.k # "depends_on"
      BY <1>1, <1>3, <2>2, GivenFacts DEF DepNames
    <2> QED BY <2>1, <2>2
  <1>7. u[p].v = t[p].v
    BY <1>1
  <1>8. Said(u, p) = SetKey(Said(t, p), line)
    <2> DEFINE old == Said(t, p)
               new == Said(u, p)
               Set(key, y, x) == IF line.k = key THEN y ELSE x
    <2>1. new = [valid |-> TRUE, name |-> old.name,
                 binary |-> Set("binary", line.v, old.binary),
                 dep_names |-> Set("depends_on", parse_dep_list(line.list), old.dep_names),
                 dep_mask |-> {},
                 restart_policy |-> Set("restart_policy", parse_policy(line.v), old.restart_policy),
                 health_probe |-> Set("health_probe", parse_probe(line.v), old.health_probe),
                 launch_mode |-> Set("launch", IF line.v = "fs_exec" THEN "fs_exec" ELSE "spawn",
                                     old.launch_mode)]
      <3>1. /\ new.binary = Set("binary", line.v, old.binary)
            /\ new.dep_names = Set("depends_on", parse_dep_list(line.list), old.dep_names)
        BY <1>5, <1>6 DEF Said
      <3>2. new.restart_policy = Set("restart_policy", parse_policy(line.v), old.restart_policy)
        BY <1>5 DEF Said
      <3>3. new.health_probe = Set("health_probe", parse_probe(line.v), old.health_probe)
        BY <1>5 DEF Said
      <3>4. new.launch_mode = Set("launch", IF line.v = "fs_exec" THEN "fs_exec" ELSE "spawn",
                                  old.launch_mode)
        BY <1>5 DEF Said
      <3>5. new.name = old.name /\ new.valid = TRUE /\ new.dep_mask = {}
        BY <1>7 DEF Said
      <3>6. new = [valid |-> new.valid, name |-> new.name, binary |-> new.binary,
                   dep_names |-> new.dep_names, dep_mask |-> new.dep_mask,
                   restart_policy |-> new.restart_policy, health_probe |-> new.health_probe,
                   launch_mode |-> new.launch_mode]
        BY DEF Said
      <3> HIDE DEF new, old, Set
      <3> QED BY <3>1, <3>2, <3>3, <3>4, <3>5, <3>6, Zenon
    <2>2. PICK nm, bn, dn, rp, hp, lm :
            old = [valid |-> TRUE, name |-> nm, binary |-> bn, dep_names |-> dn, dep_mask |-> {},
                   restart_policy |-> rp, health_probe |-> hp, launch_mode |-> lm]
      BY Zenon DEF Said
    <2> HIDE DEF new, old
    <2>3. new = SetKey(old, line)
      <3>1. CASE line.k = "binary"
        <4>1. SetKey(old, line) =
                [old EXCEPT !.binary = line.v]
          BY <3>1 DEF SetKey
        <4> QED BY <2>1, <2>2, <3>1, <4>1
      <3>2. CASE line.k = "depends_on"
        <4>1. SetKey(old, line) =
                [old EXCEPT !.dep_names = parse_dep_list(line.list)]
          BY <3>2 DEF SetKey
        <4> QED BY <2>1, <2>2, <3>2, <4>1
      <3>3. CASE line.k = "restart_policy"
        <4>1. SetKey(old, line) =
                [old EXCEPT !.restart_policy = parse_policy(line.v)]
          BY <3>3 DEF SetKey
        <4> QED BY <2>1, <2>2, <3>3, <4>1
      <3>4. CASE line.k = "health_probe"
        <4>1. SetKey(old, line) =
                [old EXCEPT !.health_probe = parse_probe(line.v)]
          BY <3>4 DEF SetKey
        <4> QED BY <2>1, <2>2, <3>4, <4>1
      <3>5. CASE line.k = "launch"
        <4>1. SetKey(old, line) =
                [old EXCEPT !.launch_mode = IF line.v = "fs_exec" THEN "fs_exec" ELSE "spawn"]
          BY <3>5 DEF SetKey
        <4> QED BY <2>1, <2>2, <3>5, <4>1
      <3>6. CASE line.k \notin {"binary", "depends_on", "restart_policy", "health_probe", "launch"}
        <4>1. SetKey(old, line) = old
          BY <3>6 DEF SetKey
        <4> QED BY <2>1, <2>2, <3>6, <4>1
      <3> QED BY <3>1, <3>2, <3>3, <3>4, <3>5, <3>6
    <2> QED BY <2>3 DEF new, old
  <1> QED BY <1>8 DEF u

(* A new section says nothing yet but its name.                            *)
LEMMA SaidNew ==
  ASSUME NEW t \in Seq(Lines), NEW line \in Lines, line.k = "section"
  PROVE  Said(Append(t, line), Len(t) + 1) = [EmptySpec EXCEPT !.valid = TRUE, !.name = line.v]
  <1> DEFINE u == Append(t, line)
             c == Len(t) + 1
  <1>1. u[c] = line /\ Body(u, c) = {}
    BY AppendFacts, BodyOfNew
  <1> HIDE DEF u, c
  <1>2. \A key : Given(u, c, key) = {}
    BY <1>1 DEF Given
  <1>3. (\A key, default : Value(u, c, key, default) = default) /\ DepNames(u, c) = <<>>
    BY <1>2 DEF Value, DepNames
  <1>4. Said(u, c) = [EmptySpec EXCEPT !.valid = TRUE, !.name = line.v]
    <2>1. parse_policy("one-shot") = "one-shot" /\ parse_probe("none") = "none"
      BY DEF parse_policy, parse_probe
    <2>2. Said(u, c) =
            [valid |-> TRUE, name |-> line.v, binary |-> NoName, dep_names |-> <<>>, dep_mask |-> {},
             restart_policy |-> "one-shot", health_probe |-> "none", launch_mode |-> "spawn"]
      BY <1>1, <1>3, <2>1 DEF Said
    <2> DEFINE Spec8(y, n, b, d, m, o, h, l) ==
                 [valid |-> y, name |-> n, binary |-> b, dep_names |-> d, dep_mask |-> m,
                  restart_policy |-> o, health_probe |-> h, launch_mode |-> l]
    <2>3. PICK no, yes, none, list, set, once, never, spawn :
            /\ no = FALSE /\ yes = TRUE /\ none = NoName /\ list = <<>> /\ set = {}
            /\ once = "one-shot" /\ never = "none" /\ spawn = "spawn"
      BY Zenon
    <2>4. PICK new : new = line.v
      OBVIOUS
    <2>5. /\ EmptySpec = Spec8(no, none, none, list, set, once, never, spawn)
          /\ Said(u, c) = Spec8(yes, new, none, list, set, once, never, spawn)
      BY <2>2, <2>3, <2>4, Zenon DEF EmptySpec
    <2>6. PICK e : e = EmptySpec
      OBVIOUS
    <2>7. PICK f : f = [e EXCEPT !.valid = yes]
      OBVIOUS
    <2>8. e = Spec8(no, none, none, list, set, once, never, spawn)
      BY <2>5, <2>6, Zenon
    <2>9. f = Spec8(yes, none, none, list, set, once, never, spawn)
      BY <2>7, <2>8
    <2>10. [f EXCEPT !.name = new] = Spec8(yes, new, none, list, set, once, never, spawn)
      BY <2>9
    <2>11. [e EXCEPT !.valid = yes, !.name = new] = [f EXCEPT !.name = new]
      BY <2>7
    <2>12. [e EXCEPT !.valid = yes, !.name = new] = Said(u, c)
      BY <2>5, <2>10, <2>11, Zenon
    <2> QED BY <2>3, <2>4, <2>6, <2>12, Zenon
  <1> QED BY <1>4 DEF u, c

(* What the sections say; the last section; and the complete sections      *)
(* before it.                                                              *)
SaidOf(t) == [p \in Heads(t) |-> Said(t, p)]
Last(t) == Max(Heads(t))
Before(t) == {p \in Complete(t) : p < Last(t)}

(* What has been read of a text: the last section is being built, and the  *)
(* services of those before it are listed, as far as there is room.        *)
ReadsRight(t) ==
  IF Heads(t) = {} THEN Parsed(t) = [out |-> <<>>, cur |-> EmptySpec]
  ELSE /\ Parsed(t).cur = Said(t, Last(t))
       /\ Filled(Before(t), MAX_SERVICES)
       /\ Lists(Parsed(t).out, Leading(Before(t), MAX_SERVICES), SaidOf(t))

(* The last section comes after all others.                                *)
LEMMA LastFacts ==
  ASSUME NEW t \in Seq(Lines), Heads(t) # {}
  PROVE  Last(t) \in Heads(t) /\ Last(t) \in Nat /\ \A h \in Heads(t) : h <= Last(t)
  <1>1. Heads(t) \in SUBSET Nat /\ Len(t) \in Nat /\ \A h \in Heads(t) : h <= Len(t)
    BY HeadFacts
  <1> QED BY <1>1, MaxIsGreatest DEF Last

(* With no sections there is nothing to list.                              *)
LEMMA EmptyLists ==
  ASSUME NEW f, NEW max \in Nat PROVE Filled({}, max) /\ Lists(<<>>, Leading({}, max), f)
  <1>1. Leading({}, max) = {} /\ Cardinality({}) = 0
    BY FS_EmptySet DEF Leading
  <1>2. 0 = IF 0 < max THEN 0 ELSE max
    OBVIOUS
  <1> QED BY <1>1, <1>2, ListsEmpty, Zenon DEF Filled

(* Finishing the last section lists the services of all.                   *)
LEMMA FinishLists ==
  ASSUME NEW t \in Seq(Lines), ReadsRight(t)
  PROVE  Filled(Complete(t), MAX_SERVICES) /\ Lists(Unresolved(t), Kept(t), SaidOf(t))
  <1>1. CASE Heads(t) = {}
    <2>1. Complete(t) = {}
      BY <1>1 DEF Complete
    <2>2. Unresolved(t) = <<>>
      <3>1. Parsed(t).out = <<>> /\ Parsed(t).cur = EmptySpec /\ EmptySpec.valid = FALSE
        BY <1>1 DEF ReadsRight, EmptySpec
      <3> QED BY <3>1, Zenon DEF Unresolved, finish_spec
    <2>3. Filled({}, MAX_SERVICES) /\ Lists(<<>>, Leading({}, MAX_SERVICES), SaidOf(t))
      BY EmptyLists, BootGraphAssumption
    <2> QED BY <2>1, <2>2, <2>3, Zenon DEF Kept
  <1>2. CASE Heads(t) # {}
    <2> DEFINE c == Last(t)
               C == Before(t)
               L == Leading(C, MAX_SERVICES)
               out == Parsed(t).out
               cur == Said(t, c)
    <2>1. c \in Heads(t) /\ c \in Nat /\ \A h \in Heads(t) : h <= c
      BY <1>2, LastFacts
    <2>2. C \in SUBSET Nat /\ IsFiniteSet(C) /\ \A p \in C : p < c
      <3>1. Complete(t) \in SUBSET Nat /\ IsFiniteSet(Complete(t)) /\ C \in SUBSET Complete(t)
        BY HeadFacts DEF Before
      <3>2. \A p \in C : p < c
        BY DEF Before
      <3> QED BY <3>1, <3>2, FS_Subset
    <2>3. Filled(C, MAX_SERVICES) /\ Lists(out, L, SaidOf(t)) /\ Unresolved(t) = finish_spec(out, cur)
      BY <1>2 DEF ReadsRight, Unresolved
    <2>4. out \in Seq(SpecType) /\ cur \in SpecType
      <3>1. out \in Seq(SpecType) /\ Parsed(t).cur \in SpecType
        BY ParsedType DEF ReadType
      <3> QED BY <1>2, <3>1 DEF ReadsRight
    <2>5. cur.valid = TRUE /\ cur.name = t[c].v /\ cur.binary = Value(t, c, "binary", NoName)
      BY DEF Said
    <2>6. SaidOf(t)[c] = cur
      BY <2>1 DEF SaidOf
    <2>7. L \in SUBSET C /\ L \in SUBSET Nat /\ IsFiniteSet(L) /\ \A p \in L : p < c
      <3> HIDE DEF C, c
      <3> QED BY <2>2, LeadingFacts
    <2>8. Len(out) = Cardinality(L)
      BY <2>3 DEF Lists
    <2>9. \A p \in Complete(t) : p \in C \/ p = c
      BY <2>1, HeadFacts DEF Before
    <2>10. MAX_SERVICES \in Nat
      BY BootGraphAssumption
    <2>11. C \subseteq Complete(t)
      BY DEF Before
    <2> HIDE DEF c, C, L, out, cur
    <2>12. CASE cur.name = NoName \/ cur.binary = NoName
      <3>1. Complete(t) = C
        <4>1. c \notin Complete(t)
          BY <2>5, <2>12 DEF Complete
        <4> QED BY <2>9, <2>11, <4>1
      <3>2. Unresolved(t) = out
        BY <2>3, <2>12, Zenon DEF finish_spec
      <3> QED BY <2>3, <3>1, <3>2 DEF Kept, L
    <2>13. CASE cur.name # NoName /\ cur.binary # NoName
      <3>1. Complete(t) = C \cup {c}
        <4>1. c \in Complete(t)
          BY <2>1, <2>5, <2>13 DEF Complete
        <4> QED BY <2>9, <2>11, <4>1
      <3>2. /\ Leading(C \cup {c}, MAX_SERVICES) =
                 IF Cardinality(L) >= MAX_SERVICES THEN L ELSE L \cup {c}
            /\ Filled(C \cup {c}, MAX_SERVICES)
        BY <2>1, <2>2, <2>3, <2>10, LeadingAdd DEF L
      <3>3. Unresolved(t) = IF Cardinality(L) >= MAX_SERVICES THEN out ELSE Append(out, cur)
        BY <2>3, <2>5, <2>8, <2>13, Zenon DEF finish_spec
      <3>4. Lists(Append(out, cur), L \cup {c}, SaidOf(t))
        BY <2>1, <2>3, <2>4, <2>6, <2>7, ListsAdd
      <3> QED BY <2>3, <3>1, <3>2, <3>3, <3>4, Zenon DEF Kept
    <2> QED BY <2>12, <2>13
  <1> QED BY <1>1, <1>2

(* A line that starts a section.                                           *)
LEMMA ReadSection ==
  ASSUME NEW t \in Seq(Lines), ReadsRight(t), NEW line \in Lines, line.k = "section"
  PROVE  ReadsRight(Append(t, line))
  <1> DEFINE u == Append(t, line)
             c == Len(t) + 1
  <1>1. /\ u \in Seq(Lines) /\ Len(t) \in Nat /\ u[c] = line
        /\ Parsed(u) = ParseLine(Parsed(t), line)
    <2>1. u \in Seq(Lines) /\ Len(t) \in Nat /\ u[c] = line
      BY AppendFacts
    <2>2. Parsed(u) = ParseLine(Parsed(t), line)
      BY ParsedAppend
    <2> QED BY <2>1, <2>2
  <1>2. Heads(u) = Heads(t) \cup {c} /\ Heads(t) \in SUBSET Nat /\ \A p \in Heads(t) : p < c
    <2>1. Heads(u) = Heads(t) \cup {c}
      BY HeadsAppend
    <2>2. Heads(t) \subseteq DOMAIN t /\ DOMAIN t = 1 .. Len(t) /\ Len(t) \in Nat
      BY HeadFacts
    <2> HIDE DEF u
    <2> QED BY <2>1, <2>2
  <1>3. ASSUME NEW p \in Heads(t)
        PROVE  /\ Said(u, p) = Said(t, p) /\ u[p].v = t[p].v
               /\ Value(u, p, "binary", NoName) = Value(t, p, "binary", NoName)
    <2>1. Body(u, p) = Body(t, p)
      BY BodyAppend
    <2> QED BY <2>1, SaidKept
  <1>4. Said(u, c) = [EmptySpec EXCEPT !.valid = TRUE, !.name = line.v]
    BY SaidNew
  <1> HIDE DEF u
  <1>5. Parsed(u).cur = Said(u, c) /\ Parsed(u).out = Unresolved(t)
    BY <1>1, <1>4 DEF ParseLine, Unresolved
  <1> HIDE DEF c
  <1>6. Last(u) = c
    <2>1. Last(u) \in Heads(u) /\ \A h \in Heads(u) : h <= Last(u)
      BY <1>1, <1>2, LastFacts
    <2>2. c \in Nat
      BY <1>1 DEF c
    <2>3. c <= Last(u) /\ (Last(u) = c \/ Last(u) \in Heads(t))
      BY <1>2, <2>1, Zenon
    <2>4. Last(u) \in Heads(t) => Last(u) < c /\ Last(u) \in Nat
      BY <1>2, Zenon
    <2> QED BY <2>2, <2>3, <2>4
  <1>7. Before(u) = Complete(t)
    <2>1. {p \in Heads(u) : p < c} = Heads(t)
      <3>1. ~(c < c)
        BY <1>1 DEF c
      <3> QED BY <1>2, <3>1, Zenon
    <2>2. Before(u) = {p \in {q \in Heads(u) : q < c} :
                          u[p].v # NoName /\ Value(u, p, "binary", NoName) # NoName}
      BY <1>6 DEF Before, Complete
    <2> QED BY <1>3, <2>1, <2>2 DEF Complete
  <1>8. Filled(Complete(t), MAX_SERVICES) /\ Lists(Unresolved(t), Kept(t), SaidOf(t))
    BY FinishLists
  <1>9. Lists(Unresolved(t), Kept(t), SaidOf(u))
    <2>1. Kept(t) \subseteq Heads(t)
      BY DEF Kept, Leading, Complete
    <2>2. \A p \in Kept(t) : SaidOf(u)[p] = SaidOf(t)[p]
      BY <1>2, <1>3, <2>1 DEF SaidOf
    <2> QED BY <1>8, <2>2, ListsSame
  <1>10. Heads(u) # {}
    BY <1>2
  <1>11. ReadsRight(u)
    BY <1>5, <1>6, <1>7, <1>8, <1>9, <1>10, Zenon DEF ReadsRight, Kept
  <1> QED BY <1>11 DEF u

(* Any other line.                                                         *)
LEMMA ReadKey ==
  ASSUME NEW t \in Seq(Lines), ReadsRight(t), NEW line \in Lines, line.k # "section"
  PROVE  ReadsRight(Append(t, line))
  <1> DEFINE u == Append(t, line)
             c == Last(t)
  <1>1. u \in Seq(Lines) /\ Parsed(u) = ParseLine(Parsed(t), line)
    BY AppendFacts, ParsedAppend
  <1>2. Heads(u) = Heads(t)
    BY HeadsAppend
  <1>3. CASE Heads(t) = {}
    <2>1. Parsed(t).cur = EmptySpec /\ EmptySpec.valid = FALSE
      BY <1>3 DEF ReadsRight, EmptySpec
    <2>2. Parsed(u) = Parsed(t)
      BY <1>1, <2>1, Zenon DEF ParseLine
    <2> QED BY <1>2, <1>3, <2>2, Zenon DEF ReadsRight
  <1>4. CASE Heads(t) # {}
    <2>1. c \in Heads(t) /\ c \in Nat /\ \A h \in Heads(t) : h <= c
      BY <1>4, LastFacts
    <2>2. Said(u, c) = SetKey(Said(t, c), line)
      <3>1. Body(u, c) = Body(t, c) \cup {Len(t) + 1}
        BY <2>1, BodyAppend
      <3> QED BY <2>1, <3>1, SaidSet
    <2>3. ASSUME NEW p \in Heads(t), p < c
          PROVE  /\ Said(u, p) = Said(t, p) /\ u[p].v = t[p].v
                 /\ Value(u, p, "binary", NoName) = Value(t, p, "binary", NoName)
      <3>1. p \in Nat /\ ~(c <= p)
        BY <2>1, <2>3, HeadFacts
      <3>2. Body(u, p) = Body(t, p)
        BY <2>1, <3>1, BodyAppend
      <3> QED BY <3>2, SaidKept
    <2> HIDE DEF u
    <2>4. Last(u) = c
      BY <1>2 DEF Last
    <2>5. Before(u) = Before(t)
      BY <1>2, <2>3, <2>4 DEF Before, Complete
    <2>6. /\ Parsed(t).cur = Said(t, c) /\ Filled(Before(t), MAX_SERVICES)
          /\ Lists(Parsed(t).out, Leading(Before(t), MAX_SERVICES), SaidOf(t))
      BY <1>4 DEF ReadsRight
    <2>7. Parsed(u).cur = Said(u, c) /\ Parsed(u).out = Parsed(t).out
      <3>1. Parsed(t).cur.valid = TRUE
        BY <2>6 DEF Said
      <3>2. Parsed(t) \in [out : Seq(SpecType), cur : SpecType]
        BY ParsedType DEF ReadType
      <3>3. Parsed(u) = [Parsed(t) EXCEPT !.cur = SetKey(Parsed(t).cur, line)]
        BY <1>1, <3>1 DEF ParseLine
      <3> QED BY <2>2, <2>6, <3>2, <3>3
    <2>8. Lists(Parsed(t).out, Leading(Before(t), MAX_SERVICES), SaidOf(u))
      <3>1. \A p \in Leading(Before(t), MAX_SERVICES) : p \in Heads(t) /\ p < c
        BY DEF Leading, Before, Complete
      <3>2. \A p \in Leading(Before(t), MAX_SERVICES) : SaidOf(u)[p] = SaidOf(t)[p]
        BY <1>2, <2>3, <3>1 DEF SaidOf
      <3> QED BY <2>6, <3>2, ListsSame
    <2> QED BY <1>2, <1>4, <2>4, <2>5, <2>6, <2>7, <2>8, Zenon DEF ReadsRight, u
  <1> QED BY <1>3, <1>4

(* So what is read is right of every text.                                 *)
LEMMA AllReadRight == ASSUME NEW t \in Seq(Lines) PROVE ReadsRight(t)
  <1> DEFINE S == {u \in Seq(Lines) : ReadsRight(u)}
  <1>1. <<>> \in S
    <2>1. <<>> \in Seq(Lines) /\ DOMAIN <<>> = {}
      OBVIOUS
    <2>2. Heads(<<>>) = {}
      BY <2>1 DEF Heads
    <2> QED BY <2>1, <2>2, ParsedEmpty, Zenon DEF ReadsRight
  <1>2. ASSUME NEW u \in Seq(Lines), NEW line \in Lines, u \in S PROVE Append(u, line) \in S
    <2>1. Append(u, line) \in Seq(Lines)
      BY AppendFacts
    <2> QED BY <1>2, <2>1, ReadSection, ReadKey
  <1> HIDE DEF S
  <1>3. Seq(Lines) \subseteq S
    BY <1>1, <1>2, SeqInduction
  <1> QED BY <1>3 DEF S

(* The services of a name, and what the dependencies are resolved to.      *)
NamedIn(g, d) == {j \in DOMAIN g : g[j].name = d}

MaskIn(g, names) == {Min(NamedIn(g, d)) : d \in {e \in Range(names) : NamedIn(g, e) # {}}}

(* What resolve_dep_mask computes, in these words.                         *)
LEMMA ResolveIs ==
  ASSUME NEW g
  PROVE  resolve_dep_mask(g) =
           [s \in DOMAIN g |-> [g[s] EXCEPT !.dep_mask = MaskIn(g, g[s].dep_names)]]
  BY Zenon DEF resolve_dep_mask, MaskIn, NamedIn

(* The position that the search for a name ends at.                        *)
LEMMA FirstNamed ==
  ASSUME NEW g \in Seq(SpecType), NEW d, NamedIn(g, d) # {}
  PROVE  /\ Min(NamedIn(g, d)) \in NamedIn(g, d) /\ Min(NamedIn(g, d)) \in Nat
         /\ \A n \in NamedIn(g, d) : n \in Nat /\ Min(NamedIn(g, d)) <= n
  <1>1. NamedIn(g, d) \in SUBSET Nat
    BY DEF NamedIn
  <1> QED BY <1>1, MinIsLeast

(* The kept sections are listed in order, so the first service of a name   *)
(* is that of the first kept section of that name.                         *)
LEMMA MaskIsDeps ==
  ASSUME NEW t \in Seq(Lines), NEW p
  PROVE  MaskIn(Unresolved(t), DepNames(t, p)) = Deps(t, p)
  <1> DEFINE g == Unresolved(t)
             K == Kept(t)
             names == DepNames(t, p)
             First(h) == \A f \in K : t[f].v = t[h].v => h <= f
  <1>1. K \in SUBSET Heads(t) /\ K \in SUBSET Nat /\ IsFiniteSet(K)
    <2>1. Complete(t) \in SUBSET Nat /\ IsFiniteSet(Complete(t)) /\ Complete(t) \subseteq Heads(t)
      BY HeadFacts DEF Complete
    <2> QED BY <2>1, LeadingFacts DEF Kept
  <1>2. /\ \A q \in K : Rank(K, q) \in Nat
        /\ \A q, r \in K : q < r => Rank(K, q) < Rank(K, r)
    <2> HIDE DEF K
    <2> QED BY <1>1, RankFacts
  <1>3. /\ g \in Seq(SpecType) /\ Lists(g, K, SaidOf(t))
    BY AllReadRight, FinishLists, UnresolvedType
  <1>4. ASSUME NEW h \in K PROVE Rank(K, h) \in DOMAIN g /\ g[Rank(K, h)].name = t[h].v
    <2>1. SaidOf(t)[h] = Said(t, h) /\ Said(t, h).name = t[h].v
      BY <1>1 DEF SaidOf, Said
    <2>2. g[Rank(K, h)] = SaidOf(t)[h] /\ Len(g) = Cardinality(K)
      BY <1>3 DEF Lists
    <2>3. Rank(K, h) \in 1 .. Cardinality(K)
      BY <1>1, RankFacts
    <2> QED BY <1>3, <2>1, <2>2, <2>3
  <1>5. \A n \in DOMAIN g : \E h \in K : n = Rank(K, h)
    BY <1>3, Zenon DEF Lists
  <1> HIDE DEF g, K, names
  <1>6. ASSUME NEW d, NEW n PROVE n \in NamedIn(g, d) <=> \E h \in K : n = Rank(K, h) /\ t[h].v = d
    <2>1. n \in NamedIn(g, d) <=> n \in DOMAIN g /\ g[n].name = d
      BY Zenon DEF NamedIn
    <2>2. ASSUME n \in DOMAIN g, g[n].name = d PROVE \E h \in K : n = Rank(K, h) /\ t[h].v = d
      <3>1. PICK h \in K : n = Rank(K, h)
        BY <1>5, <2>2, Zenon
      <3> QED BY <1>4, <2>2, <3>1, Zenon
    <2>3. ASSUME NEW h \in K, n = Rank(K, h), t[h].v = d PROVE n \in DOMAIN g /\ g[n].name = d
      BY <1>4, <2>3, Zenon
    <2> QED BY <2>1, <2>2, <2>3, Zenon
  <1>7. Deps(t, p) = {Rank(K, h) : h \in {f \in K : t[f].v \in Range(names) /\ First(f)}}
    BY DEF Deps, K, names
  <1>8. ASSUME NEW d, NamedIn(g, d) # {}
        PROVE  \E h \in K : Min(NamedIn(g, d)) = Rank(K, h) /\ t[h].v = d /\ First(h)
    <2>1. /\ Min(NamedIn(g, d)) \in NamedIn(g, d)
          /\ \A n \in NamedIn(g, d) : Min(NamedIn(g, d)) <= n
      BY <1>3, <1>8, FirstNamed
    <2>2. PICK h \in K : Min(NamedIn(g, d)) = Rank(K, h) /\ t[h].v = d
      BY <1>6, <2>1, Zenon
    <2>3. ASSUME NEW f \in K, t[f].v = t[h].v PROVE h <= f
      <3>1. Rank(K, f) \in NamedIn(g, d)
        BY <1>6, <2>2, <2>3, Zenon
      <3>2. Rank(K, h) <= Rank(K, f)
        BY <2>1, <2>2, <3>1, Zenon
      <3>3. h \in Nat /\ f \in Nat
        BY <1>1
      <3> QED BY <1>2, <3>2, <3>3
    <2> QED BY <2>2, <2>3
  <1>9. ASSUME NEW h \in K, First(h)
        PROVE  NamedIn(g, t[h].v) # {} /\ Min(NamedIn(g, t[h].v)) = Rank(K, h)
    <2> DEFINE d == t[h].v
    <2>1. Rank(K, h) \in NamedIn(g, d)
      BY <1>6, Zenon
    <2> HIDE DEF d
    <2>2. \A n \in NamedIn(g, d) : Min(NamedIn(g, d)) <= n
      BY <1>3, <2>1, FirstNamed
    <2>3. PICK f \in K : Min(NamedIn(g, d)) = Rank(K, f) /\ t[f].v = d
      BY <1>8, <2>1, Zenon
    <2>4. Rank(K, f) <= Rank(K, h)
      BY <2>1, <2>2, <2>3, Zenon
    <2>5. h <= f
      BY <1>9, <2>3 DEF d
    <2>6. h \in Nat /\ f \in Nat
      BY <1>1
    <2>7. Rank(K, f) = Rank(K, h)
      BY <1>2, <2>4, <2>5, <2>6
    <2> QED BY <2>1, <2>3, <2>7, Zenon DEF d
  <1>10. MaskIn(g, names) = {Rank(K, h) : h \in {f \in K : t[f].v \in Range(names) /\ First(f)}}
    <2> HIDE DEF First
    <2>1. ASSUME NEW d \in Range(names), NamedIn(g, d) # {}
          PROVE  \E h \in {f \in K : t[f].v \in Range(names) /\ First(f)} :
                   Min(NamedIn(g, d)) = Rank(K, h)
      BY <1>8, <2>1, Zenon
    <2>2. ASSUME NEW h \in {f \in K : t[f].v \in Range(names) /\ First(f)}
          PROVE  Rank(K, h) \in MaskIn(g, names)
      BY <1>9, Zenon DEF MaskIn
    <2> QED BY <2>1, <2>2, Zenon DEF MaskIn
  <1> QED BY <1>7, <1>10 DEF g, names

(* What the parser returns for a text.                                     *)
LEMMA ParserReads ==
  ASSUME NEW t \in Seq(Lines)
  PROVE  /\ Len(parse_boot_graph(t)) = Cardinality(Kept(t))
         /\ \A p \in Kept(t) :
              parse_boot_graph(t)[Rank(Kept(t), p)] = [Said(t, p) EXCEPT !.dep_mask = Deps(t, p)]
  <1> DEFINE g == Unresolved(t)
             K == Kept(t)
  <1>1. g \in Seq(SpecType) /\ Lists(g, K, SaidOf(t))
    BY AllReadRight, FinishLists, UnresolvedType
  <1>2. parse_boot_graph(t) = resolve_dep_mask(g)
    BY DEF parse_boot_graph, Unresolved
  <1>3. Len(resolve_dep_mask(g)) = Cardinality(K)
    BY <1>1, ResolveType DEF Lists
  <1>4. ASSUME NEW p \in K
        PROVE  resolve_dep_mask(g)[Rank(K, p)] = [Said(t, p) EXCEPT !.dep_mask = Deps(t, p)]
    <2> DEFINE n == Rank(K, p)
    <2>1. K \in SUBSET Heads(t) /\ K \in SUBSET Nat /\ IsFiniteSet(K)
      <3>1. /\ Complete(t) \in SUBSET Nat /\ IsFiniteSet(Complete(t))
            /\ Complete(t) \subseteq Heads(t)
        BY HeadFacts DEF Complete
      <3> QED BY <3>1, LeadingFacts DEF Kept
    <2>2. n \in 1 .. Cardinality(K)
      BY <2>1, RankFacts
    <2>3. n \in DOMAIN g
      BY <1>1, <2>2 DEF Lists
    <2>4. g[n] = SaidOf(t)[p]
      BY <1>1 DEF Lists
    <2>5. SaidOf(t)[p] = Said(t, p)
      BY <2>1 DEF SaidOf
    <2>6. Said(t, p).dep_names = DepNames(t, p)
      BY DEF Said
    <2>7. MaskIn(g, DepNames(t, p)) = Deps(t, p)
      BY MaskIsDeps
    <2> HIDE DEF n, g, K
    <2>8. resolve_dep_mask(g)[n] = [g[n] EXCEPT !.dep_mask = MaskIn(g, g[n].dep_names)]
      BY <2>3, ResolveIs, Zenon
    <2>9. g[n] = Said(t, p)
      BY <2>4, <2>5
    <2>10. MaskIn(g, g[n].dep_names) = Deps(t, p)
      BY <2>6, <2>7, <2>9, Zenon
    <2> QED BY <2>8, <2>9, <2>10, Zenon DEF n
  <1> QED BY <1>2, <1>3, <1>4, Zenon

(* The text has lines only.                                                *)
LEMMA TextType == TextSpec => [](text \in Seq(Lines))
  <1>1. TextInit => text \in Seq(Lines)
    BY DEF TextInit
  <1>2. text \in Seq(Lines) /\ [TextNext]_text => (text \in Seq(Lines))'
    BY TextAssumption DEF TextNext
  <1> QED BY <1>1, <1>2, PTL DEF TextSpec

(* For every set of lines, any number of them, and any limits on services  *)
(* and dependencies, parse_boot_graph returns what the text says           *)
(* (ParseIsDeclarative).                                                   *)
THEOREM ParserIsDeclarative == TextSpec => []ParseIsDeclarative
  <1>1. text \in Seq(Lines) => ParseIsDeclarative
    BY ParserReads, Zenon DEF ParseIsDeclarative
  <1> QED BY <1>1, TextType, PTL

(* A list of services that only grows at the end.                          *)
Extended(out, g) == \A n \in DOMAIN out : n \in DOMAIN g /\ g[n] = out[n]

(* finish_spec lists a service after the others or not at all.             *)
LEMMA FinishExtends ==
  ASSUME NEW out \in Seq(SpecType), NEW cur \in SpecType PROVE Extended(out, finish_spec(out, cur))
  <1>1. Extended(out, out)
    BY DEF Extended
  <1>2. Extended(out, Append(out, cur))
    BY AppendFacts DEF Extended
  <1> QED BY <1>1, <1>2, Zenon DEF finish_spec

(* A service that is listed is still the first of its name when more are   *)
(* listed after it.                                                        *)
LEMMA ResolveKeeps ==
  ASSUME NEW out \in Seq(SpecType), NEW g \in Seq(SpecType), Extended(out, g)
  PROVE  KeepsServices(resolve_dep_mask(out), resolve_dep_mask(g))
  <1>1. ASSUME NEW d, NamedIn(out, d) # {}
        PROVE  NamedIn(g, d) # {} /\ Min(NamedIn(g, d)) = Min(NamedIn(out, d))
    <2>1. DOMAIN out = 1 .. Len(out) /\ DOMAIN g = 1 .. Len(g) /\ Len(out) \in Nat /\ Len(g) \in Nat
      OBVIOUS
    <2>2. NamedIn(out, d) \subseteq NamedIn(g, d)
      BY DEF Extended, NamedIn
    <2>3. PICK m \in NamedIn(out, d) : m = Min(NamedIn(out, d)) /\ m \in Nat
      BY <1>1, FirstNamed
    <2>4. PICK k \in NamedIn(g, d) : k = Min(NamedIn(g, d)) /\ k \in Nat
      BY <1>1, <2>2, FirstNamed
    <2>5. k <= m
      BY <2>2, <2>3, <2>4, FirstNamed
    <2>6. k \in DOMAIN g /\ g[k].name = d /\ m \in DOMAIN out
      BY <2>3, <2>4 DEF NamedIn
    <2>7. k \in DOMAIN out
      BY <2>1, <2>3, <2>4, <2>5, <2>6
    <2>8. k \in NamedIn(out, d)
      BY <2>6, <2>7 DEF NamedIn, Extended
    <2>9. m <= k
      BY <1>1, <2>3, <2>8, FirstNamed
    <2> QED BY <2>3, <2>4, <2>5, <2>9
  <1>2. \A names : MaskIn(out, names) \subseteq MaskIn(g, names)
    BY <1>1, Zenon DEF MaskIn
  <1> DEFINE old == resolve_dep_mask(out)
             new == resolve_dep_mask(g)
  <1>3. /\ old = [s \in DOMAIN out |-> [out[s] EXCEPT !.dep_mask = MaskIn(out, out[s].dep_names)]]
        /\ new = [s \in DOMAIN g |-> [g[s] EXCEPT !.dep_mask = MaskIn(g, g[s].dep_names)]]
    BY ResolveIs
  <1>4. ASSUME NEW n \in DOMAIN out
        PROVE  /\ n \in DOMAIN new
               /\ new[n] = [old[n] EXCEPT !.dep_mask = new[n].dep_mask]
               /\ old[n].dep_mask \subseteq new[n].dep_mask
    <2>1. n \in DOMAIN g /\ g[n] = out[n] /\ out[n] \in SpecType
      BY DEF Extended
    <2>2. PICK r, a, b : /\ r = out[n] /\ a = MaskIn(out, out[n].dep_names)
                         /\ b = MaskIn(g, out[n].dep_names)
      OBVIOUS
    <2>3. /\ old[n] = [r EXCEPT !.dep_mask = a] /\ new[n] = [r EXCEPT !.dep_mask = b]
          /\ n \in DOMAIN new
      BY <1>3, <2>1, <2>2, Zenon
    <2>4. r \in SpecType /\ a \subseteq b
      BY <1>2, <2>1, <2>2, Zenon
    <2> HIDE DEF old, new
    <2>5. PICK x, y : x = old[n] /\ y = new[n]
      OBVIOUS
    <2>6. y = [x EXCEPT !.dep_mask = b] /\ x.dep_mask = a /\ y.dep_mask = b
      BY <2>3, <2>4, <2>5 DEF SpecType
    <2> QED BY <2>3, <2>4, <2>5, <2>6, Zenon
  <1>5. DOMAIN old = DOMAIN out
    BY <1>3
  <1> HIDE DEF old, new
  <1>6. KeepsServices(old, new)
    BY <1>4, <1>5, Zenon DEF KeepsServices
  <1> QED BY <1>6 DEF old, new

(* Reading one more line.                                                  *)
LEMMA ReadOn ==
  ASSUME NEW t \in Seq(Lines), NEW line \in Lines
  PROVE  Extended(Parsed(t).out, Unresolved(Append(t, line)))
  <1> DEFINE u == Append(t, line)
             out == Parsed(t).out
             cur == Parsed(t).cur
  <1>1. u \in Seq(Lines) /\ Parsed(u) = ParseLine(Parsed(t), line)
    BY AppendFacts, ParsedAppend
  <1>2. /\ Parsed(t) \in [out : Seq(SpecType), cur : SpecType]
        /\ out \in Seq(SpecType) /\ cur \in SpecType
        /\ Parsed(u).out \in Seq(SpecType) /\ Parsed(u).cur \in SpecType
    BY <1>1, ParsedType DEF ReadType
  <1>3. Parsed(u).out \in {out, finish_spec(out, cur)}
    BY <1>1, <1>2 DEF ParseLine
  <1> HIDE DEF u, out, cur
  <1>4. Extended(out, Parsed(u).out)
    <2>1. Extended(out, finish_spec(out, cur)) /\ Extended(out, out)
      BY <1>2, FinishExtends DEF Extended
    <2> QED BY <1>3, <2>1, Zenon
  <1>5. Extended(Parsed(u).out, Unresolved(u))
    BY <1>2, FinishExtends DEF Unresolved
  <1>6. Extended(out, Unresolved(u))
    BY <1>4, <1>5, Zenon DEF Extended
  <1> QED BY <1>6 DEF u, out

(* Reading on never takes back a service, of every text (ParseIsStable).   *)
THEOREM ParserIsStable == TextSpec => ParseIsStable
  <1> DEFINE Keeps == KeepsServices(resolve_dep_mask(Parsed(text).out), parse_boot_graph(text'))
  <1>1. text \in Seq(Lines) /\ [TextNext]_text => [Keeps]_text
    <2> SUFFICES ASSUME text \in Seq(Lines), NEW line \in TextLines, text' = Append(text, line)
                 PROVE  Keeps
      BY Zenon DEF TextNext
    <2>1. line \in Lines
      BY TextAssumption
    <2>2. text' \in Seq(Lines)
      BY <2>1, AppendFacts
    <2>3. Parsed(text).out \in Seq(SpecType) /\ Unresolved(text') \in Seq(SpecType)
      BY <2>2, ParsedType, UnresolvedType DEF ReadType
    <2>4. Extended(Parsed(text).out, Unresolved(text'))
      BY <2>1, ReadOn
    <2>5. KeepsServices(resolve_dep_mask(Parsed(text).out), resolve_dep_mask(Unresolved(text')))
      BY <2>3, <2>4, ResolveKeeps
    <2> QED BY <2>5 DEF parse_boot_graph, Unresolved
  <1> QED BY <1>1, TextType, PTL DEF TextSpec, ParseIsStable

(* What init indexes by: parse_boot_graph returns at most MAX_SERVICES     *)
(* specifications, and dep_mask has no bit of a service that is not there. *)
THEOREM ParserReturnsGraph ==
  ASSUME NEW t \in Seq(Lines)
  PROVE  /\ parse_boot_graph(t) \in Seq(SpecType) /\ Len(parse_boot_graph(t)) <= MAX_SERVICES
         /\ \A s \in DOMAIN parse_boot_graph(t) :
              parse_boot_graph(t)[s].dep_mask \subseteq DOMAIN parse_boot_graph(t)
  <1> DEFINE g == Unresolved(t)
             r == resolve_dep_mask(g)
  <1>1. g \in Seq(SpecType) /\ Len(g) <= MAX_SERVICES
    BY UnresolvedType
  <1>2. /\ r \in Seq(SpecType) /\ Len(r) = Len(g)
        /\ \A s \in DOMAIN g : r[s].dep_mask \subseteq DOMAIN g
    BY <1>1, ResolveType
  <1>3. DOMAIN r = DOMAIN g
    <2> HIDE DEF r
    <2> QED BY <1>1, <1>2
  <1>4. parse_boot_graph(t) = r
    BY DEF parse_boot_graph, Unresolved
  <1> QED BY <1>1, <1>2, <1>3, <1>4, Zenon
=============================================================================
