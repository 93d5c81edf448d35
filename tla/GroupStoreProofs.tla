--------------------------- MODULE GroupStoreProofs ---------------------------
(***************************************************************************)
(* What the pipelines of GroupStore do to two lists, whatever the commands *)
(* that are queued in them carry.                                          *)
(***************************************************************************)
EXTENDS GroupStore, TLAPS, SequenceTheorems, FiniteSetTheorems

-------------------------------------------------------------------------------
(* Pipelines: what running the head of one and appending to it does. *)

(* The elements of a pipeline after its head has been replaced by follow.   *)
LEMMA StepElements ==
    ASSUME NEW S, NEW q \in Seq(S), NEW f \in Seq(S), q # <<>>
    PROVE  /\ Head(q) \in S
           /\ Head(q) = q[1]
           /\ 1 \in DOMAIN q
           /\ DOMAIN q = 1..Len(q)
           /\ Tail(q) \o f \in Seq(S)
           /\ DOMAIN (Tail(q) \o f) = 1..(Len(q) - 1 + Len(f))
           /\ \A i \in DOMAIN (Tail(q) \o f) :
                 (Tail(q) \o f)[i] = IF i < Len(q) THEN q[i + 1] ELSE f[i - Len(q) + 1]
<1>1. Len(q) \in Nat \ {0} /\ DOMAIN q = 1..Len(q)
  BY EmptySeq, LenProperties
<1>2. Tail(q) \in Seq(S) /\ Len(Tail(q)) = Len(q) - 1
      /\ \A i \in 1..Len(Tail(q)) : Tail(q)[i] = q[i + 1]
  BY HeadTailProperties
<1>3. Head(q) \in S /\ Head(q) = q[1]
  BY HeadTailProperties
<1>4. /\ Tail(q) \o f \in Seq(S)
      /\ Len(Tail(q) \o f) = Len(q) - 1 + Len(f)
      /\ \A i \in 1..(Len(q) - 1 + Len(f)) :
            (Tail(q) \o f)[i] = IF i <= Len(q) - 1 THEN Tail(q)[i] ELSE f[i - (Len(q) - 1)]
  BY <1>2, ConcatProperties
<1>5. Len(f) \in Nat
  BY LenProperties
<1>6. DOMAIN (Tail(q) \o f) = 1..(Len(q) - 1 + Len(f))
  BY <1>4, LenProperties
<1>7. ASSUME NEW i \in 1..(Len(q) - 1 + Len(f))
      PROVE  (Tail(q) \o f)[i] = IF i < Len(q) THEN q[i + 1] ELSE f[i - Len(q) + 1]
  <2>1. CASE i < Len(q)
    BY <2>1, <1>1, <1>2, <1>4, <1>5
  <2>2. CASE ~(i < Len(q))
    BY <2>2, <1>1, <1>4, <1>5
  <2> QED BY <2>1, <2>2
<1> QED BY <1>1, <1>3, <1>4, <1>6, <1>7

(* The elements of a pipeline with new commands behind it. *)
LEMMA AppendElements ==
    ASSUME NEW S, NEW q \in Seq(S), NEW f \in Seq(S)
    PROVE  /\ q \o f \in Seq(S)
           /\ DOMAIN q = 1..Len(q)
           /\ DOMAIN (q \o f) = 1..(Len(q) + Len(f))
           /\ \A i \in DOMAIN (q \o f) :
                 (q \o f)[i] = IF i <= Len(q) THEN q[i] ELSE f[i - Len(q)]
  BY ConcatProperties, LenProperties

-------------------------------------------------------------------------------
(* Convergence of one client's and one group's list, kept by the four kinds *)
(* of steps a pipeline makes.                                               *)

(* A handler starts a chain: its first command is never a second write.     *)
LEMMA ConvergeIssue ==
    ASSUME NEW S, NEW q \in Seq(S), NEW f \in Seq(S), NEW c, NEW g,
           NEW a \in BOOLEAN, NEW b \in BOOLEAN,
           Converging(q, c, g, a, b),
           \A k \in DOMAIN f : ~Owes(f[k], c, g)
    PROVE  Converging(q \o f, c, g, a, b)
<1> DEFINE r == q \o f
<1>1. /\ DOMAIN q = 1..Len(q) /\ DOMAIN f = 1..Len(f) /\ Len(q) \in Nat /\ Len(f) \in Nat
      /\ DOMAIN r = 1..(Len(q) + Len(f))
      /\ \A i \in DOMAIN r : r[i] = IF i <= Len(q) THEN q[i] ELSE f[i - Len(q)]
  BY AppendElements, LenProperties
<1>2. \A i \in DOMAIN r : Owes(r[i], c, g) => i \in DOMAIN q /\ r[i] = q[i]
  BY <1>1
<1>3. \A i \in DOMAIN q : i \in DOMAIN r /\ r[i] = q[i]
  BY <1>1
<1> HIDE DEF r
<1>4. (\A i \in DOMAIN r : ~Owes(r[i], c, g)) => (a <=> b)
  BY <1>3 DEF Converging
<1>5. ASSUME NEW i \in DOMAIN r, IsLast(r, i, c, g)
      PROVE  a <=> r[i].step = "push.lpushGroup"
  BY <1>2, <1>3, <1>5 DEF Converging, IsLast
<1> QED BY <1>4, <1>5 DEF Converging, r

(* A command that is not a second write for (c, g) runs.                    *)
LEMMA ConvergeOther ==
    ASSUME NEW S, NEW q \in Seq(S), NEW f \in Seq(S), NEW c, NEW g,
           NEW a \in BOOLEAN, NEW b \in BOOLEAN,
           q # <<>>,
           Converging(q, c, g, a, b),
           ~Owes(Head(q), c, g),
           \A k \in DOMAIN f : ~Owes(f[k], c, g)
    PROVE  Converging(Tail(q) \o f, c, g, a, b)
<1> DEFINE r == Tail(q) \o f
<1>1. /\ DOMAIN q = 1..Len(q) /\ DOMAIN f = 1..Len(f) /\ Len(q) \in Nat /\ Len(f) \in Nat
      /\ DOMAIN r = 1..(Len(q) - 1 + Len(f)) /\ q[1] = Head(q)
      /\ \A i \in DOMAIN r : r[i] = IF i < Len(q) THEN q[i + 1] ELSE f[i - Len(q) + 1]
  BY StepElements, LenProperties
<1>2. \A i \in DOMAIN r : Owes(r[i], c, g) => i + 1 \in DOMAIN q /\ r[i] = q[i + 1]
  BY <1>1
<1>3. \A i \in DOMAIN q : i # 1 => i - 1 \in DOMAIN r /\ r[i - 1] = q[i]
  BY <1>1
<1>4. DOMAIN q \subseteq Nat /\ DOMAIN r \subseteq Nat
  BY <1>1
<1> HIDE DEF r
<1>5. (\A i \in DOMAIN r : ~Owes(r[i], c, g)) => (a <=> b)
  BY <1>1, <1>3 DEF Converging
<1>6. ASSUME NEW i \in DOMAIN r, IsLast(r, i, c, g)
      PROVE  a <=> r[i].step = "push.lpushGroup"
  <2>1. i + 1 \in DOMAIN q /\ r[i] = q[i + 1] /\ Owes(q[i + 1], c, g)
    BY <1>2, <1>6 DEF IsLast
  <2>2. ASSUME NEW j \in DOMAIN q, j > i + 1
        PROVE  ~Owes(q[j], c, g)
    <3>1. j - 1 \in DOMAIN r /\ r[j - 1] = q[j] /\ j - 1 > i
      BY <1>3, <1>4, <2>2
    <3> QED BY <3>1, <1>6 DEF IsLast
  <2> QED BY <2>1, <2>2 DEF Converging, IsLast
<1> QED BY <1>5, <1>6 DEF Converging, r

(* A first write runs: its chain queues the second write, which is now the  *)
(* last one, and the client's list already shows its outcome.               *)
LEMMA ConvergeFirst ==
    ASSUME NEW S, NEW q \in Seq(S), NEW u \in S, NEW c, NEW g,
           NEW a \in BOOLEAN, NEW b \in BOOLEAN,
           q # <<>>,
           Owes(u, c, g),
           a <=> u.step = "push.lpushGroup"
    PROVE  Converging(Tail(q) \o <<u>>, c, g, a, b)
<1> DEFINE r == Tail(q) \o <<u>>
<1>1. <<u>> \in Seq(S) /\ Len(<<u>>) = 1 /\ <<u>>[1] = u /\ Len(q) \in Nat \ {0}
  BY EmptySeq, LenProperties
<1>2. /\ DOMAIN r = 1..(Len(q) - 1 + 1)
      /\ \A i \in DOMAIN r : r[i] = IF i < Len(q) THEN q[i + 1] ELSE <<u>>[i - Len(q) + 1]
  BY <1>1, StepElements
<1>3. Len(q) \in DOMAIN r /\ r[Len(q)] = u
  BY <1>1, <1>2
<1>4. DOMAIN r = 1..Len(q)
  BY <1>1, <1>2
<1> HIDE DEF r
<1>5. ASSUME NEW i \in DOMAIN r, IsLast(r, i, c, g)
      PROVE  i = Len(q)
  <2>1. ~(Len(q) > i)
    BY <1>3, <1>5 DEF IsLast
  <2> QED BY <2>1, <1>1, <1>4
<1> QED BY <1>3, <1>5 DEF Converging, r

(* A second write runs: if it was the last one both lists now agree, and if *)
(* another is behind it that one is still the last.                         *)
LEMMA ConvergeSecond ==
    ASSUME NEW S, NEW q \in Seq(S), NEW f \in Seq(S), NEW c, NEW g,
           NEW a \in BOOLEAN, NEW b \in BOOLEAN, NEW d \in BOOLEAN,
           q # <<>>,
           Converging(q, c, g, a, b),
           Owes(Head(q), c, g),
           d <=> Head(q).step = "push.lpushGroup",
           \A k \in DOMAIN f : ~Owes(f[k], c, g)
    PROVE  Converging(Tail(q) \o f, c, g, a, d)
<1> DEFINE r == Tail(q) \o f
<1>1. /\ DOMAIN q = 1..Len(q) /\ DOMAIN f = 1..Len(f) /\ Len(q) \in Nat \ {0} /\ Len(f) \in Nat
      /\ DOMAIN r = 1..(Len(q) - 1 + Len(f)) /\ q[1] = Head(q)
      /\ \A i \in DOMAIN r : r[i] = IF i < Len(q) THEN q[i + 1] ELSE f[i - Len(q) + 1]
  BY StepElements, LenProperties, EmptySeq
<1>2. \A i \in DOMAIN r : Owes(r[i], c, g) => i + 1 \in DOMAIN q /\ r[i] = q[i + 1]
  BY <1>1
<1>3. \A i \in DOMAIN q : i # 1 => i - 1 \in DOMAIN r /\ r[i - 1] = q[i]
  BY <1>1
<1>4. DOMAIN q \subseteq Nat /\ DOMAIN r \subseteq Nat /\ 1 \in DOMAIN q
  BY <1>1
<1> HIDE DEF r
<1>5. ASSUME \A i \in DOMAIN r : ~Owes(r[i], c, g)
      PROVE  a <=> d
  <2>1. \A j \in DOMAIN q : j > 1 => ~Owes(q[j], c, g)
    BY <1>3, <1>4, <1>5
  <2>2. IsLast(q, 1, c, g)
    BY <2>1, <1>1 DEF IsLast
  <2> QED BY <2>2, <1>1, <1>4 DEF Converging
<1>6. ASSUME NEW i \in DOMAIN r, IsLast(r, i, c, g)
      PROVE  a <=> r[i].step = "push.lpushGroup"
  <2>1. i + 1 \in DOMAIN q /\ r[i] = q[i + 1] /\ Owes(q[i + 1], c, g)
    BY <1>2, <1>6 DEF IsLast
  <2>2. ASSUME NEW j \in DOMAIN q, j > i + 1
        PROVE  ~Owes(q[j], c, g)
    <3>1. j - 1 \in DOMAIN r /\ r[j - 1] = q[j] /\ j - 1 > i
      BY <1>3, <1>4, <2>2
    <3> QED BY <3>1, <1>6 DEF IsLast
  <2> QED BY <2>1, <2>2 DEF Converging, IsLast
<1> QED BY <1>5, <1>6 DEF Converging, r

(* A set of positions has a last one. *)
LEMMA Largest ==
    ASSUME NEW n \in Nat, NEW T \in SUBSET (1..n), T # {}
    PROVE  \E x \in T : \A y \in T : y <= x
<1> DEFINE U == {n - i : i \in T}
<1>1. U \subseteq Nat /\ U # {}
  <2>1. \A i \in T : n - i \in Nat
    OBVIOUS
  <2>2. PICK i \in T : TRUE
    OBVIOUS
  <2>3. n - i \in U
    BY <2>2
  <2> QED  BY <2>1, <2>3
<1>2. PICK u \in U : \A v \in U : ~(<<v, u>> \in OpToRel(<, Nat))
  <2>1. IsWellFoundedOn(OpToRel(<, Nat), Nat)
    BY NatLessThanWellFounded
  <2> HIDE DEF U
  <2> QED  BY <1>1, <2>1, WFMin
<1>3. \A v \in U : ~(v < u)
  BY <1>1, <1>2 DEF OpToRel
<1> QED  BY <1>3

(* No push is owed: a group that the client lists lists the client.         *)
LEMMA ConvergeListed ==
    ASSUME NEW S, NEW q \in Seq(S), NEW c, NEW g,
           NEW a \in BOOLEAN, NEW b \in BOOLEAN,
           Converging(q, c, g, a, b),
           \A i \in DOMAIN q : Owes(q[i], c, g) => q[i].step # "push.lpushGroup"
    PROVE  a => b
<1> DEFINE T == {i \in DOMAIN q : Owes(q[i], c, g)}
<1>1. CASE T = {}
  BY <1>1 DEF Converging
<1>2. CASE T # {}
  <2>1. Len(q) \in Nat /\ DOMAIN q = 1..Len(q) /\ T \in SUBSET (1..Len(q))
    BY LenProperties
  <2>2. PICK x \in T : \A y \in T : y <= x
    <3> HIDE DEF T
    <3> QED  BY <1>2, <2>1, Largest
  <2>3. IsLast(q, x, c, g)
    <3>1. ASSUME NEW j \in DOMAIN q, j > x PROVE j \notin T
      BY <2>1, <2>2, <3>1
    <3> QED  BY <3>1 DEF IsLast
  <2> QED  BY <2>3 DEF Converging
<1> QED  BY <1>1, <1>2

(* Lists that are both empty, with no push owed. *)
LEMMA ConvergeEmpty ==
    ASSUME NEW q, NEW c, NEW g,
           \A i \in DOMAIN q : Owes(q[i], c, g) => q[i].step # "push.lpushGroup"
    PROVE  Converging(q, c, g, FALSE, FALSE)
BY DEF Converging, IsLast

(* The head is replaced, neither the old one nor the new one a second write.*)
LEMMA ConvergeStays ==
    ASSUME NEW q, NEW r, NEW c, NEW g, NEW a \in BOOLEAN, NEW b \in BOOLEAN,
           Converging(q, c, g, a, b),
           DOMAIN r = DOMAIN q, \A i \in DOMAIN q : i # 1 => r[i] = q[i],
           ~Owes(q[1], c, g), ~Owes(r[1], c, g)
    PROVE  Converging(r, c, g, a, b)
<1>1. \A i \in DOMAIN q : Owes(r[i], c, g) <=> Owes(q[i], c, g)
  OBVIOUS
<1>2. \A i \in DOMAIN q : IsLast(r, i, c, g) => IsLast(q, i, c, g) /\ r[i] = q[i]
  BY <1>1 DEF IsLast
<1> QED  BY <1>1, <1>2 DEF Converging
===============================================================================
