---------------------------- MODULE ProgramsProofs ----------------------------
(***************************************************************************)
(* Proofs about the edits of typed programs and about the minimiser, for    *)
(* every set of descriptions of the table, every length limit and every     *)
(* choice of the generator.                                                 *)
(***************************************************************************)
EXTENDS Programs, FiniteSetTheorems, SequenceTheorems, TLAPS

-------------------------------------------------------------------------------
(* Rank and Nth: the order-preserving numbering of a finite set of positions. *)

LEMMA RankType ==
  ASSUME NEW S \in SUBSET Nat, IsFiniteSet(S), NEW i \in Nat
  PROVE  /\ IsFiniteSet({k \in S : k <= i})
         /\ Rank(S, i) \in 0 .. Cardinality(S)
         /\ i \in S => Rank(S, i) >= 1
<1> DEFINE T == {k \in S : k <= i}
<1>1. T \in SUBSET S
  OBVIOUS
<1>2. IsFiniteSet(T) /\ Cardinality(T) <= Cardinality(S)
  BY <1>1, FS_Subset
<1>3. Cardinality(T) \in Nat /\ Cardinality(S) \in Nat
  BY <1>2, FS_CardinalityType
<1>4. i \in S => Cardinality(T) # 0
  <2> SUFFICES ASSUME i \in S PROVE Cardinality(T) # 0
    OBVIOUS
  <2>1. T # {}
    OBVIOUS
  <2> QED BY <1>2, <2>1, FS_EmptySet
<1> QED BY <1>2, <1>3, <1>4 DEF Rank

LEMMA RankIncreases ==
  ASSUME NEW S \in SUBSET Nat, IsFiniteSet(S), NEW i \in S, NEW j \in S, i < j
  PROVE  Rank(S, i) < Rank(S, j)
<1> DEFINE T == {k \in S : k <= i}
           U == {k \in S : k <= j}
<1>1. IsFiniteSet(U) /\ IsFiniteSet(T)
  BY RankType
<1>2. T \in SUBSET U /\ T # U
  <2>1. j \in U /\ j \notin T
    OBVIOUS
  <2>2. \A k \in S : k <= i => k <= j
    OBVIOUS
  <2> QED BY <2>1, <2>2
<1>3. Cardinality(T) <= Cardinality(U) /\ Cardinality(U) # Cardinality(T)
  BY <1>1, <1>2, FS_Subset
<1>4. Cardinality(T) \in Nat /\ Cardinality(U) \in Nat
  BY <1>1, FS_CardinalityType
<1> QED BY <1>3, <1>4 DEF Rank

\* Nth undoes Rank.
LEMMA NthOfRank ==
  ASSUME NEW S \in SUBSET Nat, IsFiniteSet(S), NEW i \in S
  PROVE  Nth(S, Rank(S, i)) = i
<1>1. \A k \in S : Rank(S, k) = Rank(S, i) => k = i
  <2> SUFFICES ASSUME NEW k \in S, Rank(S, k) = Rank(S, i), k # i PROVE FALSE
    OBVIOUS
  <2>1. Rank(S, k) \in Int /\ Rank(S, i) \in Int
    <3>1. k \in Nat /\ i \in Nat
      OBVIOUS
    <3>2. Rank(S, k) \in 0 .. Cardinality(S) /\ Rank(S, i) \in 0 .. Cardinality(S)
      BY <3>1, RankType
    <3>3. Cardinality(S) \in Nat
      BY FS_CardinalityType
    <3> QED BY <3>2, <3>3
  <2>2. CASE k < i
    BY <2>1, <2>2, RankIncreases
  <2>3. CASE i < k
    BY <2>1, <2>3, RankIncreases
  <2> QED BY <2>2, <2>3
<1> QED BY <1>1 DEF Nth

\* Every number up to the size of the set is the rank of a member.
LEMMA NthType ==
  ASSUME NEW S \in SUBSET Nat, IsFiniteSet(S), NEW n \in 1 .. Cardinality(S)
  PROVE  Nth(S, n) \in S /\ Rank(S, Nth(S, n)) = n
<1> DEFINE c == Cardinality(S)
           f == [i \in S |-> Rank(S, i)]
<1>1. c \in Nat
  BY FS_CardinalityType
<1>2. IsFiniteSet(1 .. c) /\ Cardinality(1 .. c) = c
  BY <1>1, FS_Interval
<1>3. f \in [S -> 1 .. c]
  <2> SUFFICES ASSUME NEW i \in S PROVE Rank(S, i) \in 1 .. c
    OBVIOUS
  <2>1. i \in Nat
    OBVIOUS
  <2>2. Rank(S, i) \in 0 .. c /\ Rank(S, i) >= 1
    BY <2>1, RankType
  <2> QED BY <1>1, <2>2
<1>4. ASSUME NEW i \in S, NEW j \in S, f[i] = f[j] PROVE i = j
  <2>1. Nth(S, Rank(S, i)) = i /\ Nth(S, Rank(S, j)) = j
    BY NthOfRank
  <2> QED BY <1>4, <2>1
<1>5. f \in Injection(S, 1 .. c)
  BY <1>3, <1>4 DEF Injection, IsInjective
<1>6. f \in Surjection(S, 1 .. c)
  BY <1>2, <1>5, FS_Injection
<1>7. PICK i \in S : f[i] = n
  BY <1>6 DEF Surjection
<1>8. Rank(S, i) = n
  BY <1>7
<1> QED BY <1>8, NthOfRank

\* A strictly increasing map of positions keeps ranks, so Nth of the image finds it again.
Increasing(K, e) == \A i, k \in K : i < k => e[i] < e[k]
Image(K, e) == {e[i] : i \in K}

LEMMA RankOfImage ==
  ASSUME NEW K \in SUBSET Nat, IsFiniteSet(K), NEW e \in [K -> Nat], Increasing(K, e)
  PROVE  /\ IsFiniteSet(Image(K, e)) /\ Cardinality(Image(K, e)) = Cardinality(K)
         /\ \A i \in K : Nth(Image(K, e), Rank(K, i)) = e[i]
<1> SUFFICES ASSUME NEW I, I = {e[i] : i \in K}
             PROVE  /\ IsFiniteSet(I) /\ Cardinality(I) = Cardinality(K)
                    /\ \A i \in K : Nth(I, Rank(K, i)) = e[i]
  BY DEF Image
<1>1. ASSUME NEW i \in K, NEW k \in K PROVE e[i] <= e[k] <=> i <= k
  <2>1. i \in Nat /\ k \in Nat /\ e[i] \in Nat /\ e[k] \in Nat
    OBVIOUS
  <2>2. (i < k => e[i] < e[k]) /\ (k < i => e[k] < e[i])
    BY DEF Increasing
  <2> QED BY <2>1, <2>2
<1>2. ASSUME NEW T \in SUBSET K, NEW V, V = {e[i] : i \in T}
      PROVE  IsFiniteSet(V) /\ Cardinality(V) = Cardinality(T)
  <2> DEFINE f == [i \in T |-> e[i]]
  <2>1. IsFiniteSet(T)
    BY FS_Subset
  <2>2. f \in [T -> V] /\ \A v \in V : \E i \in T : f[i] = v
    BY <1>2
  <2>3. ASSUME NEW i \in T, NEW k \in T, f[i] = f[k] PROVE i = k
    <3>1. e[i] = e[k] /\ e[i] \in Nat /\ i \in Nat /\ k \in Nat
      BY <2>3
    <3>2. i <= k /\ k <= i
      BY <1>1, <3>1
    <3> QED BY <3>1, <3>2
  <2>4. f \in Injection(T, V) /\ f \in Surjection(T, V)
    BY <2>2, <2>3 DEF Injection, IsInjective, Surjection
  <2>5. ExistsBijection(T, V)
    BY <2>4 DEF ExistsBijection, Bijection
  <2> QED BY <2>1, <2>5, FS_Bijection
<1>3. IsFiniteSet(I) /\ Cardinality(I) = Cardinality(K)
  BY <1>2
<1>4. ASSUME NEW i \in K PROVE Nth(I, Rank(K, i)) = e[i]
  <2> DEFINE T == {k \in K : k <= i}
             V == {v \in I : v <= e[i]}
  <2>1. V = {e[k] : k \in T}
    BY <1>1
  <2>2. Cardinality(V) = Cardinality(T)
    BY <1>2, <2>1
  <2>3. Rank(I, e[i]) = Rank(K, i)
    BY <2>2 DEF Rank
  <2>4. I \in SUBSET Nat /\ e[i] \in I
    OBVIOUS
  <2> QED BY <1>3, <2>3, <2>4, NthOfRank
<1> QED BY <1>3, <1>4

-------------------------------------------------------------------------------
(* Types of calls and programs. *)

Ref == [call : Nat, slot : Nat]
Held(d) == UNION {DataVals(d.args[j]) : j \in DataArgs(d)}
Values == (UNION {Held(d) : d \in SYSCALLS}) \cup {WILD}

\* Data an argument of type ty may hold: generated, or a pointer overwritten by mutate_cmplog.
DataOK(ty, v) == v \in DataVals(ty) \/ (ty.t = "ptr" /\ ty.nullable /\ v = WILD)

CallsOf(d) ==
  {c \in [desc : {d}, refs : [ResArgs(d) -> Ref], data : [DataArgs(d) -> Values]] :
     \A j \in DataArgs(d) : DataOK(d.args[j], c.data[j])}
AnyCall == UNION {CallsOf(d) : d \in SYSCALLS}

\* What membership in AnyCall says, field by field.
LEMMA CallFields ==
  ASSUME NEW c \in AnyCall
  PROVE  /\ c = [desc |-> c.desc, refs |-> c.refs, data |-> c.data]
         /\ c.desc \in SYSCALLS
         /\ c.refs \in [ResArgs(c.desc) -> Ref]
         /\ c.data \in [DataArgs(c.desc) -> Values]
         /\ \A j \in DataArgs(c.desc) : DataOK(c.desc.args[j], c.data[j])
BY DEF AnyCall, CallsOf

LEMMA CallBuilt ==
  ASSUME NEW d \in SYSCALLS, NEW r \in [ResArgs(d) -> Ref], NEW x \in [DataArgs(d) -> Values],
         \A j \in DataArgs(d) : DataOK(d.args[j], x[j])
  PROVE  [desc |-> d, refs |-> r, data |-> x] \in AnyCall
<1>1. [desc |-> d, refs |-> r, data |-> x] \in CallsOf(d)
  BY DEF CallsOf
<1> QED BY <1>1 DEF AnyCall

\* Replacing the references of a call.
LEMMA CallReplaced ==
  ASSUME NEW c \in AnyCall, NEW r \in [ResArgs(c.desc) -> Ref]
  PROVE  /\ [c EXCEPT !.refs = r] \in AnyCall
         /\ [c EXCEPT !.refs = r].desc = c.desc
         /\ [c EXCEPT !.refs = r].data = c.data
         /\ [c EXCEPT !.refs = r].refs = r
<1>1. [c EXCEPT !.refs = r] = [desc |-> c.desc, refs |-> r, data |-> c.data]
  BY CallFields
<1>2. [desc |-> c.desc, refs |-> r, data |-> c.data] \in AnyCall
  BY CallFields, CallBuilt
<1> QED BY <1>1, <1>2

-------------------------------------------------------------------------------
(* Well-formed programs, and edits that carry calls over. *)

\* r may stand for a resource of kind want in position n of p.
Fits(p, n, want, r) ==
  /\ r.call \in 1 .. n - 1
  /\ r.slot \in 0 .. 1
  /\ r.slot \in Slots(p[r.call].desc)
  /\ kind_compat(want, p[r.call].desc.produces.kind)

GoodRef(p, n, j) == \/ p[n].refs[j] = Seed
                    \/ Fits(p, n, p[n].desc.args[j].kind, p[n].refs[j])
Wf(p) == \A n \in 1 .. Len(p) : \A j \in ResArgs(p[n].desc) : GoodRef(p, n, j)

LEMMA CompatibleFits ==
  ASSUME NEW p, NEW n \in Nat, NEW want, NEW r
  PROVE  /\ r \in Compatible(p, n, want) => r \in Ref /\ Fits(p, n, want, r)
         /\ r \in Ref /\ Fits(p, n, want, r) => r \in Compatible(p, n, want)
<1>1. ASSUME r \in Compatible(p, n, want) PROVE r \in Ref /\ Fits(p, n, want, r)
  BY <1>1 DEF Compatible, Produced, Ref, Fits
<1>2. ASSUME r \in Ref, Fits(p, n, want, r) PROVE r \in Compatible(p, n, want)
  <2>1. r = Produced(r.call, r.slot)
    BY <1>2 DEF Ref, Produced
  <2> QED BY <1>2, <2>1 DEF Compatible, Fits
<1> QED BY <1>1, <1>2

LEMMA PickFits ==
  ASSUME NEW p, NEW n \in Nat, NEW want, NEW r \in pick_res(p, n, want)
  PROVE  r \in Ref /\ (r = Seed \/ Fits(p, n, want, r))
<1>1. Seed \in Ref
  BY DEF Seed, Ref
<1> QED BY <1>1, CompatibleFits DEF pick_res

\* The calls K of p are calls of q, at the positions e, with their descriptions; the
\* references, except those in X, follow them.
Carried(p, q, K, e, X) ==
  \A i \in K :
    /\ e[i] \in 1 .. Len(q)
    /\ q[e[i]].desc = p[i].desc
    /\ \A j \in ResArgs(p[i].desc) :
         \/ <<i, j>> \in X
         \/ q[e[i]].refs[j] = IF p[i].refs[j].call \in K
                                THEN Produced(e[p[i].refs[j].call], p[i].refs[j].slot) ELSE Seed

\* If all other references of q are good, q is well-formed.
LEMMA CarriedWf ==
  ASSUME NEW p \in Seq(AnyCall), NEW q \in Seq(AnyCall), Wf(p),
         NEW K \in SUBSET (1 .. Len(p)), NEW e \in [K -> Nat], Increasing(K, e),
         NEW X, Carried(p, q, K, e, X),
         \A i \in K : \A j \in ResArgs(p[i].desc) : <<i, j>> \in X => GoodRef(q, e[i], j),
         \A n \in 1 .. Len(q) : n \in {e[i] : i \in K} \/ \A j \in ResArgs(q[n].desc) : GoodRef(q, n, j)
  PROVE  Wf(q)
<1> SUFFICES ASSUME NEW n \in 1 .. Len(q), NEW j \in ResArgs(q[n].desc) PROVE GoodRef(q, n, j)
  BY DEF Wf
<1>1. CASE n \notin {e[i] : i \in K}
  BY <1>1
<1>2. ASSUME NEW i \in K, n = e[i] PROVE GoodRef(q, n, j)
  <2> DEFINE r == p[i].refs[j]
  <2>1. i \in 1 .. Len(p) /\ Len(p) \in Nat
    OBVIOUS
  <2>2. q[n].desc = p[i].desc
    BY <1>2 DEF Carried
  <2>3. j \in ResArgs(p[i].desc)
    BY <2>2
  <2>4. CASE <<i, j>> \in X
    BY <1>2, <2>3, <2>4
  <2>5. CASE <<i, j>> \notin X
    <3>1. q[n].refs[j] = IF r.call \in K THEN Produced(e[r.call], r.slot) ELSE Seed
      BY <1>2, <2>3, <2>5 DEF Carried
    <3>2. CASE r.call \notin K
      BY <3>1, <3>2 DEF GoodRef
    <3>3. CASE r.call \in K
      <4>1. r # Seed
        BY <3>3 DEF Seed
      <4>2. Fits(p, i, p[i].desc.args[j].kind, r)
        BY <2>1, <2>3, <4>1 DEF Wf, GoodRef
      <4>3. r.call \in Nat /\ r.call < i /\ r.call \in 1 .. Len(p)
        <5>1. r.call \in 1 .. i - 1
          BY <4>2 DEF Fits
        <5> HIDE DEF r
        <5> QED BY <2>1, <5>1
      <4>4. e[r.call] < e[i] /\ e[r.call] \in 1 .. Len(q) /\ q[e[r.call]].desc = p[r.call].desc
        BY <3>3, <4>3 DEF Increasing, Carried
      <4>5. e[i] \in Nat /\ e[r.call] \in 1 .. n - 1
        BY <1>2, <4>4
      <4>6. q[n].refs[j].call = e[r.call] /\ q[n].refs[j].slot = r.slot
        BY <3>1, <3>3 DEF Produced
      <4>7. Fits(q, n, q[n].desc.args[j].kind, q[n].refs[j])
        BY <2>2, <4>2, <4>4, <4>5, <4>6 DEF Fits
      <4> QED BY <4>7 DEF GoodRef
    <3> QED BY <3>2, <3>3
  <2> QED BY <2>4, <2>5
<1> QED BY <1>1, <1>2

\* The reading of NoRewire and SubsetThreads.
LEMMA CarriedThreads ==
  ASSUME NEW p \in Seq(AnyCall), NEW q \in Seq(AnyCall),
         NEW K \in SUBSET (1 .. Len(p)), NEW e \in [K -> Nat], Increasing(K, e),
         NEW X, Carried(p, q, K, e, X)
  PROVE  /\ Cardinality(K) = Cardinality(Image(K, e)) /\ Threads(p, q, K, Image(K, e), X)
         /\ \A i \in K : Nth(Image(K, e), Rank(K, i)) = e[i]
<1>1. K \in SUBSET Nat /\ IsFiniteSet(K)
  <2>1. IsFiniteSet(1 .. Len(p))
    BY FS_Interval
  <2> QED BY <2>1, FS_Subset
<1>2. Cardinality(K) = Cardinality(Image(K, e)) /\ \A i \in K : Nth(Image(K, e), Rank(K, i)) = e[i]
  BY <1>1, RankOfImage
<1>3. \A i \in K : q[Nth(Image(K, e), Rank(K, i))].desc = p[i].desc
  BY <1>2 DEF Carried
<1>4. ASSUME NEW i \in K, NEW j \in DOMAIN p[i].refs, <<i, j>> \notin X
      PROVE  q[Nth(Image(K, e), Rank(K, i))].refs[j] =
               IF p[i].refs[j].call \in K
                 THEN Produced(Nth(Image(K, e), Rank(K, p[i].refs[j].call)), p[i].refs[j].slot) ELSE Seed
  <2>1. j \in ResArgs(p[i].desc)
    <3>1. p[i] \in AnyCall
      OBVIOUS
    <3> QED BY <1>4, <3>1, CallFields
  <2>2. q[e[i]].refs[j] = IF p[i].refs[j].call \in K
                            THEN Produced(e[p[i].refs[j].call], p[i].refs[j].slot) ELSE Seed
    BY <1>4, <2>1 DEF Carried
  <2>3. Nth(Image(K, e), Rank(K, i)) = e[i]
    BY <1>2
  <2>4. p[i].refs[j].call \in K =>
          Nth(Image(K, e), Rank(K, p[i].refs[j].call)) = e[p[i].refs[j].call]
    BY <1>2
  <2> QED BY <2>2, <2>3, <2>4
<1> QED BY <1>2, <1>3, <1>4 DEF Threads

-------------------------------------------------------------------------------
(* Renumbering. *)

\* MapRefs with the renumbering as a function.
Mapped(p, f) ==
  [i \in DOMAIN p |-> [p[i] EXCEPT !.refs = [j \in DOMAIN p[i].refs |-> f[p[i].refs[j]]]]]

LEMMA MappedProg ==
  ASSUME NEW p \in Seq(AnyCall), NEW f \in [Ref -> Ref]
  PROVE  /\ Mapped(p, f) \in Seq(AnyCall) /\ Len(Mapped(p, f)) = Len(p)
         /\ \A i \in 1 .. Len(p) :
              /\ Mapped(p, f)[i].desc = p[i].desc
              /\ Mapped(p, f)[i].data = p[i].data
              /\ \A j \in ResArgs(p[i].desc) : Mapped(p, f)[i].refs[j] = f[p[i].refs[j]]
<1> DEFINE m == Mapped(p, f)
           g(i) == [j \in DOMAIN p[i].refs |-> f[p[i].refs[j]]]
<1>1. DOMAIN p = 1 .. Len(p) /\ Len(p) \in Nat
  OBVIOUS
<1>2. ASSUME NEW i \in 1 .. Len(p)
      PROVE  /\ m[i] \in AnyCall /\ m[i].desc = p[i].desc /\ m[i].data = p[i].data
             /\ \A j \in ResArgs(p[i].desc) : m[i].refs[j] = f[p[i].refs[j]]
  <2>1. p[i] \in AnyCall
    OBVIOUS
  <2>2. p[i].refs \in [ResArgs(p[i].desc) -> Ref]
    BY <2>1, CallFields
  <2>3. g(i) \in [ResArgs(p[i].desc) -> Ref] /\ \A j \in ResArgs(p[i].desc) : g(i)[j] = f[p[i].refs[j]]
    BY <2>2
  <2>4. m[i] = [p[i] EXCEPT !.refs = g(i)]
    BY <1>1 DEF Mapped
  <2> HIDE DEF m, g
  <2> QED BY <2>1, <2>3, <2>4, CallReplaced
<1>3. m = [i \in 1 .. Len(p) |-> m[i]]
  BY <1>1 DEF Mapped
<1>4. m \in Seq(AnyCall) /\ Len(m) = Len(p)
  <2> HIDE DEF m
  <2>1. m \in [1 .. Len(p) -> AnyCall]
    BY <1>2, <1>3
  <2> QED BY <1>1, <2>1, SeqDef
<1> QED BY <1>2, <1>4

Bump(at) == [r \in Ref |-> IF r.call >= at THEN Produced(r.call + 1, r.slot) ELSE r]
Drop(at) == [r \in Ref |-> IF r.call = at THEN Seed
                           ELSE IF r.call > at THEN Produced(r.call - 1, r.slot) ELSE r]
Shift == [r \in Ref |-> IF IsSeed(r) THEN r ELSE Produced(r.call + 2, r.slot)]
Renamed(S) == [r \in Ref |-> IF r.call \in S THEN Produced(Rank(S, r.call), r.slot) ELSE Seed]

\* Every renumbering of the code is one of these.
LEMMA RenumberInsert ==
  ASSUME NEW p \in Seq(AnyCall), NEW at \in Nat \ {0}
  PROVE  renumber_after_insert(p, at) = Mapped(p, Bump(at)) /\ Bump(at) \in [Ref -> Ref]
<1>1. Bump(at) \in [Ref -> Ref]
  BY DEF Bump, Ref, Produced
<1>2. \A i \in DOMAIN p : \A j \in DOMAIN p[i].refs : p[i].refs[j] \in Ref
  BY CallFields
<1> QED BY <1>1, <1>2 DEF renumber_after_insert, MapRefs, Mapped, Bump

LEMMA RenumberRemove ==
  ASSUME NEW p \in Seq(AnyCall), NEW at \in Nat \ {0}
  PROVE  renumber_after_remove(p, at) = Mapped(p, Drop(at)) /\ Drop(at) \in [Ref -> Ref]
<1>1. Drop(at) \in [Ref -> Ref]
  BY DEF Drop, Ref, Produced, Seed
<1>2. \A i \in DOMAIN p : \A j \in DOMAIN p[i].refs : p[i].refs[j] \in Ref
  BY CallFields
<1> QED BY <1>1, <1>2 DEF renumber_after_remove, MapRefs, Mapped, Drop

\* Inserted(p, at, c): the calls before at stay, c is at at, the others follow.
LEMMA InsertedProg ==
  ASSUME NEW p \in Seq(AnyCall), NEW at \in 1 .. Len(p) + 1, NEW c \in AnyCall
  PROVE  /\ Inserted(p, at, c) \in Seq(AnyCall)
         /\ Len(Inserted(p, at, c)) = Len(p) + 1
         /\ \A n \in 1 .. Len(p) + 1 :
              Inserted(p, at, c)[n] = IF n < at THEN Mapped(p, Bump(at))[n]
                                      ELSE IF n = at THEN c ELSE Mapped(p, Bump(at))[n - 1]
<1> DEFINE q == Mapped(p, Bump(at))
           a == SubSeq(q, 1, at - 1)
           b == SubSeq(q, at, Len(q))
<1>1. at \in Nat \ {0} /\ Len(p) \in Nat
  OBVIOUS
<1>2. renumber_after_insert(p, at) = q /\ q \in Seq(AnyCall) /\ Len(q) = Len(p)
  BY <1>1, RenumberInsert, MappedProg
<1>3. Inserted(p, at, c) = a \o <<c>> \o b
  BY <1>2 DEF Inserted
<1> HIDE DEF q
<1>4. /\ a \in Seq(AnyCall) /\ Len(a) = at - 1
      /\ \A i \in 1 .. at - 1 : a[i] = q[i]
  <2>1. \A i \in 1 .. at - 1 : q[i] \in AnyCall
    BY <1>1, <1>2
  <2>2. /\ a \in Seq(AnyCall)
        /\ Len(a) = IF 1 <= at - 1 THEN at - 1 - 1 + 1 ELSE 0
        /\ \A i \in 1 .. at - 1 - 1 + 1 : a[i] = q[1 + i - 1]
    BY <1>1, <2>1, SubSeqProperties
  <2> HIDE DEF a
  <2> QED BY <1>1, <2>2
<1>5. /\ b \in Seq(AnyCall) /\ Len(b) = Len(p) + 1 - at
      /\ \A i \in 1 .. Len(p) + 1 - at : b[i] = q[at + i - 1]
  <2>1. \A i \in at .. Len(q) : q[i] \in AnyCall
    BY <1>1, <1>2
  <2>2. /\ b \in Seq(AnyCall)
        /\ Len(b) = IF at <= Len(q) THEN Len(q) - at + 1 ELSE 0
        /\ \A i \in 1 .. Len(q) - at + 1 : b[i] = q[at + i - 1]
    BY <1>1, <1>2, <2>1, SubSeqProperties
  <2> HIDE DEF b
  <2> QED BY <1>1, <1>2, <2>2
<1> HIDE DEF a, b
<1>6. /\ a \o <<c>> \in Seq(AnyCall) /\ Len(a \o <<c>>) = at
      /\ \A i \in 1 .. at : (a \o <<c>>)[i] = IF i < at THEN q[i] ELSE c
  <2>1. <<c>> \in Seq(AnyCall) /\ Len(<<c>>) = 1 /\ <<c>>[1] = c
    OBVIOUS
  <2>2. /\ a \o <<c>> \in Seq(AnyCall)
        /\ Len(a \o <<c>>) = Len(a) + Len(<<c>>)
        /\ \A i \in 1 .. Len(a) + Len(<<c>>) :
             (a \o <<c>>)[i] = IF i <= Len(a) THEN a[i] ELSE <<c>>[i - Len(a)]
    BY <1>4, <2>1, ConcatProperties
  <2> QED BY <1>1, <1>4, <2>1, <2>2
<1> DEFINE s == a \o <<c>>
<1>7. s \in Seq(AnyCall)
  BY <1>6
<1> HIDE DEF s
<1>8. /\ s \o b \in Seq(AnyCall) /\ Len(s \o b) = Len(s) + Len(b)
      /\ \A i \in 1 .. Len(s) + Len(b) : (s \o b)[i] = IF i <= Len(s) THEN s[i] ELSE b[i - Len(s)]
  BY <1>5, <1>7, ConcatProperties
<1>9. Len(s) = at /\ \A i \in 1 .. at : s[i] = IF i < at THEN q[i] ELSE c
  BY <1>6 DEF s
<1>10. ASSUME NEW n \in 1 .. Len(p) + 1
      PROVE  (s \o b)[n] = IF n < at THEN q[n] ELSE IF n = at THEN c ELSE q[n - 1]
  <2>1. (s \o b)[n] = IF n <= at THEN s[n] ELSE b[n - at]
    <3>1. n \in 1 .. Len(s) + Len(b)
      BY <1>1, <1>5, <1>9
    <3>2. (s \o b)[n] = IF n <= Len(s) THEN s[n] ELSE b[n - Len(s)]
      BY <1>8, <3>1
    <3> QED BY <1>9, <3>2
  <2>2. CASE n <= at
    BY <1>9, <2>1, <2>2
  <2>3. CASE n > at
    <3>1. n - at \in 1 .. Len(p) + 1 - at /\ at + (n - at) - 1 = n - 1
      BY <1>1, <2>3
    <3>2. b[n - at] = q[n - 1]
      BY <1>5, <3>1
    <3> QED BY <1>1, <2>1, <2>3, <3>2
  <2>4. n <= at \/ n > at
    BY <1>1
  <2> QED BY <2>2, <2>3, <2>4
<1>11. Inserted(p, at, c) = s \o b
  BY <1>3 DEF s
<1>12. Len(s \o b) = Len(p) + 1
  BY <1>1, <1>5, <1>8, <1>9
<1> QED BY <1>8, <1>10, <1>11, <1>12 DEF q

\* An edit that carries calls over and adds good ones leaves a well-formed program.
LEMMA CarriedFresh ==
  ASSUME NEW p \in Seq(AnyCall), NEW q \in Seq(AnyCall), Wf(p),
         NEW K \in SUBSET (1 .. Len(p)), NEW e \in [K -> Nat], Increasing(K, e),
         Carried(p, q, K, e, {}),
         \A n \in 1 .. Len(q) : n \in {e[i] : i \in K} \/ \A j \in ResArgs(q[n].desc) : GoodRef(q, n, j)
  PROVE  Wf(q)
<1>1. \A i \in K : \A j \in ResArgs(p[i].desc) : <<i, j>> \in {} => GoodRef(q, e[i], j)
  OBVIOUS
<1> DEFINE X == {}
<1>2. /\ Carried(p, q, K, e, X)
      /\ \A i \in K : \A j \in ResArgs(p[i].desc) : <<i, j>> \in X => GoodRef(q, e[i], j)
  BY <1>1
<1> HIDE DEF X
<1> QED BY <1>2, CarriedWf

\* What well-formedness says of one reference.
LEMMA RefCases ==
  ASSUME NEW p \in Seq(AnyCall), Wf(p), NEW i \in 1 .. Len(p), NEW j \in ResArgs(p[i].desc)
  PROVE  /\ p[i].refs[j] \in Ref
         /\ p[i].refs[j] = Produced(p[i].refs[j].call, p[i].refs[j].slot)
         /\ \/ p[i].refs[j] = Seed /\ p[i].refs[j].call = 0
            \/ p[i].refs[j].call \in 1 .. i - 1 /\ Fits(p, i, p[i].desc.args[j].kind, p[i].refs[j])
<1>1. p[i] \in AnyCall
  OBVIOUS
<1>2. p[i].refs[j] \in Ref
  BY <1>1, CallFields
<1>3. GoodRef(p, i, j)
  BY DEF Wf
<1>4. p[i].refs[j] = Produced(p[i].refs[j].call, p[i].refs[j].slot)
  <2> DEFINE r == p[i].refs[j]
  <2>1. r \in Ref
    BY <1>2
  <2> HIDE DEF r
  <2>2. r = Produced(r.call, r.slot)
    BY <2>1 DEF Ref, Produced
  <2> QED BY <2>2 DEF r
<1>5. CASE p[i].refs[j] = Seed
  BY <1>2, <1>4, <1>5 DEF Seed
<1>6. CASE Fits(p, i, p[i].desc.args[j].kind, p[i].refs[j])
  <2>1. p[i].refs[j].call \in 1 .. i - 1
    BY <1>6 DEF Fits
  <2> QED BY <1>2, <1>4, <1>6, <2>1
<1> QED BY <1>3, <1>5, <1>6 DEF GoodRef

\* c may stand in position n of p.
Placed(p, n, c) ==
  \A j \in ResArgs(c.desc) : c.refs[j] = Seed \/ Fits(p, n, c.desc.args[j].kind, c.refs[j])

AfterInsert(p, at) == [i \in 1 .. Len(p) |-> IF i < at THEN i ELSE i + 1]

LEMMA InsertCarries ==
  ASSUME NEW p \in Seq(AnyCall), Wf(p), NEW at \in 1 .. Len(p) + 1, NEW c \in AnyCall,
         Placed(p, at, c)
  PROVE  /\ AfterInsert(p, at) \in [1 .. Len(p) -> Nat]
         /\ Increasing(1 .. Len(p), AfterInsert(p, at))
         /\ Carried(p, Inserted(p, at, c), 1 .. Len(p), AfterInsert(p, at), {})
         /\ Inserted(p, at, c)[at] = c
         /\ Wf(Inserted(p, at, c))
<1> DEFINE K == 1 .. Len(p)
           e == AfterInsert(p, at)
           q == Inserted(p, at, c)
           m == Mapped(p, Bump(at))
<1>1. Len(p) \in Nat /\ at \in Nat \ {0}
  OBVIOUS
<1>2. e \in [K -> Nat] /\ Increasing(K, e)
  BY <1>1 DEF AfterInsert, Increasing
<1>3. /\ q \in Seq(AnyCall) /\ Len(q) = Len(p) + 1
      /\ \A n \in 1 .. Len(p) + 1 : q[n] = IF n < at THEN m[n] ELSE IF n = at THEN c ELSE m[n - 1]
  BY InsertedProg
<1>4. Bump(at) \in [Ref -> Ref]
  BY <1>1, RenumberInsert
<1>5. \A i \in K : /\ m[i].desc = p[i].desc
                   /\ \A j \in ResArgs(p[i].desc) : m[i].refs[j] = Bump(at)[p[i].refs[j]]
  BY <1>4, MappedProg
<1> HIDE DEF q, m
<1>6. ASSUME NEW i \in K PROVE e[i] \in 1 .. Len(p) + 1 /\ q[e[i]] = m[i]
  <2>1. i \in Nat /\ e[i] = IF i < at THEN i ELSE i + 1
    BY <1>1 DEF AfterInsert
  <2>2. CASE i < at
    BY <1>1, <1>3, <2>1, <2>2
  <2>3. CASE ~(i < at)
    <3>1. i + 1 \in 1 .. Len(p) + 1 /\ ~(i + 1 < at) /\ i + 1 # at /\ i + 1 - 1 = i
      BY <1>1, <2>1, <2>3
    <3> QED BY <1>3, <2>1, <2>3, <3>1
  <2> QED BY <2>2, <2>3
<1>7. ASSUME NEW i \in K, NEW j \in ResArgs(p[i].desc)
      PROVE  Bump(at)[p[i].refs[j]] =
               IF p[i].refs[j].call \in K THEN Produced(e[p[i].refs[j].call], p[i].refs[j].slot)
               ELSE Seed
  <2> DEFINE r == p[i].refs[j]
  <2>1. /\ r \in Ref /\ r = Produced(r.call, r.slot)
        /\ (r = Seed /\ r.call = 0) \/ r.call \in 1 .. i - 1
    BY RefCases
  <2>2. Bump(at)[r] = IF r.call >= at THEN Produced(r.call + 1, r.slot) ELSE r
    BY <2>1 DEF Bump
  <2> HIDE DEF r
  <2>3. CASE r = Seed /\ r.call = 0
    BY <1>1, <2>2, <2>3 DEF r
  <2>4. CASE r.call \in 1 .. i - 1
    <3>1. r.call \in K /\ e[r.call] = IF r.call < at THEN r.call ELSE r.call + 1
      BY <1>1, <2>4 DEF AfterInsert
    <3> QED BY <1>1, <2>1, <2>2, <2>4, <3>1 DEF r
  <2> QED BY <2>1, <2>3, <2>4
<1>8. Carried(p, q, K, e, {})
  BY <1>3, <1>5, <1>6, <1>7 DEF Carried
<1>9. q[at] = c
  BY <1>1, <1>3
<1>10. ASSUME NEW j \in ResArgs(q[at].desc) PROVE GoodRef(q, at, j)
  <2>1. CASE c.refs[j] = Seed
    BY <1>9, <2>1 DEF GoodRef
  <2>2. CASE Fits(p, at, c.desc.args[j].kind, c.refs[j])
    <3>1. c.refs[j].call \in 1 .. at - 1 /\ c.refs[j].call \in K /\ e[c.refs[j].call] = c.refs[j].call
      BY <1>1, <2>2 DEF Fits, AfterInsert
    <3>2. q[c.refs[j].call].desc = p[c.refs[j].call].desc
      BY <1>8, <3>1 DEF Carried
    <3>3. Fits(q, at, c.desc.args[j].kind, c.refs[j])
      BY <2>2, <3>2 DEF Fits
    <3> QED BY <1>9, <3>3 DEF GoodRef
  <2>3. j \in ResArgs(c.desc)
    BY <1>9
  <2> QED BY <2>1, <2>2, <2>3 DEF Placed
<1>11. ASSUME NEW n \in 1 .. Len(q), n \notin {e[i] : i \in K} PROVE n = at
  <2>1. n \in 1 .. Len(p) + 1
    BY <1>3
  <2>2. ~(n < at)
    <3> SUFFICES ASSUME n < at PROVE FALSE
      OBVIOUS
    <3>1. n \in K /\ e[n] = n
      BY <1>1, <2>1 DEF AfterInsert
    <3> QED BY <1>11, <3>1
  <2>3. ~(n > at)
    <3> SUFFICES ASSUME n > at PROVE FALSE
      OBVIOUS
    <3>1. n - 1 \in K /\ e[n - 1] = n
      BY <1>1, <2>1 DEF AfterInsert
    <3> QED BY <1>11, <3>1
  <2> QED BY <1>1, <2>1, <2>2, <2>3
<1>12. Wf(q)
  <2>1. \A n \in 1 .. Len(q) : n \in {e[i] : i \in K} \/ \A j \in ResArgs(q[n].desc) : GoodRef(q, n, j)
    BY <1>10, <1>11
  <2>2. K \in SUBSET (1 .. Len(p))
    OBVIOUS
  <2> HIDE DEF e, K
  <2> QED BY <1>2, <1>3, <1>8, <2>1, <2>2, CarriedFresh
<1> QED BY <1>2, <1>8, <1>9, <1>12 DEF q

\* One that only carries calls over leaves a well-formed program.
LEMMA CarriedAll ==
  ASSUME NEW p \in Seq(AnyCall), NEW q \in Seq(AnyCall), Wf(p),
         NEW K \in SUBSET (1 .. Len(p)), NEW e \in [K -> Nat], Increasing(K, e),
         Carried(p, q, K, e, {}), 1 .. Len(q) \subseteq {e[i] : i \in K}
  PROVE  Wf(q)
<1>1. \A n \in 1 .. Len(q) : n \in {e[i] : i \in K} \/ \A j \in ResArgs(q[n].desc) : GoodRef(q, n, j)
  OBVIOUS
<1> QED BY <1>1, CarriedFresh

Without(p, at) == SubSeq(p, 1, at - 1) \o SubSeq(p, at + 1, Len(p))
AfterRemove(p, at) == [i \in (1 .. Len(p)) \ {at} |-> IF i < at THEN i ELSE i - 1]

LEMMA WithoutProg ==
  ASSUME NEW p \in Seq(AnyCall), NEW at \in 1 .. Len(p)
  PROVE  /\ Without(p, at) \in Seq(AnyCall) /\ Len(Without(p, at)) = Len(p) - 1
         /\ \A n \in 1 .. Len(p) - 1 : Without(p, at)[n] = IF n < at THEN p[n] ELSE p[n + 1]
<1> DEFINE a == SubSeq(p, 1, at - 1)
           b == SubSeq(p, at + 1, Len(p))
<1>1. Len(p) \in Nat /\ at \in Nat \ {0} /\ at <= Len(p)
  OBVIOUS
<1>2. /\ a \in Seq(AnyCall) /\ Len(a) = at - 1
      /\ \A i \in 1 .. at - 1 : a[i] = p[i]
  <2>1. \A i \in 1 .. at - 1 : p[i] \in AnyCall
    BY <1>1
  <2>2. /\ a \in Seq(AnyCall)
        /\ Len(a) = IF 1 <= at - 1 THEN at - 1 - 1 + 1 ELSE 0
        /\ \A i \in 1 .. at - 1 - 1 + 1 : a[i] = p[1 + i - 1]
    BY <1>1, <2>1, SubSeqProperties
  <2> HIDE DEF a
  <2> QED BY <1>1, <2>2
<1>3. /\ b \in Seq(AnyCall) /\ Len(b) = Len(p) - at
      /\ \A i \in 1 .. Len(p) - at : b[i] = p[at + i]
  <2>1. \A i \in at + 1 .. Len(p) : p[i] \in AnyCall
    BY <1>1
  <2>2. /\ b \in Seq(AnyCall)
        /\ Len(b) = IF at + 1 <= Len(p) THEN Len(p) - (at + 1) + 1 ELSE 0
        /\ \A i \in 1 .. Len(p) - (at + 1) + 1 : b[i] = p[at + 1 + i - 1]
    BY <1>1, <2>1, SubSeqProperties
  <2> HIDE DEF b
  <2> QED BY <1>1, <2>2
<1> HIDE DEF a, b
<1>4. /\ a \o b \in Seq(AnyCall) /\ Len(a \o b) = Len(a) + Len(b)
      /\ \A i \in 1 .. Len(a) + Len(b) : (a \o b)[i] = IF i <= Len(a) THEN a[i] ELSE b[i - Len(a)]
  BY <1>2, <1>3, ConcatProperties
<1>5. Without(p, at) = a \o b
  BY DEF Without, a, b
<1>6. ASSUME NEW n \in 1 .. Len(p) - 1 PROVE (a \o b)[n] = IF n < at THEN p[n] ELSE p[n + 1]
  <2>1. (a \o b)[n] = IF n < at THEN a[n] ELSE b[n - (at - 1)]
    BY <1>1, <1>2, <1>3, <1>4
  <2>2. CASE n < at
    BY <1>1, <1>2, <2>1, <2>2
  <2>3. CASE ~(n < at)
    <3>1. n - (at - 1) \in 1 .. Len(p) - at /\ at + (n - (at - 1)) = n + 1
      BY <1>1, <2>3
    <3> QED BY <1>3, <2>1, <2>3, <3>1
  <2> QED BY <2>2, <2>3
<1> QED BY <1>1, <1>2, <1>3, <1>4, <1>5, <1>6

LEMMA RemoveCarries ==
  ASSUME NEW p \in Seq(AnyCall), Wf(p), NEW at \in 1 .. Len(p),
         NEW q, q = renumber_after_remove(Without(p, at), at)
  PROVE  /\ q \in Seq(AnyCall) /\ Len(q) = Len(p) - 1
         /\ AfterRemove(p, at) \in [(1 .. Len(p)) \ {at} -> Nat]
         /\ Increasing((1 .. Len(p)) \ {at}, AfterRemove(p, at))
         /\ Carried(p, q, (1 .. Len(p)) \ {at}, AfterRemove(p, at), {})
         /\ {AfterRemove(p, at)[i] : i \in (1 .. Len(p)) \ {at}} = 1 .. Len(q)
         /\ Wf(q)
<1> DEFINE K == (1 .. Len(p)) \ {at}
           e == AfterRemove(p, at)
           s == Without(p, at)
<1>1. Len(p) \in Nat /\ at \in Nat \ {0} /\ at <= Len(p)
  OBVIOUS
<1>2. e \in [K -> Nat] /\ Increasing(K, e)
  BY <1>1 DEF AfterRemove, Increasing
<1>3. /\ s \in Seq(AnyCall) /\ Len(s) = Len(p) - 1
      /\ \A n \in 1 .. Len(p) - 1 : s[n] = IF n < at THEN p[n] ELSE p[n + 1]
  BY WithoutProg
<1> HIDE DEF s
<1>4. q = Mapped(s, Drop(at)) /\ Drop(at) \in [Ref -> Ref]
  BY <1>1, <1>3, RenumberRemove DEF s
<1>5. /\ q \in Seq(AnyCall) /\ Len(q) = Len(p) - 1
      /\ \A n \in 1 .. Len(p) - 1 :
           /\ q[n].desc = s[n].desc
           /\ \A j \in ResArgs(s[n].desc) : q[n].refs[j] = Drop(at)[s[n].refs[j]]
  <2> DEFINE f == Drop(at)
  <2>1. q = Mapped(s, f) /\ f \in [Ref -> Ref]
    BY <1>4
  <2> HIDE DEF f
  <2>2. s \in Seq(AnyCall)
    BY <1>3
  <2>3. /\ Mapped(s, f) \in Seq(AnyCall) /\ Len(Mapped(s, f)) = Len(s)
        /\ \A n \in 1 .. Len(s) :
             /\ Mapped(s, f)[n].desc = s[n].desc
             /\ \A j \in ResArgs(s[n].desc) : Mapped(s, f)[n].refs[j] = f[s[n].refs[j]]
    BY <2>1, <2>2, MappedProg
  <2> QED BY <1>3, <2>1, <2>3 DEF f
<1>6. ASSUME NEW i \in K PROVE e[i] \in 1 .. Len(p) - 1 /\ s[e[i]] = p[i]
  <2>1. i \in 1 .. Len(p) /\ i # at /\ e[i] = IF i < at THEN i ELSE i - 1
    BY <1>1 DEF AfterRemove
  <2>2. CASE i < at
    BY <1>1, <1>3, <2>1, <2>2
  <2>3. CASE ~(i < at)
    <3>1. i - 1 \in 1 .. Len(p) - 1 /\ ~(i - 1 < at) /\ i - 1 + 1 = i
      BY <1>1, <2>1, <2>3
    <3> QED BY <1>3, <2>1, <2>3, <3>1
  <2> QED BY <2>2, <2>3
<1>7. ASSUME NEW i \in K, NEW j \in ResArgs(p[i].desc)
      PROVE  Drop(at)[p[i].refs[j]] =
               IF p[i].refs[j].call \in K THEN Produced(e[p[i].refs[j].call], p[i].refs[j].slot)
               ELSE Seed
  <2> DEFINE r == p[i].refs[j]
  <2>1. /\ r \in Ref /\ r = Produced(r.call, r.slot)
        /\ (r = Seed /\ r.call = 0) \/ r.call \in 1 .. i - 1
    BY RefCases
  <2>2. Drop(at)[r] = IF r.call = at THEN Seed
                      ELSE IF r.call > at THEN Produced(r.call - 1, r.slot) ELSE r
    BY <2>1 DEF Drop
  <2> HIDE DEF r
  <2>3. CASE r = Seed /\ r.call = 0
    BY <1>1, <2>2, <2>3 DEF r
  <2>4. CASE r.call \in 1 .. i - 1
    <3>1. r.call \in 1 .. Len(p)
      BY <1>1, <2>4
    <3>2. CASE r.call = at
      BY <2>2, <3>2 DEF r
    <3>3. CASE r.call # at
      <4>1. r.call \in K /\ e[r.call] = IF r.call < at THEN r.call ELSE r.call - 1
        BY <3>1, <3>3 DEF AfterRemove
      <4> QED BY <1>1, <2>1, <2>2, <3>1, <3>3, <4>1 DEF r
    <3> QED BY <3>2, <3>3
  <2> QED BY <2>1, <2>3, <2>4
<1>8. Carried(p, q, K, e, {})
  <2> SUFFICES ASSUME NEW i \in K
               PROVE  /\ e[i] \in 1 .. Len(q) /\ q[e[i]].desc = p[i].desc
                      /\ \A j \in ResArgs(p[i].desc) :
                           q[e[i]].refs[j] = IF p[i].refs[j].call \in K
                             THEN Produced(e[p[i].refs[j].call], p[i].refs[j].slot) ELSE Seed
    BY DEF Carried
  <2>1. e[i] \in 1 .. Len(p) - 1 /\ s[e[i]] = p[i]
    BY <1>6
  <2>2. /\ q[e[i]].desc = p[i].desc
        /\ \A j \in ResArgs(p[i].desc) : q[e[i]].refs[j] = Drop(at)[p[i].refs[j]]
    <3> DEFINE n == e[i]
    <3>1. n \in 1 .. Len(p) - 1 /\ s[n] = p[i]
      BY <2>1
    <3> HIDE DEF n, e
    <3>2. q[n].desc = s[n].desc /\ \A j \in ResArgs(s[n].desc) : q[n].refs[j] = Drop(at)[s[n].refs[j]]
      BY <1>5, <3>1
    <3>3. q[n].desc = p[i].desc /\ \A j \in ResArgs(p[i].desc) : q[n].refs[j] = Drop(at)[p[i].refs[j]]
      BY <3>1, <3>2
    <3> QED BY <3>3 DEF n
  <2> QED BY <1>5, <1>7, <2>1, <2>2
<1>9. {e[i] : i \in K} = 1 .. Len(q)
  <2>1. ASSUME NEW n \in 1 .. Len(q) PROVE \E i \in K : e[i] = n
    <3>1. CASE n < at
      <4>1. n \in K /\ e[n] = n
        BY <1>1, <1>5, <3>1 DEF AfterRemove
      <4> QED BY <4>1
    <3>2. CASE ~(n < at)
      <4>1. n + 1 \in K /\ e[n + 1] = n
        BY <1>1, <1>5, <3>2 DEF AfterRemove
      <4> QED BY <4>1
    <3> QED BY <3>1, <3>2
  <2>2. ASSUME NEW i \in K PROVE e[i] \in 1 .. Len(q)
    BY <1>5, <1>6
  <2> HIDE DEF e, K
  <2> QED BY <2>1, <2>2
<1>10. Wf(q)
  <2>1. K \in SUBSET (1 .. Len(p))
    OBVIOUS
  <2> HIDE DEF e, K
  <2> QED BY <1>2, <1>5, <1>8, <1>9, <2>1, CarriedAll
<1> QED BY <1>2, <1>5, <1>8, <1>9, <1>10

-------------------------------------------------------------------------------
(* Generated calls, and edits of one argument. *)

LEMMA DataTypes ==
  ASSUME NEW d \in SYSCALLS, NEW x \in Data(d)
  PROVE  x \in [DataArgs(d) -> Values] /\ \A j \in DataArgs(d) : DataOK(d.args[j], x[j])
<1>1. x = [j \in DataArgs(d) |-> x[j]] /\ \A j \in DataArgs(d) : x[j] \in DataVals(d.args[j])
  BY DEF Data
<1>2. \A j \in DataArgs(d) : DataVals(d.args[j]) \subseteq Values
  <2>1. \A j \in DataArgs(d) : DataVals(d.args[j]) \subseteq Held(d)
    BY DEF Held
  <2>2. Held(d) \subseteq Values
    BY DEF Values
  <2> QED BY <2>1, <2>2
<1> QED BY <1>1, <1>2 DEF DataOK

\* generate_args makes a call that may stand where it is generated for.
LEMMA CallsPlaced ==
  ASSUME NEW p, NEW n \in Nat, NEW d \in SYSCALLS, NEW c \in Calls(p, n, d)
  PROVE  c \in AnyCall /\ c.desc = d /\ Placed(p, n, c)
<1> DEFINE refs == {f \in [ResArgs(d) -> UNION {pick_res(p, n, d.args[j].kind) : j \in ResArgs(d)}] :
                      \A j \in ResArgs(d) : f[j] \in pick_res(p, n, d.args[j].kind)}
<1>1. PICK r \in refs, x \in Data(d) : c = [desc |-> d, refs |-> r, data |-> x]
  BY DEF Calls
<1>2. /\ r = [j \in ResArgs(d) |-> r[j]]
      /\ \A j \in ResArgs(d) : r[j] \in pick_res(p, n, d.args[j].kind)
  BY <1>1
<1> HIDE DEF refs
<1>3. \A j \in ResArgs(d) : r[j] \in Ref /\ (r[j] = Seed \/ Fits(p, n, d.args[j].kind, r[j]))
  BY <1>2, PickFits
<1>4. r \in [ResArgs(d) -> Ref]
  BY <1>3, <1>2
<1>5. x \in [DataArgs(d) -> Values] /\ \A j \in DataArgs(d) : DataOK(d.args[j], x[j])
  BY <1>1, DataTypes
<1>6. c \in AnyCall
  BY <1>1, <1>4, <1>5, CallBuilt
<1> QED BY <1>1, <1>3, <1>6 DEF Placed

WithRef(p, i, j, r) == [p EXCEPT ![i].refs[j] = r]
WithData(p, i, j, v) == [p EXCEPT ![i].data[j] = v]

\* q is p with reference j of call i replaced.
Replaces(p, q, i, j, r) ==
  /\ q \in Seq(AnyCall) /\ Len(q) = Len(p)
  /\ \A n \in 1 .. Len(p) :
       /\ q[n].desc = p[n].desc
       /\ \A k \in ResArgs(p[n].desc) : q[n].refs[k] = IF n = i /\ k = j THEN r ELSE p[n].refs[k]

LEMMA RefReplaced ==
  ASSUME NEW p \in Seq(AnyCall), NEW i \in 1 .. Len(p), NEW j \in ResArgs(p[i].desc), NEW r \in Ref,
         NEW q, q = WithRef(p, i, j, r)
  PROVE  Replaces(p, q, i, j, r)
<1> DEFINE g == [p[i].refs EXCEPT ![j] = r]
           c == [p[i] EXCEPT !.refs = g]
<1>1. p[i] \in AnyCall
  OBVIOUS
<1>2. p[i].refs \in [ResArgs(p[i].desc) -> Ref]
  BY <1>1, CallFields
<1>3. g \in [ResArgs(p[i].desc) -> Ref] /\ \A k \in ResArgs(p[i].desc) : g[k] = IF k = j THEN r ELSE p[i].refs[k]
  BY <1>2
<1>4. q = [p EXCEPT ![i] = c]
  BY DEF WithRef
<1>5. c \in AnyCall /\ c.desc = p[i].desc /\ c.refs = g
  <2> HIDE DEF g
  <2> QED BY <1>1, <1>3, CallReplaced
<1> HIDE DEF c
<1>6. /\ [p EXCEPT ![i] = c] \in Seq(AnyCall) /\ Len([p EXCEPT ![i] = c]) = Len(p)
      /\ \A n \in 1 .. Len(p) : [p EXCEPT ![i] = c][n] = IF n = i THEN c ELSE p[n]
  BY <1>5, ExceptSeq
<1> HIDE DEF g
<1> QED BY <1>3, <1>4, <1>5, <1>6 DEF Replaces

\* One piece of data is replaced.
LEMMA DataReplaced ==
  ASSUME NEW p \in Seq(AnyCall), NEW i \in 1 .. Len(p), NEW j \in DataArgs(p[i].desc), NEW v \in Values,
         DataOK(p[i].desc.args[j], v), NEW q, q = WithData(p, i, j, v)
  PROVE  /\ q \in Seq(AnyCall) /\ Len(q) = Len(p)
         /\ \A n \in 1 .. Len(p) : q[n].desc = p[n].desc /\ q[n].refs = p[n].refs
<1> DEFINE g == [p[i].data EXCEPT ![j] = v]
           c == [p[i] EXCEPT !.data = g]
<1>1. p[i] \in AnyCall
  OBVIOUS
<1>2. /\ p[i] = [desc |-> p[i].desc, refs |-> p[i].refs, data |-> p[i].data]
      /\ p[i].desc \in SYSCALLS
      /\ p[i].refs \in [ResArgs(p[i].desc) -> Ref]
      /\ p[i].data \in [DataArgs(p[i].desc) -> Values]
      /\ \A k \in DataArgs(p[i].desc) : DataOK(p[i].desc.args[k], p[i].data[k])
  BY <1>1, CallFields
<1>3. g \in [DataArgs(p[i].desc) -> Values] /\ \A k \in DataArgs(p[i].desc) : DataOK(p[i].desc.args[k], g[k])
  BY <1>2
<1>4. q = [p EXCEPT ![i] = c]
  BY DEF WithData
<1>5. c = [desc |-> p[i].desc, refs |-> p[i].refs, data |-> g]
  BY <1>2
<1>6. c \in AnyCall /\ c.desc = p[i].desc /\ c.refs = p[i].refs
  <2>1. [desc |-> p[i].desc, refs |-> p[i].refs, data |-> g] \in AnyCall
    <3> HIDE DEF g
    <3> QED BY <1>2, <1>3, CallBuilt
  <2> HIDE DEF g
  <2> QED BY <1>5, <2>1
<1> HIDE DEF c
<1>7. /\ [p EXCEPT ![i] = c] \in Seq(AnyCall) /\ Len([p EXCEPT ![i] = c]) = Len(p)
      /\ \A n \in 1 .. Len(p) : [p EXCEPT ![i] = c][n] = IF n = i THEN c ELSE p[n]
  BY <1>6, ExceptSeq
<1> QED BY <1>4, <1>6, <1>7

Same(p) == [i \in 1 .. Len(p) |-> i]

LEMMA SameIncreasing ==
  ASSUME NEW p \in Seq(AnyCall)
  PROVE  /\ Same(p) \in [1 .. Len(p) -> Nat] /\ Increasing(1 .. Len(p), Same(p))
         /\ {Same(p)[i] : i \in 1 .. Len(p)} = 1 .. Len(p)
BY DEF Same, Increasing

\* A reference of p that stays where it is has not been rewired.
LEMMA StaysPut ==
  ASSUME NEW p \in Seq(AnyCall), Wf(p), NEW i \in 1 .. Len(p), NEW j \in ResArgs(p[i].desc)
  PROVE  p[i].refs[j] = IF p[i].refs[j].call \in 1 .. Len(p)
                          THEN Produced(Same(p)[p[i].refs[j].call], p[i].refs[j].slot) ELSE Seed
<1> DEFINE r == p[i].refs[j]
<1>1. r = Produced(r.call, r.slot) /\ ((r = Seed /\ r.call = 0) \/ r.call \in 1 .. i - 1)
  BY RefCases
<1>2. Len(p) \in Nat
  OBVIOUS
<1> HIDE DEF r
<1>3. CASE r = Seed /\ r.call = 0
  BY <1>2, <1>3 DEF r
<1>4. CASE r.call \in 1 .. i - 1
  <2>1. r.call \in 1 .. Len(p)
    BY <1>2, <1>4
  <2>2. Same(p)[r.call] = r.call
    BY <2>1 DEF Same
  <2> QED BY <1>1, <2>1, <2>2 DEF r
<1> QED BY <1>1, <1>3, <1>4

\* A good reference stays good where it and the descriptions before it are the same.
LEMMA GoodSame ==
  ASSUME NEW p, NEW q, NEW n \in Nat, NEW k, GoodRef(p, n, k),
         q[n].desc = p[n].desc, q[n].refs[k] = p[n].refs[k],
         \A m \in 1 .. n - 1 : q[m].desc = p[m].desc
  PROVE  GoodRef(q, n, k)
<1> DEFINE r == p[n].refs[k]
<1>1. CASE r = Seed
  BY <1>1 DEF GoodRef
<1>2. CASE Fits(p, n, p[n].desc.args[k].kind, r)
  <2>1. r.call \in 1 .. n - 1
    BY <1>2 DEF Fits
  <2>2. q[r.call].desc = p[r.call].desc
    BY <2>1
  <2>3. Fits(q, n, p[n].desc.args[k].kind, r)
    BY <1>2, <2>2 DEF Fits
  <2> QED BY <2>3 DEF GoodRef
<1> QED BY <1>1, <1>2 DEF GoodRef

LEMMA ReplacedWf ==
  ASSUME NEW p \in Seq(AnyCall), Wf(p), NEW q, NEW i, NEW j, NEW r, Replaces(p, q, i, j, r),
         r = Seed \/ Fits(p, i, p[i].desc.args[j].kind, r)
  PROVE  Wf(q)
<1>1. /\ q \in Seq(AnyCall) /\ Len(q) = Len(p)
      /\ \A n \in 1 .. Len(p) :
           /\ q[n].desc = p[n].desc
           /\ \A k \in ResArgs(p[n].desc) : q[n].refs[k] = IF n = i /\ k = j THEN r ELSE p[n].refs[k]
  BY DEF Replaces
<1> SUFFICES ASSUME NEW n \in 1 .. Len(p), NEW k \in ResArgs(p[n].desc) PROVE GoodRef(q, n, k)
  BY <1>1 DEF Wf
<1>2. Len(p) \in Nat
  OBVIOUS
<1>3. GoodRef(p, n, k)
  BY DEF Wf
<1>4. CASE n = i /\ k = j
  BY <1>1, <1>2, <1>4 DEF GoodRef, Fits
<1>5. CASE ~(n = i /\ k = j)
  <2>1. q[n].desc = p[n].desc /\ q[n].refs[k] = p[n].refs[k]
    BY <1>1, <1>5
  <2>2. \A m \in 1 .. n - 1 : q[m].desc = p[m].desc
    BY <1>1, <1>2
  <2>3. n \in Nat
    OBVIOUS
  <2> QED BY <1>3, <2>1, <2>2, <2>3, GoodSame
<1> QED BY <1>4, <1>5

LEMMA RepickCarries ==
  ASSUME NEW p \in Seq(AnyCall), Wf(p), NEW i \in 1 .. Len(p), NEW j \in ResArgs(p[i].desc),
         NEW r, NEW q, Replaces(p, q, i, j, r)
  PROVE  Carried(p, q, 1 .. Len(p), Same(p), {<<i, j>>})
<1>1. /\ q \in Seq(AnyCall) /\ Len(q) = Len(p)
      /\ \A n \in 1 .. Len(p) :
           /\ q[n].desc = p[n].desc
           /\ \A k \in ResArgs(p[n].desc) : q[n].refs[k] = IF n = i /\ k = j THEN r ELSE p[n].refs[k]
  BY DEF Replaces
<1>2. \A n \in 1 .. Len(p) : Same(p)[n] = n
  BY DEF Same
<1> SUFFICES ASSUME NEW n \in 1 .. Len(p), NEW k \in ResArgs(p[n].desc), <<n, k>> # <<i, j>>
             PROVE  q[n].refs[k] = IF p[n].refs[k].call \in 1 .. Len(p)
                      THEN Produced(Same(p)[p[n].refs[k].call], p[n].refs[k].slot) ELSE Seed
  BY <1>1, <1>2 DEF Carried
<1>3. q[n].refs[k] = p[n].refs[k]
  BY <1>1
<1> QED BY <1>3, StaysPut

LEMMA MutateCarries ==
  ASSUME NEW p \in Seq(AnyCall), Wf(p), NEW i \in 1 .. Len(p), NEW j \in DataArgs(p[i].desc),
         NEW v \in Values, DataOK(p[i].desc.args[j], v), NEW q, q = WithData(p, i, j, v)
  PROVE  /\ q \in Seq(AnyCall) /\ Len(q) = Len(p)
         /\ Carried(p, q, 1 .. Len(p), Same(p), {})
         /\ Wf(q)
<1>1. /\ q \in Seq(AnyCall) /\ Len(q) = Len(p)
      /\ \A n \in 1 .. Len(p) : q[n].desc = p[n].desc /\ q[n].refs = p[n].refs
  BY DataReplaced
<1>2. \A n \in 1 .. Len(p) : Same(p)[n] = n
  BY DEF Same
<1>3. Carried(p, q, 1 .. Len(p), Same(p), {})
  BY <1>1, <1>2, StaysPut DEF Carried
<1>4. Wf(q)
  <2> SUFFICES ASSUME NEW n \in 1 .. Len(p), NEW k \in ResArgs(p[n].desc) PROVE GoodRef(q, n, k)
    BY <1>1 DEF Wf
  <2>1. Len(p) \in Nat
    OBVIOUS
  <2>2. GoodRef(p, n, k)
    BY DEF Wf
  <2>3. q[n].desc = p[n].desc /\ q[n].refs[k] = p[n].refs[k]
    BY <1>1
  <2>4. \A m \in 1 .. n - 1 : q[m].desc = p[m].desc
    BY <1>1, <2>1
  <2>5. n \in Nat
    OBVIOUS
  <2> QED BY <2>2, <2>3, <2>4, <2>5, GoodSame
<1> QED BY <1>1, <1>3, <1>4

\* The table: how many slots a call has.
LEMMA Counts == \A d \in SYSCALLS : d.produces.count \in Nat
<1> DEFINE Counted(S) == \A d \in S : d.produces.count \in Nat
<1>0. /\ \A n, a : D(n, a, Nothing).produces.count = 0
      /\ \A n, a, k : D(n, a, Ret(k)).produces.count = 1
      /\ \A n, a, i, k, m : D(n, a, OutArray(i, k, m)).produces.count = m
  BY DEF D, Nothing, Ret, OutArray
<1>1. Counted(StarterCalls)
  BY <1>0 DEF StarterCalls
<1>2. Counted(DupPipeSocketCalls)
  BY <1>0 DEF DupPipeSocketCalls
<1>3. Counted(PathCalls) /\ Counted(EventCalls)
  BY <1>0 DEF PathCalls, EventCalls
<1>4. Counted(TimerCalls) /\ Counted(SocketPairCalls)
  BY <1>0 DEF TimerCalls, SocketPairCalls
<1>5. Counted(SockoptCalls) /\ Counted(MemoryCalls)
  BY <1>0 DEF SockoptCalls, MemoryCalls
<1>6. Counted(PositionedIoCalls) /\ Counted(VectorIoCalls)
  BY <1>0 DEF PositionedIoCalls, VectorIoCalls
<1>7. Counted(FdTableCalls) /\ Counted(IoctlCalls)
  BY <1>0 DEF FdTableCalls, IoctlCalls
<1>8. Counted(SockaddrCalls) /\ Counted(TypedSockoptCalls)
  BY <1>0 DEF SockaddrCalls, TypedSockoptCalls
<1>9. Counted(NetlinkCalls) /\ Counted(SpliceCalls)
  BY <1>0 DEF NetlinkCalls, SpliceCalls
<1>10. Counted(KeyCalls) /\ Counted(RemoteMemoryCalls)
  BY <1>0 DEF KeyCalls, RemoteMemoryCalls
<1> QED BY <1>1, <1>2, <1>3, <1>4, <1>5, <1>6, <1>7, <1>8, <1>9, <1>10 DEF SYSCALLS

\* A producer is inserted at or before call i, which is rewired to it.
LEMMA WireCarries ==
  ASSUME NEW p \in Seq(AnyCall), Wf(p), NEW i \in 1 .. Len(p), NEW j \in ResArgs(p[i].desc),
         NEW at \in 1 .. i, NEW c \in AnyCall, Placed(p, at, c),
         c.desc.produces.count > 0, kind_compat(p[i].desc.args[j].kind, c.desc.produces.kind),
         NEW q, q = WithRef(Inserted(p, at, c), i + 1, j, Produced(at, 0))
  PROVE  /\ q \in Seq(AnyCall) /\ Len(q) = Len(p) + 1
         /\ Carried(p, q, 1 .. Len(p), AfterInsert(p, at), {<<i, j>>})
         /\ q[i + 1].refs[j] = Produced(at, 0)
         /\ Wf(q)
<1> DEFINE s == Inserted(p, at, c)
           e == AfterInsert(p, at)
           r == Produced(at, 0)
<1>1. Len(p) \in Nat /\ at \in 1 .. Len(p) + 1 /\ at \in Nat /\ i \in Nat /\ at <= i
  OBVIOUS
<1>2. /\ e \in [1 .. Len(p) -> Nat] /\ Increasing(1 .. Len(p), e)
      /\ Carried(p, s, 1 .. Len(p), e, {}) /\ s[at] = c /\ Wf(s)
  BY <1>1, InsertCarries
<1>3. s \in Seq(AnyCall) /\ Len(s) = Len(p) + 1
  BY <1>1, InsertedProg
<1>4. e[i] = i + 1
  BY <1>1 DEF AfterInsert
<1>5. i + 1 \in 1 .. Len(s) /\ s[i + 1].desc = p[i].desc
  BY <1>1, <1>2, <1>3, <1>4 DEF Carried
<1>6. r \in Ref
  BY <1>1 DEF Produced, Ref
<1>7. Fits(s, i + 1, s[i + 1].desc.args[j].kind, r)
  <2>1. c.desc \in SYSCALLS
    BY CallFields
  <2>2. 0 \in Slots(c.desc)
    BY <2>1, Counts DEF Slots
  <2>3. r.call = at /\ r.slot = 0
    BY DEF Produced
  <2> HIDE DEF r, s
  <2> QED BY <1>1, <1>2, <1>5, <2>2, <2>3 DEF Fits
<1>8. j \in ResArgs(s[i + 1].desc)
  BY <1>5
<1> HIDE DEF r, s
<1>9. q = WithRef(s, i + 1, j, r)
  BY DEF r, s
<1>10. Replaces(s, q, i + 1, j, r)
  BY <1>3, <1>5, <1>6, <1>8, <1>9, RefReplaced
<1>11. q \in Seq(AnyCall) /\ Len(q) = Len(s) /\ Wf(q)
  <2>1. q \in Seq(AnyCall) /\ Len(q) = Len(s)
    BY <1>10 DEF Replaces
  <2>2. Wf(q)
    BY <1>2, <1>3, <1>7, <1>10, ReplacedWf
  <2> QED BY <2>1, <2>2
<1>12. Carried(p, q, 1 .. Len(p), e, {<<i, j>>})
  <2> SUFFICES ASSUME NEW n \in 1 .. Len(p)
               PROVE  /\ e[n] \in 1 .. Len(q) /\ q[e[n]].desc = p[n].desc
                      /\ \A k \in ResArgs(p[n].desc) : <<n, k>> # <<i, j>> =>
                           q[e[n]].refs[k] = IF p[n].refs[k].call \in 1 .. Len(p)
                             THEN Produced(e[p[n].refs[k].call], p[n].refs[k].slot) ELSE Seed
    BY DEF Carried
  <2>1. e[n] \in 1 .. Len(s) /\ s[e[n]].desc = p[n].desc
    BY <1>2 DEF Carried
  <2>2. q[e[n]].desc = p[n].desc
    BY <1>10, <2>1 DEF Replaces
  <2>3. ASSUME NEW k \in ResArgs(p[n].desc), <<n, k>> # <<i, j>>
        PROVE  q[e[n]].refs[k] = s[e[n]].refs[k]
    <3>1. e[n] = i + 1 => n = i
      BY <1>1 DEF AfterInsert
    <3> HIDE DEF e
    <3> QED BY <1>10, <2>1, <2>3, <3>1 DEF Replaces
  <2> QED BY <1>2, <1>11, <2>1, <2>2, <2>3 DEF Carried
<1>13. q[i + 1].refs[j] = r
  BY <1>5, <1>8, <1>10 DEF Replaces
<1> QED BY <1>3, <1>11, <1>12, <1>13 DEF r

-------------------------------------------------------------------------------
(* The descriptions the code asks for by name. *)

LEMMA Found ==
  ASSUME NEW d \in SYSCALLS
  PROVE  find_desc(d.name) = d
BY NamesUnique DEF find_desc

EPOLL_CREATE1 == D("epoll_create1", <<Flags>>, Ret("epoll_fd"))
EPOLL_CTL == D("epoll_ctl", <<Res("epoll_fd"), Flags, Res("fd"), NPtr(EPOLL_EVENT)>>, Nothing)
OPENAT_FAIL_NTH == D("openat$fail_nth", <<Res("fd"), Ptr(FAIL_NTH_PATH), Const, Const>>, Ret("fd"))
WRITE_FAIL_NTH == D("write$fail_nth", <<Res("fd"), Ptr(FAIL_NTH_COUNTS), LenOf(2)>>, Nothing)

LEMMA ByName ==
  /\ EPOLL_CREATE1 \in SYSCALLS /\ find_desc("epoll_create1") = EPOLL_CREATE1
  /\ EPOLL_CTL \in SYSCALLS /\ find_desc("epoll_ctl") = EPOLL_CTL
  /\ OPENAT_FAIL_NTH \in SYSCALLS /\ find_desc("openat$fail_nth") = OPENAT_FAIL_NTH
  /\ WRITE_FAIL_NTH \in SYSCALLS /\ find_desc("write$fail_nth") = WRITE_FAIL_NTH
<1>1. EPOLL_CREATE1 \in EventCalls /\ EPOLL_CTL \in EventCalls
  BY DEF EventCalls, EPOLL_CREATE1, EPOLL_CTL
<1>2. OPENAT_FAIL_NTH \in NetlinkCalls /\ WRITE_FAIL_NTH \in NetlinkCalls
  BY DEF NetlinkCalls, OPENAT_FAIL_NTH, WRITE_FAIL_NTH
<1>3. /\ EPOLL_CREATE1 \in SYSCALLS /\ EPOLL_CTL \in SYSCALLS
      /\ OPENAT_FAIL_NTH \in SYSCALLS /\ WRITE_FAIL_NTH \in SYSCALLS
  BY <1>1, <1>2 DEF SYSCALLS
<1>4. /\ EPOLL_CREATE1.name = "epoll_create1" /\ EPOLL_CTL.name = "epoll_ctl"
      /\ OPENAT_FAIL_NTH.name = "openat$fail_nth" /\ WRITE_FAIL_NTH.name = "write$fail_nth"
  BY DEF EPOLL_CREATE1, EPOLL_CTL, OPENAT_FAIL_NTH, WRITE_FAIL_NTH, D
<1> QED BY <1>3, <1>4, Found

\* What their arguments want and what they produce.
LEMMA Arguments ==
  /\ ResArgs(EPOLL_CTL) = {1, 3} /\ EPOLL_CTL.args[1].kind = "epoll_fd" /\ EPOLL_CTL.args[3].kind = "fd"
  /\ ResArgs(WRITE_FAIL_NTH) = {1} /\ WRITE_FAIL_NTH.args[1].kind = "fd"
  /\ EPOLL_CREATE1.produces = Ret("epoll_fd") /\ OPENAT_FAIL_NTH.produces = Ret("fd")
<1>1. /\ ResArgs(EPOLL_CTL) = {1, 3} /\ EPOLL_CTL.args[1].kind = "epoll_fd"
      /\ EPOLL_CTL.args[3].kind = "fd"
  BY DEF EPOLL_CTL, D, ResArgs, Res, Flags, NPtr
<1>2. ResArgs(WRITE_FAIL_NTH) = {1} /\ WRITE_FAIL_NTH.args[1].kind = "fd"
  BY DEF WRITE_FAIL_NTH, D, ResArgs, Res, Ptr, LenOf
<1>3. EPOLL_CREATE1.produces = Ret("epoll_fd") /\ OPENAT_FAIL_NTH.produces = Ret("fd")
  BY DEF EPOLL_CREATE1, OPENAT_FAIL_NTH, D
<1> QED BY <1>1, <1>2, <1>3

\* kind_compat, for the kinds at hand.
LEMMA Kindred ==
  kind_compat("fd", "fd") /\ kind_compat("epoll_fd", "epoll_fd") /\ kind_compat("fd", "epoll_fd")
<1> DEFINE Def(f) == [k \in Kinds |-> {k} \cup (IF subtype_of[k] = "none" THEN {} ELSE f[subtype_of[k]])]
           g == [k \in Kinds |-> IF k \in {"sock", "epoll_fd"} THEN {k, "fd"} ELSE {k}]
<1>1. g = Def(g)
  <2> SUFFICES ASSUME NEW k \in Kinds PROVE g[k] = Def(g)[k]
    OBVIOUS
  <2>1. subtype_of[k] = IF k \in {"sock", "epoll_fd"} THEN "fd" ELSE "none"
    BY DEF subtype_of
  <2>2. "fd" \in Kinds /\ g["fd"] = {"fd"}
    BY DEF Kinds
  <2>3. CASE k \in {"sock", "epoll_fd"}
    BY <2>1, <2>2, <2>3
  <2>4. CASE k \notin {"sock", "epoll_fd"}
    BY <2>1, <2>4
  <2> QED BY <2>3, <2>4
<1>2. Ancestors = Def(Ancestors)
  <2>1. Ancestors = CHOOSE f : f = Def(f)
    BY DEF Ancestors
  <2> HIDE DEF g
  <2> QED BY <1>1, <2>1
<1>3. subtype_of["fd"] = "none" /\ subtype_of["epoll_fd"] = "fd" /\ "fd" \in Kinds /\ "epoll_fd" \in Kinds
  BY DEF subtype_of, Kinds
<1>4. Ancestors["fd"] = {"fd"} /\ Ancestors["epoll_fd"] = {"epoll_fd"} \cup Ancestors["fd"]
  BY <1>2, <1>3
<1> QED BY <1>4 DEF kind_compat

-------------------------------------------------------------------------------
(* The fail_nth preamble, the ring and the minimiser's subset. *)

LEMMA TruncatedProg ==
  ASSUME NEW p \in Seq(AnyCall)
  PROVE  /\ Truncated(p) \in Seq(AnyCall)
         /\ Len(Truncated(p)) = IF Len(p) < MAX_CALLS THEN Len(p) ELSE MAX_CALLS
         /\ \A n \in 1 .. Len(Truncated(p)) : Truncated(p)[n] = p[n]
<1> DEFINE m == IF Len(p) < MAX_CALLS THEN Len(p) ELSE MAX_CALLS
           t == SubSeq(p, 1, m)
<1>1. Len(p) \in Nat /\ MAX_CALLS \in Nat /\ m \in Nat /\ m <= Len(p)
  BY ProgramBounds
<1>2. Truncated(p) = t
  BY DEF Truncated
<1> HIDE DEF m
<1>3. \A i \in 1 .. m : p[i] \in AnyCall
  BY <1>1
<1>4. /\ t \in Seq(AnyCall) /\ Len(t) = (IF 1 <= m THEN m - 1 + 1 ELSE 0)
      /\ \A i \in 1 .. m - 1 + 1 : t[i] = p[1 + i - 1]
  BY <1>1, <1>3, SubSeqProperties
<1> HIDE DEF t
<1>5. t \in Seq(AnyCall) /\ Len(t) = m /\ \A n \in 1 .. m : t[n] = p[n]
  BY <1>1, <1>4
<1> QED BY <1>2, <1>5 DEF m

LEMMA ShiftType == Shift \in [Ref -> Ref]
BY DEF Shift, Ref, Produced

AfterPreamble(q) == [i \in 1 .. Len(q) - 2 |-> i + 2]

LEMMA PreambleCarries ==
  ASSUME NEW p \in Seq(AnyCall), Wf(p), NEW c1 \in AnyCall, NEW c2 \in AnyCall,
         Placed(<< >>, 1, c1), Placed(<<c1>>, 2, c2),
         NEW q, q = Truncated(<<c1, c2>> \o Mapped(p, Shift))
  PROVE  /\ q \in Seq(AnyCall) /\ Len(q) \in 1 .. MAX_CALLS /\ q[1] = c1
         /\ (1 .. Len(q) - 2) \in SUBSET (1 .. Len(p))
         /\ AfterPreamble(q) \in [1 .. Len(q) - 2 -> Nat]
         /\ Increasing(1 .. Len(q) - 2, AfterPreamble(q))
         /\ Carried(p, q, 1 .. Len(q) - 2, AfterPreamble(q), {})
         /\ {AfterPreamble(q)[i] : i \in 1 .. Len(q) - 2} = 3 .. Len(q)
         /\ Wf(q)
<1> DEFINE m == Mapped(p, Shift)
           pre == <<c1, c2>>
           w == pre \o m
           K == 1 .. Len(q) - 2
           e == AfterPreamble(q)
<1>1. /\ m \in Seq(AnyCall) /\ Len(m) = Len(p)
      /\ \A i \in 1 .. Len(p) : /\ m[i].desc = p[i].desc
                                /\ \A j \in ResArgs(p[i].desc) : m[i].refs[j] = Shift[p[i].refs[j]]
  BY ShiftType, MappedProg
<1>2. pre \in Seq(AnyCall) /\ Len(pre) = 2 /\ pre[1] = c1 /\ pre[2] = c2
  OBVIOUS
<1> HIDE DEF m, pre
<1>3. /\ w \in Seq(AnyCall) /\ Len(w) = Len(pre) + Len(m)
      /\ \A n \in 1 .. Len(pre) + Len(m) : w[n] = IF n <= Len(pre) THEN pre[n] ELSE m[n - Len(pre)]
  <2>1. pre \in Seq(AnyCall) /\ m \in Seq(AnyCall)
    BY <1>1, <1>2
  <2> QED BY <2>1, ConcatProperties
<1>4. q = Truncated(w)
  BY DEF m, pre
<1> HIDE DEF w
<1>5. Len(p) \in Nat /\ MAX_CALLS \in Nat \ {0} /\ Len(w) = Len(p) + 2
  BY <1>1, <1>2, <1>3, ProgramBounds
<1>6. /\ q \in Seq(AnyCall) /\ Len(q) = (IF Len(w) < MAX_CALLS THEN Len(w) ELSE MAX_CALLS)
      /\ \A n \in 1 .. Len(q) : q[n] = w[n]
  <2>1. w \in Seq(AnyCall)
    BY <1>3
  <2> QED BY <1>4, <2>1, TruncatedProg
<1>7. Len(q) \in 1 .. MAX_CALLS /\ Len(q) \in Nat /\ Len(q) <= Len(p) + 2
  BY <1>5, <1>6
<1>8. \A n \in 1 .. Len(q) : q[n] = IF n <= 2 THEN pre[n] ELSE m[n - 2]
  <2> SUFFICES ASSUME NEW n \in 1 .. Len(q) PROVE q[n] = IF n <= 2 THEN pre[n] ELSE m[n - 2]
    OBVIOUS
  <2>1. n \in 1 .. Len(p) + 2 /\ Len(pre) + Len(m) = Len(p) + 2
    BY <1>1, <1>2, <1>5, <1>7
  <2>2. w[n] = IF n <= Len(pre) THEN pre[n] ELSE m[n - Len(pre)]
    BY <1>3, <2>1
  <2> QED BY <1>2, <1>6, <2>2
<1>9. K \in SUBSET (1 .. Len(p))
  BY <1>5, <1>7
<1>10. e \in [K -> Nat] /\ Increasing(K, e)
  BY <1>7 DEF AfterPreamble, Increasing
<1>11. q[1] = c1 /\ (Len(q) >= 2 => q[2] = c2)
  BY <1>2, <1>7, <1>8
<1>12. ASSUME NEW i \in K PROVE e[i] \in 3 .. Len(q) /\ q[e[i]] = m[i]
  <2>1. i \in 1 .. Len(q) - 2 /\ e[i] = i + 2
    BY DEF AfterPreamble
  <2>2. e[i] \in 3 .. Len(q) /\ ~(e[i] <= 2) /\ e[i] - 2 = i /\ e[i] \in 1 .. Len(q)
    BY <1>7, <2>1
  <2> QED BY <1>8, <2>2
<1>13. ASSUME NEW i \in K, NEW j \in ResArgs(p[i].desc)
       PROVE  Shift[p[i].refs[j]] =
                IF p[i].refs[j].call \in K THEN Produced(e[p[i].refs[j].call], p[i].refs[j].slot)
                ELSE Seed
  <2> DEFINE r == p[i].refs[j]
  <2>1. i \in 1 .. Len(p)
    BY <1>9
  <2>2. r \in Ref /\ ((r = Seed /\ r.call = 0) \/ r.call \in 1 .. i - 1)
    BY <2>1, RefCases
  <2>3. Shift[r] = IF r.call = 0 THEN r ELSE Produced(r.call + 2, r.slot)
    BY <2>2 DEF Shift, IsSeed
  <2> HIDE DEF r
  <2>4. CASE r = Seed /\ r.call = 0
    BY <2>3, <2>4 DEF r
  <2>5. CASE r.call \in 1 .. i - 1
    <3>1. r.call \in K /\ r.call # 0
      BY <1>7, <2>1, <2>5
    <3>2. e[r.call] = r.call + 2
      BY <3>1 DEF AfterPreamble
    <3> QED BY <2>3, <3>1, <3>2 DEF r
  <2> QED BY <2>2, <2>4, <2>5
<1>14. Carried(p, q, K, e, {})
  <2> SUFFICES ASSUME NEW i \in K
               PROVE  /\ e[i] \in 1 .. Len(q) /\ q[e[i]].desc = p[i].desc
                      /\ \A j \in ResArgs(p[i].desc) :
                           q[e[i]].refs[j] = IF p[i].refs[j].call \in K
                             THEN Produced(e[p[i].refs[j].call], p[i].refs[j].slot) ELSE Seed
    BY DEF Carried
  <2>1. e[i] \in 3 .. Len(q) /\ q[e[i]] = m[i] /\ i \in 1 .. Len(p)
    BY <1>9, <1>12
  <2>2. /\ m[i].desc = p[i].desc
        /\ \A j \in ResArgs(p[i].desc) : m[i].refs[j] = Shift[p[i].refs[j]]
    BY <1>1, <2>1
  <2>3. e[i] \in 1 .. Len(q)
    BY <1>7, <2>1
  <2> QED BY <1>13, <2>1, <2>2, <2>3
<1>15. {e[i] : i \in K} = 3 .. Len(q)
  <2>1. ASSUME NEW n \in 3 .. Len(q) PROVE \E i \in K : e[i] = n
    <3>1. n - 2 \in K /\ e[n - 2] = n
      BY <1>7 DEF AfterPreamble
    <3> QED BY <3>1
  <2>2. \A i \in K : e[i] \in 3 .. Len(q)
    BY <1>12
  <2> HIDE DEF K, e
  <2> QED BY <2>1, <2>2
<1>16. \A j \in ResArgs(q[1].desc) : GoodRef(q, 1, j)
  BY <1>11 DEF Placed, GoodRef, Fits
<1>17. ASSUME Len(q) >= 2, NEW j \in ResArgs(q[2].desc) PROVE GoodRef(q, 2, j)
  <2>1. q[2] = c2 /\ <<c1>>[1] = q[1]
    BY <1>11, <1>17
  <2>2. CASE c2.refs[j] = Seed
    BY <2>1, <2>2 DEF GoodRef
  <2>3. CASE Fits(<<c1>>, 2, c2.desc.args[j].kind, c2.refs[j])
    <3>1. c2.refs[j].call = 1
      BY <2>3 DEF Fits
    <3>2. Fits(q, 2, c2.desc.args[j].kind, c2.refs[j])
      BY <2>1, <2>3, <3>1 DEF Fits
    <3> QED BY <2>1, <3>2 DEF GoodRef
  <2>4. c2.refs[j] = Seed \/ Fits(<<c1>>, 2, c2.desc.args[j].kind, c2.refs[j])
    BY <2>1 DEF Placed
  <2> QED BY <2>2, <2>3, <2>4
<1>18. Wf(q)
  <2>1. ASSUME NEW n \in 1 .. Len(q), n \notin 3 .. Len(q) PROVE \A j \in ResArgs(q[n].desc) : GoodRef(q, n, j)
    <3>1. n = 1 \/ (n = 2 /\ Len(q) >= 2)
      BY <1>7, <2>1
    <3> QED BY <1>16, <1>17, <3>1
  <2>2. \A n \in 1 .. Len(q) : n \in {e[i] : i \in K} \/ \A j \in ResArgs(q[n].desc) : GoodRef(q, n, j)
    BY <1>15, <2>1
  <2>3. q \in Seq(AnyCall)
    BY <1>6
  <2> HIDE DEF e, K
  <2> QED BY <1>9, <1>10, <1>14, <2>2, <2>3, CarriedFresh
<1> QED BY <1>6, <1>7, <1>9, <1>10, <1>11, <1>14, <1>15, <1>18

Ranks(S) == [i \in S |-> Rank(S, i)]

LEMMA RanksIncreasing ==
  ASSUME NEW S \in SUBSET Nat, IsFiniteSet(S)
  PROVE  /\ Ranks(S) \in [S -> Nat] /\ Increasing(S, Ranks(S))
         /\ {Ranks(S)[i] : i \in S} = 1 .. Cardinality(S)
<1>1. Cardinality(S) \in Nat
  BY FS_CardinalityType
<1>2. ASSUME NEW i \in S PROVE Rank(S, i) \in 1 .. Cardinality(S)
  <2>1. i \in Nat
    OBVIOUS
  <2>2. Rank(S, i) \in 0 .. Cardinality(S) /\ Rank(S, i) >= 1
    BY <2>1, RankType
  <2> QED BY <1>1, <2>2
<1>3. Ranks(S) \in [S -> Nat]
  BY <1>1, <1>2 DEF Ranks
<1>4. Increasing(S, Ranks(S))
  BY RankIncreases DEF Increasing, Ranks
<1>5. ASSUME NEW n \in 1 .. Cardinality(S) PROVE \E i \in S : Ranks(S)[i] = n
  BY NthType DEF Ranks
<1>6. \A i \in S : Ranks(S)[i] \in 1 .. Cardinality(S)
  BY <1>2 DEF Ranks
<1> QED BY <1>3, <1>4, <1>5, <1>6

\* subset_prog carries exactly the kept calls over.
LEMMA SubsetCarries ==
  ASSUME NEW p \in Seq(AnyCall), Wf(p), NEW S \in SUBSET (1 .. Len(p)),
         NEW q, q = subset_prog(p, S)
  PROVE  /\ q \in Seq(AnyCall) /\ Len(q) = Cardinality(S)
         /\ Ranks(S) \in [S -> Nat] /\ Increasing(S, Ranks(S))
         /\ Carried(p, q, S, Ranks(S), {})
         /\ {Ranks(S)[i] : i \in S} = 1 .. Len(q)
         /\ Wf(q)
<1> DEFINE c == Cardinality(S)
           s == [n \in 1 .. c |-> p[Nth(S, n)]]
           f == Renamed(S)
<1>1. S \in SUBSET Nat /\ IsFiniteSet(S)
  <2>1. IsFiniteSet(1 .. Len(p))
    BY FS_Interval
  <2>2. IsFiniteSet(S)
    BY <2>1, FS_Subset
  <2> QED BY <2>2
<1>2. c \in Nat
  BY <1>1, FS_CardinalityType
<1>3. ASSUME NEW n \in 1 .. c PROVE s[n] \in AnyCall
  <2>1. Nth(S, n) \in 1 .. Len(p)
    BY <1>1, NthType
  <2> QED BY <2>1
<1>4. s \in Seq(AnyCall) /\ Len(s) = c
  <2>1. s \in [1 .. c -> AnyCall]
    BY <1>3
  <2> HIDE DEF s, c
  <2> QED BY <1>2, <2>1, SeqDef
<1>5. ASSUME NEW i \in S PROVE Rank(S, i) \in 1 .. c /\ s[Rank(S, i)] = p[i] /\ Ranks(S)[i] = Rank(S, i)
  <2>1. Ranks(S)[i] = Rank(S, i)
    BY DEF Ranks
  <2>2. Rank(S, i) \in 1 .. c
    BY <1>1, <2>1, RanksIncreasing
  <2>3. Nth(S, Rank(S, i)) = i
    BY <1>1, NthOfRank
  <2> QED BY <2>1, <2>2, <2>3
<1>6. f \in [Ref -> Ref]
  <2> SUFFICES ASSUME NEW r \in Ref
               PROVE  (IF r.call \in S THEN Produced(Rank(S, r.call), r.slot) ELSE Seed) \in Ref
    BY DEF Renamed
  <2>1. r.call \in S => Rank(S, r.call) \in Nat
    <3> SUFFICES ASSUME r.call \in S PROVE Rank(S, r.call) \in Nat
      OBVIOUS
    <3>1. Rank(S, r.call) \in 1 .. c
      BY <1>5
    <3> HIDE DEF c
    <3> QED BY <1>2, <3>1
  <2> QED BY <2>1 DEF Produced, Seed, Ref
<1>7. q = Mapped(s, f)
  <2>1. \A n \in DOMAIN s : \A j \in DOMAIN s[n].refs : s[n].refs[j] \in Ref
    BY <1>3, CallFields
  <2>2. \A r \in Ref : f[r] = IF r.call \in S THEN Produced(Rank(S, r.call), r.slot) ELSE Seed
    BY DEF Renamed
  <2> HIDE DEF f
  <2> QED BY <2>1, <2>2 DEF subset_prog, MapRefs, Mapped
<1> HIDE DEF s, f
<1>8. /\ q \in Seq(AnyCall) /\ Len(q) = c
      /\ \A n \in 1 .. c : /\ q[n].desc = s[n].desc
                           /\ \A j \in ResArgs(s[n].desc) : q[n].refs[j] = f[s[n].refs[j]]
  <2>1. s \in Seq(AnyCall)
    BY <1>4
  <2>2. /\ Mapped(s, f) \in Seq(AnyCall) /\ Len(Mapped(s, f)) = Len(s)
        /\ \A n \in 1 .. Len(s) :
             /\ Mapped(s, f)[n].desc = s[n].desc
             /\ \A j \in ResArgs(s[n].desc) : Mapped(s, f)[n].refs[j] = f[s[n].refs[j]]
    BY <1>6, <2>1, MappedProg
  <2> QED BY <1>4, <1>7, <2>2
<1>9. /\ Ranks(S) \in [S -> Nat] /\ Increasing(S, Ranks(S))
      /\ {Ranks(S)[i] : i \in S} = 1 .. c
  BY <1>1, RanksIncreasing
<1>10. Carried(p, q, S, Ranks(S), {})
  <2> SUFFICES ASSUME NEW i \in S
               PROVE  /\ Ranks(S)[i] \in 1 .. Len(q) /\ q[Ranks(S)[i]].desc = p[i].desc
                      /\ \A j \in ResArgs(p[i].desc) :
                           q[Ranks(S)[i]].refs[j] = IF p[i].refs[j].call \in S
                             THEN Produced(Ranks(S)[p[i].refs[j].call], p[i].refs[j].slot) ELSE Seed
    BY DEF Carried
  <2> DEFINE n == Ranks(S)[i]
  <2>1. n \in 1 .. c /\ s[n] = p[i]
    BY <1>5
  <2> HIDE DEF n
  <2>2. q[n].desc = p[i].desc /\ \A j \in ResArgs(p[i].desc) : q[n].refs[j] = f[p[i].refs[j]]
    BY <1>8, <2>1
  <2>3. ASSUME NEW j \in ResArgs(p[i].desc)
        PROVE  f[p[i].refs[j]] = IF p[i].refs[j].call \in S
                 THEN Produced(Ranks(S)[p[i].refs[j].call], p[i].refs[j].slot) ELSE Seed
    <3>1. p[i].refs[j] \in Ref
      BY RefCases
    <3> QED BY <1>5, <3>1 DEF f, Renamed
  <2> QED BY <1>8, <2>1, <2>2, <2>3 DEF n
<1>11. Wf(q)
  BY <1>8, <1>9, <1>10, CarriedAll
<1> QED BY <1>8, <1>9, <1>10, <1>11

\* build_epoll_ring: every link refers to two producers, all of which come first.
Ring(n, made, x) ==
  [i \in 1 .. 2 * n |->
     IF i <= n THEN made
     ELSE [desc |-> EPOLL_CTL,
           refs |-> [j \in {1, 3} |-> IF j = 1 THEN Produced(i - n, 0)
                                      ELSE Produced(((i - n) % n) + 1, 0)],
           data |-> x]]

LEMMA RingProg ==
  ASSUME NEW n \in Nat \ {0}, NEW made \in Calls(<< >>, 1, EPOLL_CREATE1), NEW x \in Data(EPOLL_CTL)
  PROVE  /\ Ring(n, made, x) \in Seq(AnyCall) /\ Len(Ring(n, made, x)) = 2 * n
         /\ Wf(Ring(n, made, x))
<1> DEFINE q == Ring(n, made, x)
           links(i) == [j \in {1, 3} |-> IF j = 1 THEN Produced(i - n, 0)
                                         ELSE Produced(((i - n) % n) + 1, 0)]
<1>1. made \in AnyCall /\ made.desc = EPOLL_CREATE1 /\ Placed(<< >>, 1, made)
  BY CallsPlaced, ByName
<1>2. \A i \in 1 .. n : i \in 1 .. 2 * n /\ q[i] = made
  BY DEF Ring
<1>3. ASSUME NEW i \in n + 1 .. 2 * n
      PROVE  /\ q[i] = [desc |-> EPOLL_CTL, refs |-> links(i), data |-> x]
             /\ i - n \in 1 .. n /\ ((i - n) % n) + 1 \in 1 .. n
  BY DEF Ring
<1>4. ASSUME NEW i \in n + 1 .. 2 * n
      PROVE  /\ q[i] \in AnyCall /\ q[i].desc = EPOLL_CTL
             /\ \A j \in {1, 3} : q[i].refs[j].call \in 1 .. n /\ q[i].refs[j].slot = 0
  <2>1. links(i) \in [{1, 3} -> Ref]
    BY <1>3 DEF Produced, Ref
  <2>2. x \in [DataArgs(EPOLL_CTL) -> Values] /\ \A j \in DataArgs(EPOLL_CTL) : DataOK(EPOLL_CTL.args[j], x[j])
    BY ByName, DataTypes
  <2>3. links(i) \in [ResArgs(EPOLL_CTL) -> Ref]
    BY <2>1, Arguments
  <2>4. \A j \in {1, 3} : links(i)[j].call \in 1 .. n /\ links(i)[j].slot = 0
    BY <1>3 DEF Produced
  <2> HIDE DEF links
  <2>5. [desc |-> EPOLL_CTL, refs |-> links(i), data |-> x] \in AnyCall
    BY <2>2, <2>3, ByName, CallBuilt
  <2> QED BY <1>3, <2>4, <2>5
<1>5. q \in Seq(AnyCall) /\ Len(q) = 2 * n
  <2>1. \A i \in 1 .. 2 * n : q[i] \in AnyCall
    <3> SUFFICES ASSUME NEW i \in 1 .. 2 * n PROVE q[i] \in AnyCall
      OBVIOUS
    <3>1. i \in 1 .. n \/ i \in n + 1 .. 2 * n
      OBVIOUS
    <3> QED BY <1>1, <1>2, <1>4, <3>1
  <2>2. q = [i \in 1 .. 2 * n |-> q[i]] /\ 2 * n \in Nat
    BY DEF Ring
  <2> HIDE DEF q
  <2>3. q \in [1 .. 2 * n -> AnyCall]
    BY <2>1, <2>2
  <2> QED BY <2>2, <2>3, SeqDef
<1> HIDE DEF q
<1>6. ASSUME NEW i \in 1 .. n, NEW j \in ResArgs(q[i].desc) PROVE GoodRef(q, i, j)
  <2>1. q[i] = made
    BY <1>2
  <2>2. ~Fits(<< >>, 1, made.desc.args[j].kind, made.refs[j])
    BY DEF Fits
  <2>3. made.refs[j] = Seed
    BY <1>1, <2>1, <2>2 DEF Placed
  <2> QED BY <2>1, <2>3 DEF GoodRef
<1>7. ASSUME NEW i \in n + 1 .. 2 * n, NEW j \in ResArgs(q[i].desc) PROVE GoodRef(q, i, j)
  <2> DEFINE r == q[i].refs[j]
  <2>1. q[i].desc = EPOLL_CTL /\ j \in {1, 3} /\ EPOLL_CTL.args[j].kind \in {"fd", "epoll_fd"}
    BY <1>4, Arguments
  <2>2. r.call \in 1 .. n /\ r.slot = 0
    BY <1>4, <2>1
  <2> HIDE DEF r
  <2>3. r.call \in 1 .. i - 1 /\ q[r.call].desc = EPOLL_CREATE1
    BY <1>1, <1>2, <2>2
  <2>4. EPOLL_CREATE1.produces.kind = "epoll_fd" /\ 0 \in Slots(EPOLL_CREATE1)
    BY Arguments DEF Ret, Slots
  <2>5. kind_compat(EPOLL_CTL.args[j].kind, "epoll_fd")
    BY <2>1, Kindred
  <2>6. Fits(q, i, q[i].desc.args[j].kind, r)
    BY <2>1, <2>2, <2>3, <2>4, <2>5 DEF Fits
  <2> QED BY <2>6 DEF GoodRef, r
<1>8. Wf(q)
  <2> SUFFICES ASSUME NEW i \in 1 .. 2 * n, NEW j \in ResArgs(q[i].desc) PROVE GoodRef(q, i, j)
    BY <1>5 DEF Wf
  <2>1. i \in 1 .. n \/ i \in n + 1 .. 2 * n
    OBVIOUS
  <2> QED BY <1>6, <1>7, <2>1
<1> QED BY <1>5, <1>8 DEF q

-------------------------------------------------------------------------------
(* The edits. *)

ProgOK(p) == p \in Seq(AnyCall) /\ Len(p) <= MAX_CALLS /\ Wf(p)

\* What NoRewire asks of a step from p to q.
Kept(p, q) ==
  \/ \E K \in SUBSET DOMAIN p, I \in SUBSET DOMAIN q :
       /\ Cardinality(K) = Cardinality(I)
       /\ K = DOMAIN p \/ I = DOMAIN q
       /\ Threads(p, q, K, I, {})
  \/ \E I \in SUBSET DOMAIN q, i \in DOMAIN p :
       \E j \in DOMAIN p[i].refs : Repicks(p, q, I, i, j)
  \/ /\ q[1].desc.name = "openat$fail_nth"
     /\ Threads(p, q, 1 .. Len(q) - 2, 3 .. Len(q), {})

\* The edit leaves a well-formed program of at least one call and rewires nothing.
Edited(p, q) == ProgOK(q) /\ q # << >> /\ Kept(p, q)

LEMMA SeqDomain ==
  ASSUME NEW p \in Seq(AnyCall)
  PROVE  DOMAIN p = 1 .. Len(p) /\ Len(p) \in Nat /\ (p = << >> <=> Len(p) = 0)
OBVIOUS

LEMMA KeptAll ==
  ASSUME NEW p \in Seq(AnyCall), NEW q \in Seq(AnyCall),
         NEW e \in [1 .. Len(p) -> Nat], Increasing(1 .. Len(p), e),
         Carried(p, q, 1 .. Len(p), e, {})
  PROVE  Kept(p, q)
<1> DEFINE I == Image(1 .. Len(p), e)
<1>1. Cardinality(1 .. Len(p)) = Cardinality(I) /\ Threads(p, q, 1 .. Len(p), I, {})
  <2> DEFINE K == 1 .. Len(p)
             X == {}
  <2>1. Carried(p, q, K, e, X) /\ Increasing(K, e) /\ e \in [K -> Nat] /\ K \in SUBSET (1 .. Len(p))
    OBVIOUS
  <2> HIDE DEF K, X
  <2>2. Cardinality(K) = Cardinality(Image(K, e)) /\ Threads(p, q, K, Image(K, e), X)
    BY <2>1, CarriedThreads
  <2> QED BY <2>2 DEF K, X
<1>2. I \in SUBSET (1 .. Len(q))
  BY DEF Carried, Image
<1>3. DOMAIN p = 1 .. Len(p) /\ DOMAIN q = 1 .. Len(q)
  BY SeqDomain
<1> HIDE DEF I
<1> QED
  BY <1>1, <1>2, <1>3 DEF Kept

LEMMA KeptPicked ==
  ASSUME NEW p \in Seq(AnyCall), NEW q \in Seq(AnyCall),
         NEW e \in [1 .. Len(p) -> Nat], Increasing(1 .. Len(p), e),
         NEW i \in 1 .. Len(p), NEW j \in ResArgs(p[i].desc),
         Carried(p, q, 1 .. Len(p), e, {<<i, j>>}),
         \/ Image(1 .. Len(p), e) = 1 .. Len(q)
         \/ q[e[i]].refs[j].call \in (1 .. Len(q)) \ Image(1 .. Len(p), e)
  PROVE  Kept(p, q)
<1> DEFINE I == Image(1 .. Len(p), e)
<1>1. /\ Cardinality(1 .. Len(p)) = Cardinality(I) /\ Threads(p, q, 1 .. Len(p), I, {<<i, j>>})
      /\ Nth(I, Rank(1 .. Len(p), i)) = e[i]
  <2> DEFINE K == 1 .. Len(p)
             X == {<<i, j>>}
  <2>1. /\ Carried(p, q, K, e, X) /\ Increasing(K, e) /\ e \in [K -> Nat]
        /\ K \in SUBSET (1 .. Len(p)) /\ i \in K
    OBVIOUS
  <2> HIDE DEF K, X
  <2>2. /\ Cardinality(K) = Cardinality(Image(K, e)) /\ Threads(p, q, K, Image(K, e), X)
        /\ \A n \in K : Nth(Image(K, e), Rank(K, n)) = e[n]
    BY <2>1, CarriedThreads
  <2>3. Nth(Image(K, e), Rank(K, i)) = e[i]
    BY <2>1, <2>2
  <2> QED BY <2>2, <2>3 DEF K, X
<1>2. I \in SUBSET (1 .. Len(q))
  BY DEF Carried, Image
<1>3. DOMAIN p = 1 .. Len(p) /\ DOMAIN q = 1 .. Len(q) /\ Len(p) \in Nat
  BY SeqDomain
<1>4. Cardinality(1 .. Len(p)) = Len(p)
  <2> DEFINE n == Len(p)
  <2>1. 1 \in Int /\ n \in Int /\ n >= 1
    BY <1>3
  <2> HIDE DEF n
  <2>2. Cardinality(1 .. n) = n - 1 + 1
    BY <2>1, FS_Interval
  <2>3. Cardinality(1 .. n) = n
    BY <2>1, <2>2
  <2> QED BY <2>3 DEF n
<1>5. j \in DOMAIN p[i].refs
  <2>1. p[i] \in AnyCall
    OBVIOUS
  <2> QED BY <2>1, CallFields
<1> HIDE DEF I
<1>6. Cardinality(I) = Len(p)
  BY <1>1, <1>4
<1>7. I = DOMAIN q \/ q[Nth(I, Rank(DOMAIN p, i))].refs[j].call \in DOMAIN q \ I
  BY <1>1, <1>3 DEF I
<1>8. Repicks(p, q, I, i, j)
  BY <1>1, <1>3, <1>6, <1>7 DEF Repicks
<1> QED
  BY <1>2, <1>3, <1>5, <1>8 DEF Kept

LEMMA KeptOnly ==
  ASSUME NEW p \in Seq(AnyCall), NEW q \in Seq(AnyCall), NEW K \in SUBSET (1 .. Len(p)),
         NEW e \in [K -> Nat], Increasing(K, e), Carried(p, q, K, e, {}),
         {e[i] : i \in K} = 1 .. Len(q)
  PROVE  Kept(p, q)
<1> DEFINE I == Image(K, e)
<1>1. I = 1 .. Len(q)
  BY DEF Image
<1>2. DOMAIN p = 1 .. Len(p) /\ DOMAIN q = 1 .. Len(q)
  BY SeqDomain
<1>4. Cardinality(K) = Cardinality(I) /\ Threads(p, q, K, I, {})
  BY CarriedThreads
<1> HIDE DEF I
<1> QED
  BY <1>1, <1>2, <1>4 DEF Kept

\* insert_call
LEMMA InsertEdits ==
  ASSUME ProgOK(prog), NEW d \in SYSCALLS, InsertCall(d)
  PROVE  Edited(prog, prog')
<1>0. prog \in Seq(AnyCall) /\ Wf(prog) /\ Len(prog) \in Nat /\ Len(prog) < MAX_CALLS
  BY SeqDomain DEF ProgOK, InsertCall
<1>1. PICK at \in 1 .. Len(prog) + 1 : \E c \in Calls(prog, at, d) : prog' = Inserted(prog, at, c)
  BY DEF InsertCall, Edit
<1>2. PICK c \in Calls(prog, at, d) : prog' = Inserted(prog, at, c)
  BY <1>1
<1>3. c \in AnyCall /\ Placed(prog, at, c)
  BY <1>0, CallsPlaced
<1>4. prog' \in Seq(AnyCall) /\ Len(prog') = Len(prog) + 1
  BY <1>0, <1>2, <1>3, InsertedProg
<1>5. /\ AfterInsert(prog, at) \in [1 .. Len(prog) -> Nat]
      /\ Increasing(1 .. Len(prog), AfterInsert(prog, at))
      /\ Carried(prog, prog', 1 .. Len(prog), AfterInsert(prog, at), {})
      /\ Wf(prog')
  BY <1>0, <1>2, <1>3, InsertCarries
<1>6. Kept(prog, prog')
  BY <1>0, <1>4, <1>5, KeptAll
<1>7. Len(prog') <= MAX_CALLS /\ prog' # << >>
  BY <1>0, <1>4, ProgramBounds
<1> QED
  BY <1>4, <1>5, <1>6, <1>7 DEF Edited, ProgOK

\* remove_call
LEMMA RemoveEdits ==
  ASSUME ProgOK(prog), NEW at \in DOMAIN prog, RemoveCall(at)
  PROVE  Edited(prog, prog')
<1>0. prog \in Seq(AnyCall) /\ Wf(prog) /\ at \in 1 .. Len(prog) /\ Len(prog) \in Nat
      /\ Len(prog) <= MAX_CALLS /\ Len(prog) > 1
  BY SeqDomain DEF ProgOK, RemoveCall
<1>1. prog' = renumber_after_remove(Without(prog, at), at)
  BY DEF RemoveCall, Edit, Without
<1> DEFINE K == (1 .. Len(prog)) \ {at}
           e == AfterRemove(prog, at)
<1>2. /\ prog' \in Seq(AnyCall) /\ Len(prog') = Len(prog) - 1
      /\ e \in [K -> Nat] /\ Increasing(K, e) /\ Carried(prog, prog', K, e, {})
      /\ {e[i] : i \in K} = 1 .. Len(prog')
      /\ Wf(prog')
  BY <1>0, <1>1, RemoveCarries
<1>3. K \in SUBSET (1 .. Len(prog))
  OBVIOUS
<1> HIDE DEF K, e
<1>4. Kept(prog, prog')
  BY <1>0, <1>2, <1>3, KeptOnly
<1>5. Len(prog') <= MAX_CALLS /\ prog' # << >>
  BY <1>0, <1>2, ProgramBounds
<1> QED
  BY <1>2, <1>4, <1>5 DEF Edited, ProgOK

\* One reference is replaced by one that fits, as mutate_random_arg and wire_producer do.
LEMMA RepickEdits ==
  ASSUME ProgOK(prog), NEW i \in DOMAIN prog, NEW j \in ResArgs(prog[i].desc), NEW r \in Ref,
         r = Seed \/ Fits(prog, i, prog[i].desc.args[j].kind, r),
         prog' = [prog EXCEPT ![i].refs[j] = r]
  PROVE  Edited(prog, prog')
<1>0. prog \in Seq(AnyCall) /\ Wf(prog) /\ i \in 1 .. Len(prog) /\ Len(prog) \in Nat
      /\ Len(prog) <= MAX_CALLS
  BY SeqDomain DEF ProgOK
<1>1. prog' = WithRef(prog, i, j, r)
  BY DEF WithRef
<1>2. Replaces(prog, prog', i, j, r)
  BY <1>0, <1>1, RefReplaced
<1>3. Wf(prog')
  BY <1>0, <1>2, ReplacedWf
<1>4. Carried(prog, prog', 1 .. Len(prog), Same(prog), {<<i, j>>})
  BY <1>0, <1>2, RepickCarries
<1>5. Same(prog) \in [1 .. Len(prog) -> Nat] /\ Increasing(1 .. Len(prog), Same(prog))
  BY <1>0, SameIncreasing
<1>6. prog' \in Seq(AnyCall) /\ Len(prog') = Len(prog)
  BY <1>2 DEF Replaces
<1>7. Kept(prog, prog')
  <2>1. Image(1 .. Len(prog), Same(prog)) = 1 .. Len(prog')
    BY <1>6 DEF Image, Same
  <2> QED
    BY <1>0, <1>4, <1>5, <1>6, <2>1, KeptPicked
<1>8. Len(prog') <= MAX_CALLS /\ prog' # << >>
  BY <1>0, <1>6
<1> QED
  BY <1>3, <1>6, <1>7, <1>8 DEF Edited, ProgOK

\* mutate_random_arg on a resource
LEMMA RepickRefEdits ==
  ASSUME ProgOK(prog), NEW i \in DOMAIN prog, NEW j \in ResArgs(prog[i].desc), RepickRef(i, j)
  PROVE  Edited(prog, prog')
<1>0. i \in Nat
  BY SeqDomain DEF ProgOK
<1>1. PICK r \in pick_res(prog, i, prog[i].desc.args[j].kind) : prog' = [prog EXCEPT ![i].refs[j] = r]
  BY DEF RepickRef, Edit
<1>2. r \in Ref /\ (r = Seed \/ Fits(prog, i, prog[i].desc.args[j].kind, r))
  BY <1>0, PickFits
<1> QED
  BY <1>1, <1>2, RepickEdits

\* wire_producer
LEMMA WireEdits ==
  ASSUME ProgOK(prog), NEW i \in DOMAIN prog, NEW j \in ResArgs(prog[i].desc), WireProducer(i, j)
  PROVE  Edited(prog, prog')
<1> DEFINE want == prog[i].desc.args[j].kind
<1>0. prog \in Seq(AnyCall) /\ Wf(prog) /\ i \in 1 .. Len(prog) /\ i \in Nat /\ Len(prog) \in Nat
  BY SeqDomain DEF ProgOK
<1>1. CASE Compatible(prog, i, want) # {}
  <2>1. PICK r \in Compatible(prog, i, want) : prog' = [prog EXCEPT ![i].refs[j] = r]
    BY <1>1 DEF WireProducer, Edit
  <2>2. r \in Ref /\ Fits(prog, i, want, r)
    BY <1>0, CompatibleFits
  <2> QED
    BY <2>1, <2>2, RepickEdits
<1>2. CASE Compatible(prog, i, want) = {}
  <2>1. /\ Len(prog) < MAX_CALLS
        /\ \E d \in Descs, at \in 1 .. i :
             /\ d.produces.count > 0 /\ kind_compat(want, d.produces.kind)
             /\ \E c \in Calls(prog, at, d) :
                  prog' = [Inserted(prog, at, c) EXCEPT ![i + 1].refs[j] = Produced(at, 0)]
    BY <1>2 DEF WireProducer, Edit
  <2>2. PICK d \in Descs, at \in 1 .. i :
             /\ d.produces.count > 0 /\ kind_compat(want, d.produces.kind)
             /\ \E c \in Calls(prog, at, d) :
                  prog' = [Inserted(prog, at, c) EXCEPT ![i + 1].refs[j] = Produced(at, 0)]
    BY <2>1
  <2>3. PICK c \in Calls(prog, at, d) :
             prog' = [Inserted(prog, at, c) EXCEPT ![i + 1].refs[j] = Produced(at, 0)]
    BY <2>2
  <2>4. d \in SYSCALLS /\ at \in Nat
    BY DescsInTable
  <2>5. c \in AnyCall /\ c.desc = d /\ Placed(prog, at, c)
    BY <2>4, CallsPlaced
  <2>6. prog' = WithRef(Inserted(prog, at, c), i + 1, j, Produced(at, 0))
    BY <2>3 DEF WithRef
  <2>7. c.desc.produces.count > 0 /\ kind_compat(want, c.desc.produces.kind)
    BY <2>2, <2>5
  <2> DEFINE e == AfterInsert(prog, at)
  <2>8. /\ prog' \in Seq(AnyCall) /\ Len(prog') = Len(prog) + 1
        /\ Carried(prog, prog', 1 .. Len(prog), e, {<<i, j>>})
        /\ prog'[i + 1].refs[j] = Produced(at, 0)
        /\ Wf(prog')
    <3> DEFINE q == WithRef(Inserted(prog, at, c), i + 1, j, Produced(at, 0))
    <3>1. /\ q \in Seq(AnyCall) /\ Len(q) = Len(prog) + 1
          /\ Carried(prog, q, 1 .. Len(prog), AfterInsert(prog, at), {<<i, j>>})
          /\ q[i + 1].refs[j] = Produced(at, 0)
          /\ Wf(q)
      BY <1>0, <2>5, <2>7, WireCarries
    <3> QED
      BY <2>6, <3>1
  <2>9. at \in 1 .. Len(prog) + 1
    BY <1>0
  <2>10. e \in [1 .. Len(prog) -> Nat] /\ Increasing(1 .. Len(prog), e)
    BY <1>0, <2>5, <2>9, InsertCarries
  <2>11. prog'[e[i]].refs[j].call \in (1 .. Len(prog')) \ Image(1 .. Len(prog), e)
    <3>1. e[i] = i + 1
      BY <1>0, <2>4 DEF AfterInsert
    <3>2. at \in 1 .. Len(prog') /\ at \notin Image(1 .. Len(prog), e)
      BY <1>0, <2>8, <2>9 DEF Image, AfterInsert
    <3>3. prog'[i + 1].refs[j].call = at
      BY <2>8 DEF Produced
    <3> HIDE DEF e
    <3> QED
      BY <3>1, <3>2, <3>3
  <2> HIDE DEF e
  <2>12. Kept(prog, prog')
    BY <1>0, <2>8, <2>10, <2>11, KeptPicked
  <2>13. Len(prog') <= MAX_CALLS /\ prog' # << >>
    BY <1>0, <2>1, <2>8, ProgramBounds
  <2> QED
    BY <2>8, <2>12, <2>13 DEF Edited, ProgOK
<1> QED
  BY <1>1, <1>2

\* One piece of data changes.
LEMMA DataEdits ==
  ASSUME ProgOK(prog), NEW i \in DOMAIN prog, NEW j \in DataArgs(prog[i].desc), NEW v \in Values,
         DataOK(prog[i].desc.args[j], v), prog' = [prog EXCEPT ![i].data[j] = v]
  PROVE  Edited(prog, prog')
<1>0. prog \in Seq(AnyCall) /\ Wf(prog) /\ i \in 1 .. Len(prog) /\ Len(prog) \in Nat
      /\ Len(prog) <= MAX_CALLS
  BY SeqDomain DEF ProgOK
<1>1. prog' = WithData(prog, i, j, v)
  BY DEF WithData
<1>2. /\ prog' \in Seq(AnyCall) /\ Len(prog') = Len(prog)
      /\ Carried(prog, prog', 1 .. Len(prog), Same(prog), {})
      /\ Wf(prog')
  BY <1>0, <1>1, MutateCarries
<1>3. Same(prog) \in [1 .. Len(prog) -> Nat] /\ Increasing(1 .. Len(prog), Same(prog))
  BY <1>0, SameIncreasing
<1>4. Kept(prog, prog')
  BY <1>0, <1>2, <1>3, KeptAll
<1>5. Len(prog') <= MAX_CALLS /\ prog' # << >>
  BY <1>0, <1>2
<1> QED
  BY <1>2, <1>4, <1>5 DEF Edited, ProgOK

\* mutate_random_arg on data and its relatives
LEMMA MutateDataEdits ==
  ASSUME ProgOK(prog), NEW i \in DOMAIN prog, NEW j \in DataArgs(prog[i].desc), MutateData(i, j)
  PROVE  Edited(prog, prog')
<1>1. PICK v \in DataVals(prog[i].desc.args[j]) : prog' = [prog EXCEPT ![i].data[j] = v]
  BY DEF MutateData, Edit
<1>2. prog[i].desc \in SYSCALLS
  <2>1. prog[i] \in AnyCall
    BY SeqDomain DEF ProgOK
  <2> QED
    BY <2>1, CallFields
<1>3. v \in Values
  <2>1. v \in Held(prog[i].desc)
    BY DEF Held
  <2> QED
    BY <1>2, <2>1 DEF Values
<1>4. DataOK(prog[i].desc.args[j], v)
  BY DEF DataOK
<1> QED
  BY <1>1, <1>3, <1>4, DataEdits

\* mutate_cmplog
LEMMA MutateCmplogEdits ==
  ASSUME ProgOK(prog), NEW i \in DOMAIN prog, NEW j \in DataArgs(prog[i].desc), MutateCmplog(i, j)
  PROVE  Edited(prog, prog')
<1> DEFINE ty == prog[i].desc.args[j]
<1>1. prog' = [prog EXCEPT ![i].data[j] = WILD] /\ prog[i].data[j] \in {NULL, WILD} /\ ty.t = "ptr"
  BY DEF MutateCmplog, Edit
<1>2. prog[i].desc \in SYSCALLS /\ DataOK(ty, prog[i].data[j])
  <2>1. prog[i] \in AnyCall
    BY SeqDomain DEF ProgOK
  <2> QED
    BY <2>1, CallFields
<1>3. ty.nullable
  <2>1. CASE prog[i].data[j] \in DataVals(ty)
    <3>1. DataVals(ty) \cap {NULL, WILD} # {}
      BY <1>1, <2>1
    <3> QED
      BY <1>2, <3>1, NullsNullable
  <2> QED
    BY <1>2, <2>1 DEF DataOK
<1>4. WILD \in Values
  BY DEF Values
<1>5. DataOK(ty, WILD)
  BY <1>1, <1>3 DEF DataOK
<1> QED
  BY <1>1, <1>4, <1>5, DataEdits

\* prepend_fail_inject
LEMMA PreambleEdits ==
  ASSUME ProgOK(prog), PrependFailInject
  PROVE  Edited(prog, prog')
<1>0. prog \in Seq(AnyCall) /\ Wf(prog) /\ Len(prog) \in Nat
  BY SeqDomain DEF ProgOK
<1> DEFINE moved == MapRefs(prog, LAMBDA r : IF IsSeed(r) THEN r ELSE Produced(r.call + 2, r.slot))
           second(x) == [desc |-> WRITE_FAIL_NTH, refs |-> [j \in {1} |-> Produced(1, 0)], data |-> x]
<1>1. moved = Mapped(prog, Shift)
  <2>1. \A i \in DOMAIN prog : \A j \in DOMAIN prog[i].refs : prog[i].refs[j] \in Ref
    <3>1. ASSUME NEW i \in DOMAIN prog PROVE prog[i] \in AnyCall
      BY <1>0
    <3> QED
      BY <3>1, CallFields
  <2> QED
    BY <2>1 DEF MapRefs, Mapped, Shift
<1>2. PICK c1 \in Calls(<< >>, 1, OPENAT_FAIL_NTH), x \in Data(WRITE_FAIL_NTH) :
        prog' = Truncated(<<c1, second(x)>> \o moved)
  BY ByName DEF PrependFailInject, Edit
<1>3. c1 \in AnyCall /\ c1.desc = OPENAT_FAIL_NTH /\ Placed(<< >>, 1, c1)
  BY ByName, CallsPlaced
<1> DEFINE c2 == second(x)
<1>4. c2 \in AnyCall
  <2> DEFINE rs == [j \in {1} |-> Produced(1, 0)]
  <2>1. x \in [DataArgs(WRITE_FAIL_NTH) -> Values]
        /\ \A j \in DataArgs(WRITE_FAIL_NTH) : DataOK(WRITE_FAIL_NTH.args[j], x[j])
    BY ByName, DataTypes
  <2>2. rs \in [ResArgs(WRITE_FAIL_NTH) -> Ref]
    BY Arguments DEF Ref, Produced
  <2>3. WRITE_FAIL_NTH \in SYSCALLS
    BY ByName
  <2>4. c2 = [desc |-> WRITE_FAIL_NTH, refs |-> rs, data |-> x]
    OBVIOUS
  <2> HIDE DEF rs, c2
  <2> QED
    BY <2>1, <2>2, <2>3, <2>4, CallBuilt
<1>5. Placed(<<c1>>, 2, c2)
  <2> DEFINE r == Produced(1, 0)
  <2>1. c2.desc = WRITE_FAIL_NTH /\ ResArgs(c2.desc) = {1} /\ c2.refs[1] = r /\ c2.desc.args[1].kind = "fd"
    BY Arguments
  <2>2. r.call = 1 /\ r.slot = 0
    BY DEF Produced
  <2>3. c1.desc.produces.count = 1 /\ c1.desc.produces.kind = "fd"
    BY <1>3, Arguments DEF Ret
  <2>4. 0 \in Slots(c1.desc)
    BY <2>3 DEF Slots
  <2>5. <<c1>>[1] = c1
    OBVIOUS
  <2> HIDE DEF r, c2
  <2>6. Fits(<<c1>>, 2, "fd", r)
    BY <2>2, <2>3, <2>4, <2>5, Kindred DEF Fits
  <2> QED
    BY <2>1, <2>6 DEF Placed
<1>6. prog' = Truncated(<<c1, c2>> \o Mapped(prog, Shift))
  BY <1>1, <1>2
<1> DEFINE K == 1 .. Len(prog') - 2
           e == AfterPreamble(prog')
<1> HIDE DEF c2, moved, second
<1>7. /\ prog' \in Seq(AnyCall) /\ Len(prog') \in 1 .. MAX_CALLS /\ prog'[1] = c1
      /\ K \in SUBSET (1 .. Len(prog))
      /\ e \in [K -> Nat]
      /\ Increasing(K, e)
      /\ Carried(prog, prog', K, e, {})
      /\ Image(K, e) = 3 .. Len(prog')
      /\ Wf(prog')
  <2> DEFINE q == Truncated(<<c1, c2>> \o Mapped(prog, Shift))
  <2>1. /\ q \in Seq(AnyCall) /\ Len(q) \in 1 .. MAX_CALLS /\ q[1] = c1
        /\ (1 .. Len(q) - 2) \in SUBSET (1 .. Len(prog))
        /\ AfterPreamble(q) \in [1 .. Len(q) - 2 -> Nat]
        /\ Increasing(1 .. Len(q) - 2, AfterPreamble(q))
        /\ Carried(prog, q, 1 .. Len(q) - 2, AfterPreamble(q), {})
        /\ {AfterPreamble(q)[i] : i \in 1 .. Len(q) - 2} = 3 .. Len(q)
        /\ Wf(q)
    BY <1>0, <1>3, <1>4, <1>5, PreambleCarries
  <2>2. prog' = q
    BY <1>6
  <2> HIDE DEF q
  <2> QED
    BY <2>1, <2>2 DEF Image
<1>8. prog'[1].desc.name = "openat$fail_nth"
  BY <1>3, <1>7 DEF OPENAT_FAIL_NTH, D
<1>9. Threads(prog, prog', K, 3 .. Len(prog'), {})
  <2> HIDE DEF K, e
  <2>1. Threads(prog, prog', K, Image(K, e), {})
    BY <1>0, <1>7, CarriedThreads
  <2> QED
    BY <1>7, <2>1
<1>10. Kept(prog, prog')
  BY <1>8, <1>9 DEF Kept
<1>11. Len(prog') <= MAX_CALLS /\ prog' # << >>
  BY <1>7, ProgramBounds
<1> QED
  BY <1>7, <1>10, <1>11 DEF Edited, ProgOK

-------------------------------------------------------------------------------
(* Generation. *)

\* A call generated for the end of the program may be appended to it.
LEMMA AppendedOK ==
  ASSUME NEW p, ProgOK(p), Len(p) < MAX_CALLS, NEW c \in AnyCall, Placed(p, Len(p) + 1, c)
  PROVE  ProgOK(Append(p, c))
<1> DEFINE q == Append(p, c)
           m == Len(p) + 1
<1>0. p \in Seq(AnyCall) /\ Wf(p) /\ Len(p) \in Nat /\ MAX_CALLS \in Nat
  BY SeqDomain, ProgramBounds DEF ProgOK
<1>1. q \in Seq(AnyCall) /\ Len(q) = m /\ q[m] = c
  BY <1>0
<1>2. \A n \in 1 .. Len(p) : q[n] = p[n]
  BY <1>0
<1> HIDE DEF q
<1>3. ASSUME NEW n \in 1 .. m, NEW want, NEW r \in Ref, Fits(p, n, want, r) PROVE Fits(q, n, want, r)
  <2>1. r.call \in 1 .. Len(p)
    BY <1>0, <1>3 DEF Fits
  <2>2. q[r.call] = p[r.call]
    BY <1>2, <2>1
  <2> QED
    BY <1>3, <2>2 DEF Fits
<1>4. ASSUME NEW n \in 1 .. Len(p), NEW j \in ResArgs(q[n].desc) PROVE GoodRef(q, n, j)
  <2>1. q[n] = p[n]
    BY <1>2
  <2>2. GoodRef(p, n, j)
    BY <1>0, <2>1 DEF Wf
  <2>3. p[n].refs[j] \in Ref
    BY <1>0, <2>1, RefCases
  <2>4. n \in 1 .. m
    BY <1>0
  <2> QED
    BY <1>3, <2>1, <2>2, <2>3, <2>4 DEF GoodRef
<1>5. ASSUME NEW j \in ResArgs(c.desc) PROVE GoodRef(q, m, j)
  <2>1. c.refs[j] \in Ref
    BY CallFields
  <2>2. c.refs[j] = Seed \/ Fits(p, m, c.desc.args[j].kind, c.refs[j])
    BY DEF Placed
  <2>3. m \in 1 .. m
    BY <1>0
  <2> QED
    BY <1>1, <1>3, <2>1, <2>2, <2>3 DEF GoodRef
<1>6. Wf(q)
  <2>1. ASSUME NEW n \in 1 .. Len(q), NEW j \in ResArgs(q[n].desc) PROVE GoodRef(q, n, j)
    <3>1. CASE n = m
      BY <1>1, <1>5, <3>1
    <3>2. CASE n # m
      <4>1. n \in 1 .. Len(p)
        BY <1>0, <1>1, <3>2
      <4> QED
        BY <1>4, <4>1
    <3> QED
      BY <3>1, <3>2
  <2> QED
    BY <2>1 DEF Wf
<1>7. Len(q) <= MAX_CALLS
  BY <1>0, <1>1
<1> QED
  BY <1>1, <1>6, <1>7 DEF ProgOK, q

LEMMA GenCallOK ==
  ASSUME ProgOK(prog), NEW d \in SYSCALLS, GenCall(d)
  PROVE  ProgOK(prog')
<1>1. PICK c \in Calls(prog, Len(prog) + 1, d) : prog' = Append(prog, c)
  BY DEF GenCall
<1>2. Len(prog) \in Nat /\ Len(prog) < MAX_CALLS
  BY SeqDomain DEF ProgOK, GenCall
<1>3. c \in AnyCall /\ Placed(prog, Len(prog) + 1, c)
  <2> DEFINE n == Len(prog) + 1
  <2>1. n \in Nat /\ c \in Calls(prog, n, d)
    BY <1>2
  <2> HIDE DEF n
  <2>2. c \in AnyCall /\ Placed(prog, n, c)
    BY <2>1, CallsPlaced
  <2> QED
    BY <2>2 DEF n
<1> QED
  BY <1>1, <1>2, <1>3, AppendedOK

LEMMA GenRingOK ==
  ASSUME NEW n \in Nat \ {0}, GenRing(n)
  PROVE  ProgOK(prog') /\ prog' # << >>
<1>1. PICK made \in Calls(<< >>, 1, EPOLL_CREATE1), x \in Data(EPOLL_CTL) : prog' = Ring(n, made, x)
  BY ByName DEF GenRing, Ring
<1>2. Ring(n, made, x) \in Seq(AnyCall) /\ Len(Ring(n, made, x)) = 2 * n /\ Wf(Ring(n, made, x))
  BY RingProg
<1>3. 2 * n <= MAX_CALLS
  BY DEF GenRing
<1>4. prog' # << >>
  BY <1>1, <1>2
<1> QED
  BY <1>1, <1>2, <1>3, <1>4 DEF ProgOK

-------------------------------------------------------------------------------
(* The inductive invariant.  The program is well-formed in every phase; while the      *)
(* minimiser runs, every call it has tried and kept stands for a rejected candidate.   *)

ProgInv ==
  /\ ProgOK(prog)
  /\ phase \in {"gen", "edit", "min", "done"}
  /\ phase # "gen" => prog # << >>
  /\ keep \subseteq DOMAIN prog /\ tried \subseteq keep
  /\ rejected \subseteq SUBSET DOMAIN prog
  /\ tries \in Nat
  /\ phase \in {"gen", "edit"} => keep = {} /\ tried = {} /\ rejected = {}
  /\ phase \in {"min", "done"} => keep # {} /\ \A i \in tried : keep \ {i} \in rejected
  /\ phase = "done" => PassDone

LEMMA ProgInit == Init => ProgInv
<1> SUFFICES ASSUME Init PROVE ProgInv
  OBVIOUS
<1>1. ProgOK(prog)
  BY ProgramBounds DEF Init, ProgOK, Wf
<1> QED
  BY <1>1 DEF Init, ProgInv

\* While a pass goes on there is a call to try, and another one besides it.
LEMMA VictimType ==
  ASSUME ProgInv, phase = "min", ~PassDone
  PROVE  /\ Victim \in keep /\ Victim \notin tried
         /\ Candidate \subseteq DOMAIN prog /\ Candidate # {}
<1>1. IsFiniteSet(keep) /\ keep \in SUBSET Nat
  <2>1. DOMAIN prog = 1 .. Len(prog) /\ Len(prog) \in Nat
    BY SeqDomain DEF ProgInv, ProgOK
  <2>2. IsFiniteSet(1 .. Len(prog))
    BY <2>1, FS_Interval
  <2> QED
    BY <2>1, <2>2, FS_Subset DEF ProgInv
<1>2. tried \subseteq keep /\ keep \subseteq DOMAIN prog
  BY DEF ProgInv
<1> DEFINE S == keep \ tried
<1>3. S # {} /\ S \in SUBSET Nat /\ IsFiniteSet(S)
  <2>1. IsFiniteSet(S)
    BY <1>1, FS_Subset
  <2> QED
    BY <1>1, <1>2, <2>1 DEF PassDone
<1> HIDE DEF S
<1>4. 1 \in 1 .. Cardinality(S)
  BY <1>3, FS_EmptySet, FS_CardinalityType
<1>5. Nth(S, 1) \in S
  BY <1>3, <1>4, NthType
<1>6. Victim \in keep /\ Victim \notin tried
  BY <1>5 DEF Victim, S
<1>7. Candidate # {}
  <2>1. CASE keep = {Victim}
    <3>1. Cardinality({Victim}) = 1
      BY FS_Singleton
    <3> QED
      BY <2>1, <3>1 DEF PassDone
  <2>2. CASE keep # {Victim}
    BY <1>6, <2>2 DEF Candidate
  <2> QED
    BY <2>1, <2>2
<1> QED
  BY <1>2, <1>6, <1>7 DEF Candidate

LEMMA EditInv ==
  ASSUME ProgInv, phase = "edit", UNCHANGED <<phase, minVars>>, Edited(prog, prog')
  PROVE  ProgInv'
<1>1. keep = {} /\ tried = {} /\ rejected = {} /\ tries \in Nat
  BY DEF ProgInv
<1>2. keep' = {} /\ tried' = {} /\ rejected' = {} /\ tries' \in Nat /\ phase' = "edit"
  BY <1>1 DEF minVars
<1>3. ProgOK(prog') /\ prog' # << >>
  BY DEF Edited
<1> QED
  BY <1>2, <1>3 DEF ProgInv

\* The actions that edit the program of the corpus.
EditStep ==
  \/ \E d \in Descs : InsertCall(d)
  \/ PrependFailInject
  \/ \E i \in DOMAIN prog :
       \/ RemoveCall(i)
       \/ \E j \in ResArgs(prog[i].desc) : RepickRef(i, j) \/ WireProducer(i, j)
       \/ \E j \in DataArgs(prog[i].desc) : MutateData(i, j) \/ MutateCmplog(i, j)

LEMMA EditStepEdits ==
  ASSUME ProgOK(prog), EditStep
  PROVE  Edited(prog, prog') /\ phase = "edit" /\ UNCHANGED <<phase, minVars>>
<1>1. ASSUME NEW d \in Descs, InsertCall(d)
      PROVE  Edited(prog, prog') /\ phase = "edit" /\ UNCHANGED <<phase, minVars>>
  <2>1. d \in SYSCALLS
    BY DescsInTable
  <2>2. Edited(prog, prog')
    BY <1>1, <2>1, InsertEdits
  <2> QED
    BY <1>1, <2>2 DEF InsertCall, Edit
<1>2. CASE PrependFailInject
  <2>1. Edited(prog, prog')
    BY <1>2, PreambleEdits
  <2> QED
    BY <1>2, <2>1 DEF PrependFailInject, Edit
<1>3. ASSUME NEW i \in DOMAIN prog, RemoveCall(i)
      PROVE  Edited(prog, prog') /\ phase = "edit" /\ UNCHANGED <<phase, minVars>>
  <2>1. Edited(prog, prog')
    BY <1>3, RemoveEdits
  <2> QED
    BY <1>3, <2>1 DEF RemoveCall, Edit
<1>4. ASSUME NEW i \in DOMAIN prog, NEW j \in ResArgs(prog[i].desc), RepickRef(i, j)
      PROVE  Edited(prog, prog') /\ phase = "edit" /\ UNCHANGED <<phase, minVars>>
  <2>1. Edited(prog, prog')
    BY <1>4, RepickRefEdits
  <2> QED
    BY <1>4, <2>1 DEF RepickRef, Edit
<1>5. ASSUME NEW i \in DOMAIN prog, NEW j \in ResArgs(prog[i].desc), WireProducer(i, j)
      PROVE  Edited(prog, prog') /\ phase = "edit" /\ UNCHANGED <<phase, minVars>>
  <2>1. Edited(prog, prog')
    BY <1>5, WireEdits
  <2>2. phase = "edit" /\ UNCHANGED <<phase, minVars>>
    BY <1>5 DEF WireProducer, Edit
  <2> QED
    BY <2>1, <2>2
<1>6. ASSUME NEW i \in DOMAIN prog, NEW j \in DataArgs(prog[i].desc), MutateData(i, j)
      PROVE  Edited(prog, prog') /\ phase = "edit" /\ UNCHANGED <<phase, minVars>>
  <2>1. Edited(prog, prog')
    BY <1>6, MutateDataEdits
  <2> QED
    BY <1>6, <2>1 DEF MutateData, Edit
<1>7. ASSUME NEW i \in DOMAIN prog, NEW j \in DataArgs(prog[i].desc), MutateCmplog(i, j)
      PROVE  Edited(prog, prog') /\ phase = "edit" /\ UNCHANGED <<phase, minVars>>
  <2>1. Edited(prog, prog')
    BY <1>7, MutateCmplogEdits
  <2> QED
    BY <1>7, <2>1 DEF MutateCmplog, Edit
<1> QED
  BY <1>1, <1>2, <1>3, <1>4, <1>5, <1>6, <1>7 DEF EditStep

LEMMA NextCases ==
  ASSUME Next
  PROVE  \/ EditStep
         \/ \E d \in Descs : GenCall(d)
         \/ \E n \in RingMin .. MAX_CALLS \div 2 : GenRing(n)
         \/ EndGen \/ BeginMinimise \/ Accept \/ Reject \/ EndMinimise \/ Resume
BY DEF Next, EditStep

LEMMA ProgStep == ProgInv /\ [Next]_vars => ProgInv'
<1> SUFFICES ASSUME ProgInv, [Next]_vars PROVE ProgInv'
  OBVIOUS
<1>0. ProgOK(prog)
  BY DEF ProgInv
<1>1. CASE EditStep
  <2>1. Edited(prog, prog') /\ phase = "edit" /\ UNCHANGED <<phase, minVars>>
    BY <1>0, <1>1, EditStepEdits
  <2> QED
    BY <2>1, EditInv
<1>2. ASSUME NEW d \in Descs, GenCall(d) PROVE ProgInv'
  <2>1. d \in SYSCALLS
    BY DescsInTable
  <2>2. ProgOK(prog')
    BY <1>0, <1>2, <2>1, GenCallOK
  <2>3. keep' = {} /\ tried' = {} /\ rejected' = {} /\ tries' \in Nat /\ phase' = "gen"
    BY <1>2 DEF GenCall, minVars, ProgInv
  <2> QED
    BY <2>2, <2>3 DEF ProgInv
<1>3. ASSUME NEW n \in RingMin .. MAX_CALLS \div 2, GenRing(n) PROVE ProgInv'
  <2>1. n \in Nat \ {0}
    BY ProgramBounds
  <2>2. ProgOK(prog') /\ prog' # << >>
    BY <1>3, <2>1, GenRingOK
  <2>3. keep' = {} /\ tried' = {} /\ rejected' = {} /\ tries' \in Nat /\ phase' = "edit"
    BY <1>3 DEF GenRing, minVars, ProgInv
  <2> QED
    BY <2>2, <2>3 DEF ProgInv
<1>4. CASE EndGen
  BY <1>0, <1>4 DEF EndGen, minVars, ProgInv
<1>5. CASE BeginMinimise
  <2>1. ProgOK(prog') /\ prog' = prog /\ prog # << >>
    BY <1>0, <1>5 DEF BeginMinimise, ProgInv
  <2>2. DOMAIN prog # {}
    <3>1. prog \in Seq(AnyCall)
      BY <1>0 DEF ProgOK
    <3> QED
      BY <2>1, <3>1, SeqDomain
  <2>3. keep' = DOMAIN prog /\ tried' = {} /\ rejected' = {} /\ tries' = 0 /\ phase' = "min"
    BY <1>5 DEF BeginMinimise
  <2> QED
    BY <2>1, <2>2, <2>3 DEF ProgInv
<1>6. CASE Accept
  <2>1. prog' = prog /\ phase' = "min" /\ keep' = Candidate /\ tried' = {} /\ rejected' = rejected
        /\ tries' \in Nat
    BY <1>6 DEF Accept, ProgInv
  <2>2. Candidate \subseteq DOMAIN prog /\ Candidate # {}
    BY <1>6, VictimType DEF Accept
  <2>3. rejected \subseteq SUBSET DOMAIN prog /\ prog # << >>
    BY <1>6 DEF Accept, ProgInv
  <2> QED
    BY <1>0, <2>1, <2>2, <2>3 DEF ProgInv
<1>7. CASE Reject
  <2>1. prog' = prog /\ phase' = "min" /\ keep' = keep /\ tried' = tried \cup {Victim}
        /\ rejected' = rejected \cup {Candidate} /\ tries' \in Nat
    BY <1>7 DEF Reject, ProgInv
  <2>2. Victim \in keep /\ Candidate \subseteq DOMAIN prog
    BY <1>7, VictimType DEF Reject
  <2>3. rejected \subseteq SUBSET DOMAIN prog /\ prog # << >> /\ keep # {}
        /\ keep \subseteq DOMAIN prog /\ tried \subseteq keep
        /\ \A i \in tried : keep \ {i} \in rejected
    BY <1>7 DEF Reject, ProgInv
  <2>4. \A i \in tried' : keep' \ {i} \in rejected'
    BY <2>1, <2>3 DEF Candidate
  <2>5. keep' \subseteq DOMAIN prog' /\ tried' \subseteq keep' /\ rejected' \subseteq SUBSET DOMAIN prog'
    BY <2>1, <2>2, <2>3
  <2> QED
    BY <1>0, <2>1, <2>3, <2>4, <2>5 DEF ProgInv
<1>8. CASE EndMinimise
  <2>1. PassDone'
    BY <1>8 DEF EndMinimise, PassDone, minVars
  <2> QED
    BY <1>0, <1>8, <2>1 DEF EndMinimise, minVars, ProgInv
<1>9. CASE Resume
  BY <1>0, <1>9 DEF Resume, ProgInv
<1>10. CASE UNCHANGED vars
  <2>1. PassDone' = PassDone
    BY <1>10 DEF PassDone, vars, minVars
  <2> QED
    BY <1>0, <1>10, <2>1 DEF vars, minVars, ProgInv
<1> QED
  BY <1>1, <1>2, <1>3, <1>4, <1>5, <1>6, <1>7, <1>8, <1>9, <1>10, NextCases

LEMMA ProgInvariant == Spec => []ProgInv
BY ProgInit, ProgStep, PTL DEF Spec

-------------------------------------------------------------------------------
(* The theorems. *)

\* Programs stay within the agent's buffer and every argument has a value of its type; the
\* only value that is never generated is the stray number mutate_cmplog puts in the place
\* of a nullable pointer.
THEOREM ProgramsTypeCorrect == Spec => []TypeOK
<1>1. ProgInv => TypeOK
  <2> SUFFICES ASSUME ProgInv PROVE TypeOK
    OBVIOUS
  <2>1. ASSUME NEW i \in DOMAIN prog
        PROVE  /\ prog[i].desc \in SYSCALLS
               /\ DOMAIN prog[i].refs = ResArgs(prog[i].desc)
               /\ \A j \in DataArgs(prog[i].desc) : DataOK(prog[i].desc.args[j], prog[i].data[j])
    <3>1. prog[i] \in AnyCall
      BY DEF ProgInv, ProgOK
    <3> QED
      BY <3>1, CallFields
  <2>2. Len(prog) <= MAX_CALLS
    BY DEF ProgInv, ProgOK
  <2> QED
    BY <2>1, <2>2 DEF ProgInv, TypeOK, DataOK
<1> QED
  BY <1>1, ProgInvariant, PTL

\* The set that subset_prog keeps in the minimiser's candidate and in its result.
LEMMA KeptCalls ==
  ASSUME ProgInv
  PROVE  /\ phase = "min" /\ ~PassDone => Candidate \in SUBSET (1 .. Len(prog))
         /\ keep \in SUBSET (1 .. Len(prog))
<1>1. DOMAIN prog = 1 .. Len(prog)
  BY SeqDomain DEF ProgInv, ProgOK
<1> QED
  BY <1>1, VictimType DEF ProgInv

\* Every edit, however many came before it, leaves each resource argument a seed or a
\* reference to an earlier call that really produces such a resource, in the program of
\* the corpus as in each candidate the minimiser replays (Prog::is_well_formed).
THEOREM ProgramsWellFormed == Spec => []WellFormed
<1>1. ProgInv => WellFormed
  <2> SUFFICES ASSUME ProgInv PROVE WellFormed
    OBVIOUS
  <2>1. prog \in Seq(AnyCall) /\ Wf(prog)
    BY DEF ProgInv, ProgOK
  <2>2. Running \in Seq(AnyCall) /\ Wf(Running)
    <3>1. CASE phase = "min" /\ ~PassDone
      <4>1. Candidate \in SUBSET (1 .. Len(prog))
        BY <3>1, KeptCalls
      <4>2. Running = subset_prog(prog, Candidate)
        BY <3>1 DEF Running
      <4> QED
        BY <2>1, <4>1, <4>2, SubsetCarries
    <3>2. CASE phase = "done"
      <4>1. keep \in SUBSET (1 .. Len(prog))
        BY KeptCalls
      <4>2. Running = subset_prog(prog, keep)
        BY <3>2 DEF Running
      <4> QED
        BY <2>1, <4>1, <4>2, SubsetCarries
    <3>3. CASE phase # "done" /\ ~(phase = "min" /\ ~PassDone)
      BY <2>1, <3>3 DEF Running
    <3> QED
      BY <3>1, <3>2, <3>3
  <2> HIDE DEF Running
  <2>3. ASSUME NEW q \in Seq(AnyCall), Wf(q), NEW i \in DOMAIN q, NEW j \in DOMAIN q[i].refs
        PROVE  IsSeed(q[i].refs[j]) \/ q[i].refs[j] \in Compatible(q, i, q[i].desc.args[j].kind)
    <3>1. i \in 1 .. Len(q) /\ i \in Nat /\ q[i] \in AnyCall
      BY SeqDomain
    <3>2. j \in ResArgs(q[i].desc)
      BY <3>1, CallFields
    <3>3. /\ q[i].refs[j] \in Ref
          /\ q[i].refs[j].call = 0 \/ Fits(q, i, q[i].desc.args[j].kind, q[i].refs[j])
      BY <2>3, <3>1, <3>2, RefCases
    <3> QED
      BY <3>1, <3>3, CompatibleFits DEF IsSeed
  <2> QED
    BY <2>2, <2>3 DEF WellFormed
<1> QED
  BY <1>1, ProgInvariant, PTL

LEMMA SubsetThread ==
  ASSUME NEW p \in Seq(AnyCall), Wf(p), NEW S \in SUBSET (1 .. Len(p))
  PROVE  Threads(p, subset_prog(p, S), S, DOMAIN subset_prog(p, S), {})
<1> DEFINE q == subset_prog(p, S)
<1>1. /\ q \in Seq(AnyCall)
      /\ Ranks(S) \in [S -> Nat] /\ Increasing(S, Ranks(S))
      /\ Carried(p, q, S, Ranks(S), {})
      /\ Image(S, Ranks(S)) = 1 .. Len(q)
  BY SubsetCarries DEF Image
<1> HIDE DEF q
<1>2. Threads(p, q, S, Image(S, Ranks(S)), {})
  BY <1>1, CarriedThreads
<1>3. DOMAIN q = 1 .. Len(q)
  BY <1>1, SeqDomain
<1>4. Threads(p, q, S, DOMAIN q, {})
  BY <1>1, <1>2, <1>3
<1> QED
  BY <1>4 DEF q

\* subset_prog: what the minimiser replays and what it returns is the original program
\* restricted to the kept calls, each reference still at its producer.
THEOREM ProgramsSubsetThreads == Spec => []SubsetThreads
<1>1. ProgInv => SubsetThreads
  <2> SUFFICES ASSUME ProgInv PROVE SubsetThreads
    OBVIOUS
  <2>1. prog \in Seq(AnyCall) /\ Wf(prog)
    BY DEF ProgInv, ProgOK
  <2> QED
    BY <2>1, KeptCalls, SubsetThread DEF SubsetThreads
<1> QED
  BY <1>1, ProgInvariant, PTL

\* minimize_program: however its passes went, the program it returns has one call, or
\* every single deletion from it was replayed and did not crash.
THEOREM ProgramsOneMinimal == Spec => []OneMinimal
<1>1. ProgInv => OneMinimal
  <2> SUFFICES ASSUME ProgInv, phase = "done"
               PROVE  Cardinality(keep) = 1 \/ \A i \in keep : keep \ {i} \in rejected
    BY DEF OneMinimal
  <2>1. keep # {} /\ (\A i \in tried : keep \ {i} \in rejected) /\ (Cardinality(keep) <= 1 \/ tried = keep)
    BY DEF ProgInv, PassDone
  <2>2. IsFiniteSet(keep)
    <3>1. keep \subseteq 1 .. Len(prog) /\ Len(prog) \in Nat
      BY KeptCalls, SeqDomain DEF ProgInv, ProgOK
    <3>2. IsFiniteSet(1 .. Len(prog))
      BY <3>1, FS_Interval
    <3> QED
      BY <3>1, <3>2, FS_Subset
  <2>3. Cardinality(keep) \in Nat /\ Cardinality(keep) # 0
    BY <2>1, <2>2, FS_CardinalityType, FS_EmptySet
  <2> QED
    BY <2>1, <2>3
<1> QED
  BY <1>1, ProgInvariant, PTL

\* No edit of any program of any length rewires a reference it was not asked to change:
\* insertion, removal, re-picking, wiring and the fail_nth preamble renumber exactly.
THEOREM ProgramsNoRewire == Spec => NoRewire
<1>1. ProgInv /\ [Next]_vars =>
        [phase = "edit" /\ phase' = "edit" =>
           \/ \E K \in SUBSET DOMAIN prog, I \in SUBSET DOMAIN prog' :
                /\ Cardinality(K) = Cardinality(I)
                /\ K = DOMAIN prog \/ I = DOMAIN prog'
                /\ Threads(prog, prog', K, I, {})
           \/ \E I \in SUBSET DOMAIN prog', i \in DOMAIN prog :
                \E j \in DOMAIN prog[i].refs : Repicks(prog, prog', I, i, j)
           \/ /\ prog'[1].desc.name = "openat$fail_nth"
              /\ Threads(prog, prog', 1 .. Len(prog') - 2, 3 .. Len(prog'), {})]_vars
  <2> SUFFICES ASSUME ProgInv, Next, phase = "edit", phase' = "edit"
               PROVE  Kept(prog, prog')
    BY DEF Kept
  <2>1. ProgOK(prog)
    BY DEF ProgInv
  <2>2. EditStep
    BY NextCases DEF GenCall, GenRing, EndGen, BeginMinimise, Accept, Reject, EndMinimise, Resume
  <2>3. Edited(prog, prog')
    BY <2>1, <2>2, EditStepEdits
  <2> QED
    BY <2>3 DEF Edited
<1> QED
  BY <1>1, ProgInvariant, PTL DEF Spec, NoRewire
===============================================================================
