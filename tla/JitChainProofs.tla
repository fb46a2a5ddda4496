---------------------------- MODULE JitChainProofs ----------------------------
(***************************************************************************)
(* --jit-chain implements the interpreter but for the known differences,    *)
(* for guests, page tables, page sizes, chain and run lengths, cache sizes, *)
(* arena capacities and deadlines of any size.                              *)
(***************************************************************************)
EXTENDS JitChain, WellFoundedInduction, TLAPS

(* Arithmetic. *)

\* Quotient and remainder are unique.
LEMMA ModUnique ==
  ASSUME NEW v \in Nat \ {0}, NEW q \in Int, NEW r \in 0 .. v - 1, NEW a \in Int, a = v * q + r
  PROVE  a % v = r
<1> DEFINE p == a \div v
           s == a % v
<1>1. p \in Int /\ s \in 0 .. v - 1 /\ a = v * p + s
  OBVIOUS
<1> HIDE DEF p, s
<1>2. v * (p - q) = r - s
  BY <1>1
<1>3. ~(p - q >= 1)
  <2> SUFFICES ASSUME p - q >= 1 PROVE FALSE
    OBVIOUS
  <2>1. v * (p - q) >= v
    BY <1>1
  <2> QED BY <1>1, <1>2, <2>1
<1>4. ~(p - q <= -1)
  <2> SUFFICES ASSUME p - q <= -1 PROVE FALSE
    OBVIOUS
  <2>1. v * (p - q) <= -v
    BY <1>1
  <2> QED BY <1>1, <1>2, <2>1
<1>5. p = q
  BY <1>1, <1>3, <1>4
<1> QED BY <1>1, <1>5 DEF s

\* Adding after a wrap.
LEMMA ModPlus ==
  ASSUME NEW v \in Nat \ {0}, NEW a \in Int, NEW b \in Int
  PROVE  ((a % v) + b) % v = (a + b) % v
<1> DEFINE q == a \div v
           r == a % v
           p == (r + b) \div v
           s == (r + b) % v
<1>1. q \in Int /\ r \in 0 .. v - 1 /\ a = v * q + r
  OBVIOUS
<1>2. p \in Int /\ s \in 0 .. v - 1 /\ r + b = v * p + s
  BY <1>1
<1> HIDE DEF p, q, r, s
<1>3. a + b = v * (q + p) + s
  BY <1>1, <1>2
<1>4. (a + b) % v = s
  <2> DEFINE c == a + b
             t == q + p
  <2>1. c \in Int /\ t \in Int /\ c = v * t + s
    BY <1>1, <1>2, <1>3
  <2> HIDE DEF c, t
  <2>2. c % v = s
    BY <1>2, <2>1, ModUnique
  <2> QED BY <2>2 DEF c
<1> QED BY <1>4 DEF r, s

\* Addresses page by page, in a memory of whole pages.
LEMMA PageArith ==
  ASSUME NEW z \in Nat, z % PageSize = 0, NEW a \in 0 .. z - 1, NEW r \in 0 .. PageSize - 1
  PROVE  /\ PageOf(a) + r \in 0 .. z - 1
         /\ (PageOf(a) + r) % PageSize = r
         /\ PageOf(PageOf(a) + r) = PageOf(a)
         /\ PageOf(a) \in Nat
<1> DEFINE g == PageSize
           n == z \div g
           k == a \div g
           b == PageOf(a) + r
<1>1. g \in Nat \ {0}
  BY InterpAssumption
<1>2. n \in Nat /\ z = g * n
  BY <1>1
<1>3. k \in Nat /\ g * k <= a /\ a < z /\ PageOf(a) = g * k
  BY <1>1 DEF PageOf
<1> HIDE DEF n, k
<1>4. k < n
  <2> SUFFICES ASSUME k >= n PROVE FALSE
    BY <1>2, <1>3
  <2>1. g * k >= g * n
    BY <1>1, <1>2, <1>3
  <2>2. g * k \in Nat /\ g * n \in Nat /\ a \in Nat
    BY <1>1, <1>2, <1>3
  <2> QED BY <1>2, <1>3, <2>1, <2>2
<1>5. g * k + g <= g * n
  BY <1>1, <1>2, <1>3, <1>4
<1>6. g * k \in Nat
  BY <1>1, <1>3
<1>7. b \in 0 .. z - 1
  BY <1>1, <1>2, <1>3, <1>5, <1>6
<1>8. b % g = r
  <2>1. b \in Int /\ k \in Int /\ b = g * k + r
    BY <1>1, <1>3, <1>6
  <2> HIDE DEF b
  <2> QED BY <1>1, <2>1, ModUnique
<1>9. PageOf(b) = PageOf(a)
  <2>1. PageOf(b) = b - r
    BY <1>8 DEF PageOf
  <2> QED BY <1>3, <1>6, <2>1
<1> QED BY <1>3, <1>6, <1>7, <1>8, <1>9

\* A set with 0 and the successors of its members has every natural number.
LEMMA NatSetInduction ==
  ASSUME NEW S, 0 \in S, \A n \in Nat : n \in S => n + 1 \in S
  PROVE  \A n \in Nat : n \in S
<1> DEFINE T == {n \in Nat : n \notin S}
<1> SUFFICES ASSUME T # {} PROVE FALSE
  OBVIOUS
<1>1. PICK n \in T : \A k \in T : <<k, n>> \notin OpToRel(<, Nat)
  <2>1. T \subseteq Nat
    OBVIOUS
  <2> HIDE DEF T
  <2> QED BY <2>1, NatLessThanWellFounded, WFMin
<1>2. n \in Nat \ {0} /\ n - 1 \in Nat /\ n - 1 < n
  OBVIOUS
<1>3. n - 1 \notin T
  BY <1>1, <1>2 DEF OpToRel
<1> QED BY <1>2, <1>3
-------------------------------------------------------------------------------
(* Translation and fetch. *)

StepType == [inst : Inst, offset : Nat]

GuestTypes ==
  /\ code \in [Pa -> Halves]
  /\ pages \in [VPages -> PPages \cup {Unmapped}]

LEMMA Sizes ==
  /\ VaSize \in Nat \ {0} /\ PaSize \in Nat \ {0} /\ PageSize \in Nat \ {0}
  /\ VaSize % PageSize = 0 /\ PaSize % PageSize = 0
  /\ Slots \in Nat \ {0} /\ BSlots \in Nat \ {0} /\ Vector \in Va
  /\ MAX_CHAIN_LEN \in Nat \ {0} /\ MAX_RUN_LEN \in Nat \ {0} /\ Deadline \in Nat
BY InterpAssumption, JitAssumption

LEMMA VaTypes ==
  ASSUME NEW va \in Va
  PROVE  va \in Nat /\ va \in Int
BY Sizes DEF Va

LEMMA PlusTypes ==
  ASSUME NEW a \in Int, NEW n \in Int
  PROVE  Plus(a, n) \in Va
BY Sizes DEF Va, Plus

LEMMA PlusZero ==
  ASSUME NEW va \in Va
  PROVE  Plus(va, 0) = va
BY Sizes DEF Plus, Va

\* A mapped address translates to one in memory, with the same place on its page.
LEMMA Translated ==
  ASSUME GuestTypes, NEW va \in Va, Mapped(va)
  PROVE  /\ xlate(va) \in Pa
         /\ xlate(va) % PageSize = va % PageSize
         /\ PageOf(xlate(va)) = pages[PageOf(va)]
<1> DEFINE r == va % PageSize
<1>1. pages[PageOf(va)] \in PPages
  BY DEF GuestTypes, Mapped, VPages
<1>2. PICK a \in Pa : pages[PageOf(va)] = PageOf(a)
  BY <1>1 DEF PPages
<1>3. r \in 0 .. PageSize - 1
  BY Sizes, VaTypes
<1>4. a \in 0 .. PaSize - 1 /\ PaSize \in Nat /\ PaSize % PageSize = 0
  BY Sizes DEF Pa
<1> HIDE DEF r
<1>5. /\ PageOf(a) + r \in 0 .. PaSize - 1 /\ (PageOf(a) + r) % PageSize = r
      /\ PageOf(PageOf(a) + r) = PageOf(a)
  BY <1>3, <1>4, PageArith
<1>6. xlate(va) = PageOf(a) + r
  BY <1>2 DEF xlate, r
<1> QED BY <1>2, <1>5, <1>6 DEF Pa, r

\* Going on by n half-words without leaving the page.
LEMMA OnPage ==
  ASSUME GuestTypes, NEW va \in Va, NEW n \in Nat, (va % PageSize) + n < PageSize
  PROVE  /\ Plus(va, n) = va + n /\ Plus(va, n) \in Va
         /\ PageOf(Plus(va, n)) = PageOf(va)
         /\ xlate(Plus(va, n)) = xlate(va) + n
         /\ Plus(va, n) % PageSize = (va % PageSize) + n
<1> DEFINE r == (va % PageSize) + n
           b == PageOf(va) + r
<1>1. va % PageSize \in Nat /\ va \in Nat /\ PageSize \in Nat
  BY Sizes, VaTypes
<1>2. r \in 0 .. PageSize - 1
  BY <1>1
<1>3. va \in 0 .. VaSize - 1 /\ VaSize \in Nat \ {0} /\ VaSize % PageSize = 0
  BY Sizes DEF Va
<1>4. b = va + n
  BY <1>1 DEF PageOf
<1> HIDE DEF r
<1>5. /\ b \in 0 .. VaSize - 1 /\ b % PageSize = r /\ PageOf(b) = PageOf(va)
  BY <1>2, <1>3, PageArith
<1>6. Plus(va, n) = b
  <2>1. Plus(va, n) = b % VaSize
    BY <1>4 DEF Plus
  <2> HIDE DEF b
  <2>2. b % VaSize = b
    BY <1>3, <1>5
  <2> QED BY <2>1, <2>2
<1>7. xlate(b) = pages[PageOf(va)] + r
  BY <1>5 DEF xlate
<1>8. pages[PageOf(va)] + r = xlate(va) + n
  <2> DEFINE p == pages[PageOf(va)]
  <2>2. p \in Int
    <3>1. \A a \in Pa : PageOf(a) \in Int
      BY Sizes DEF PageOf, Pa
    <3> QED BY <3>1 DEF GuestTypes, VPages, PPages, Unmapped
  <2> HIDE DEF p
  <2>1. p + ((va % PageSize) + n) = (p + (va % PageSize)) + n
    BY <1>1, <2>2
  <2> QED BY <2>1 DEF p, xlate, r
<1> HIDE DEF b
<1> QED BY <1>4, <1>5, <1>6, <1>7, <1>8 DEF Va, r

\* A fetch gives an instruction, or faults.
LEMMA FetchTypes ==
  ASSUME GuestTypes, NEW va \in Va
  PROVE  /\ Fetched(va) \in Inst \/ Fetched(va) = FetchFault
         /\ Fetched(va) # FetchFault => Mapped(va)
         /\ Fetched(va) \in Inst => Fetched(va).k # "fault"
<1> DEFINE lo == code[xlate(va)]
           next == Plus(va, 1)
<1>1. next \in Va
  BY VaTypes, PlusTypes
<1>2. Mapped(va) => lo \in Halves
  BY Translated DEF GuestTypes
<1>3. Mapped(next) => code[xlate(next)] \in Halves
  BY <1>1, Translated DEF GuestTypes
<1>4. /\ decode_compressed \in [Halves \ Wide -> {i \in Inst : i.ilen = 1}]
      /\ decode \in [Wide -> [Halves -> {i \in Inst : i.ilen = 2}]]
  BY InterpAssumption
<1>5. \A i \in Inst : i.k # "fault"
  BY DEF Inst, Kinds
<1> QED BY <1>2, <1>3, <1>4, <1>5 DEF Fetched

\* What is found on a page does not depend on the address the page is seen at.
LEMMA SameFetch ==
  ASSUME GuestTypes, NEW va \in Va, NEW vb \in Va, Mapped(va), Mapped(vb), xlate(va) = xlate(vb),
         NEW n \in Nat, Fetched(Plus(va, n)) \in Inst,
         (vb % PageSize) + n + Fetched(Plus(va, n)).ilen <= PageSize
  PROVE  Fetched(Plus(va, n)) = Fetched(Plus(vb, n))
<1> DEFINE r == va % PageSize
           i == Fetched(Plus(va, n))
           lo == code[xlate(Plus(va, n))]
<1>1. r = vb % PageSize /\ pages[PageOf(va)] = pages[PageOf(vb)] /\ r \in Nat
  BY Translated, Sizes, VaTypes
<1>2. i.ilen \in {1, 2} /\ i # FetchFault
  BY DEF Inst, FetchFault
<1>3. r + n < PageSize
  BY <1>1, <1>2, Sizes
<1>4. /\ xlate(Plus(va, n)) = xlate(Plus(vb, n))
      /\ PageOf(Plus(va, n)) = PageOf(va) /\ PageOf(Plus(vb, n)) = PageOf(vb)
      /\ Plus(va, n) \in Va /\ Plus(vb, n) \in Va
      /\ Plus(va, n) % PageSize = r + n /\ Plus(vb, n) % PageSize = r + n
  BY <1>1, <1>3, OnPage
<1>5. Mapped(Plus(va, n)) /\ Mapped(Plus(vb, n))
  BY <1>4 DEF Mapped
<1>6. CASE lo \notin Wide
  BY <1>4, <1>5, <1>6 DEF Fetched
<1>7. CASE lo \in Wide
  <2> DEFINE ua == Plus(va, n)
             ub == Plus(vb, n)
  <2>1. Mapped(Plus(ua, 1)) /\ i = decode[lo][code[xlate(Plus(ua, 1))]]
    BY <1>2, <1>5, <1>7 DEF Fetched
  <2>2. lo \in Halves /\ code[xlate(Plus(ua, 1))] \in Halves
    <3>1. Plus(ua, 1) \in Va
      BY <1>4, VaTypes, PlusTypes
    <3> QED BY <1>4, <1>5, <2>1, <3>1, Translated DEF GuestTypes
  <2>3. i.ilen = 2
    BY <1>7, <2>1, <2>2, InterpAssumption
  <2>4. r + n + 1 < PageSize
    BY <1>1, <2>3, Sizes
  <2>5. (ua % PageSize) + 1 < PageSize /\ (ub % PageSize) + 1 < PageSize
    BY <1>1, <1>4, <2>4
  <2> HIDE DEF ua, ub
  <2>6. ua \in Va /\ ub \in Va /\ xlate(ua) = xlate(ub) /\ pages[PageOf(ua)] = pages[PageOf(ub)]
    BY <1>1, <1>4 DEF ua, ub
  <2>7. /\ xlate(Plus(ua, 1)) = xlate(Plus(ub, 1))
        /\ PageOf(Plus(ua, 1)) = PageOf(ua) /\ PageOf(Plus(ub, 1)) = PageOf(ub)
    BY <2>5, <2>6, OnPage
  <2>8. Mapped(Plus(ub, 1))
    BY <2>1, <2>6, <2>7 DEF Mapped, ua
  <2> QED BY <1>4, <1>5, <1>7, <2>1, <2>6, <2>7, <2>8 DEF Fetched, ua, ub
<1> QED BY <1>6, <1>7
-------------------------------------------------------------------------------
(* What decode_chain and compile_run decode. *)

\* A run from va: the instructions the interpreter would fetch, one after the other, up to
\* the first that ends it.
GoodStep(va, tier, steps, k) ==
  /\ steps[k].inst = Fetched(Plus(va, steps[k].offset))
  /\ Takes(steps[k].inst, tier)
  /\ k = 1 => steps[k].offset = 0
  /\ k < Len(steps) => /\ ~Ends(steps[k].inst, tier)
                       /\ steps[k + 1].offset = steps[k].offset + steps[k].inst.ilen
GoodRun(va, tier, steps) ==
  /\ steps \in Seq(StepType)
  /\ \A k \in 1 .. Len(steps) : GoodStep(va, tier, steps, k)

LEMMA TakenTypes ==
  ASSUME GuestTypes, NEW va \in Va, NEW tier, Takes(Fetched(va), tier)
  PROVE  Fetched(va) \in Inst /\ Mapped(va)
<1>1. Fetched(va).k # "fault"
  BY DEF Takes, is_alu_link, is_terminal
<1>2. Fetched(va) # FetchFault
  BY <1>1 DEF FetchFault
<1> QED BY <1>2, FetchTypes

LEMMA BegunGood ==
  ASSUME GuestTypes, NEW va \in Va, NEW tier
  PROVE  GoodRun(va, tier, Begun(va, tier)) /\ Len(Begun(va, tier)) <= 1
<1> DEFINE i == Fetched(va)
           x == Step(i, 0)
<1>1. CASE Takes(i, tier)
  <2>1. Begun(va, tier) = <<x>> /\ Plus(va, 0) = va
    BY <1>1, PlusZero DEF Begun
  <2>2. x \in StepType /\ x.inst = i /\ x.offset = 0
    BY <1>1, TakenTypes DEF Step, StepType
  <2> HIDE DEF x, i
  <2>3. <<x>> \in Seq(StepType) /\ Len(<<x>>) = 1 /\ <<x>>[1] = x
    BY <2>2
  <2>4. GoodStep(va, tier, <<x>>, 1)
    BY <1>1, <2>1, <2>2, <2>3 DEF GoodStep, i
  <2> QED BY <2>1, <2>3, <2>4 DEF GoodRun
<1>2. CASE ~Takes(i, tier)
  BY <1>2 DEF Begun, GoodRun
<1> QED BY <1>1, <1>2

LEMMA GrownGood ==
  ASSUME GuestTypes, NEW va \in Va, NEW tier, NEW steps, GoodRun(va, tier, steps)
  PROVE  /\ GoodRun(va, tier, Grown(va, tier, steps))
         /\ Len(Grown(va, tier, steps)) <= Len(steps) + 1
<1> DEFINE n == Len(steps)
           off == steps[n].offset + steps[n].inst.ilen
           a == Plus(va, off)
           x == Step(Fetched(a), off)
<1>1. CASE Grown(va, tier, steps) = steps
  BY <1>1 DEF GoodRun
<1>2. CASE /\ steps # << >> /\ ~Ends(steps[n].inst, tier) /\ Takes(Fetched(a), tier)
           /\ Grown(va, tier, steps) = Append(steps, x)
  <2>1. steps \in Seq(StepType) /\ n \in Nat \ {0} /\ steps[n] \in StepType
    BY <1>2 DEF GoodRun
  <2>2. off \in Nat
    BY <2>1 DEF StepType, Inst
  <2>3. a \in Va
    <3>1. va \in Int /\ off \in Int
      BY <2>2, VaTypes
    <3> HIDE DEF off
    <3> QED BY <3>1, PlusTypes
  <2>4. x \in StepType /\ x.inst = Fetched(a) /\ x.offset = off
    BY <1>2, <2>2, <2>3, TakenTypes DEF Step, StepType
  <2> DEFINE new == Append(steps, x)
  <2>5. /\ new \in Seq(StepType) /\ Len(new) = n + 1 /\ new[n + 1] = x
        /\ \A k \in 1 .. n : new[k] = steps[k]
    BY <2>1, <2>4
  <2>6. off = steps[n].offset + steps[n].inst.ilen
    OBVIOUS
  <2> HIDE DEF new, x, a, off, n
  <2>7. ASSUME NEW k \in 1 .. Len(new) PROVE GoodStep(va, tier, new, k)
    <3>1. CASE k = n + 1
      <4>1. new[k] = x /\ k # 1 /\ ~(k < Len(new))
        BY <2>1, <2>5, <3>1
      <4> QED BY <1>2, <2>4, <4>1 DEF GoodStep, a
    <3>2. CASE k \in 1 .. n
      <4>1. new[k] = steps[k] /\ GoodStep(va, tier, steps, k)
        BY <2>5, <3>2 DEF GoodRun, n
      <4>2. CASE k < n
        <5>1. new[k + 1] = steps[k + 1]
          BY <2>1, <2>5, <3>2, <4>2
        <5> QED BY <4>1, <4>2, <5>1 DEF GoodStep, n
      <4>3. CASE k = n
        BY <1>2, <2>4, <2>5, <2>6, <4>1, <4>3 DEF GoodStep
      <4> QED BY <2>1, <3>2, <4>2, <4>3
    <3> QED BY <2>1, <2>5, <3>1, <3>2
  <2> QED BY <1>2, <2>1, <2>5, <2>7 DEF GoodRun, new, n
<1> QED BY <1>1, <1>2 DEF Grown

\* The recursion of Run is well defined.
Unrolled(va, tier, n, f) ==
  f = [i \in 1 .. n |-> IF i = 1 THEN Begun(va, tier) ELSE Grown(va, tier, f[i - 1])]

LEMMA ChainExists ==
  ASSUME NEW va, NEW tier
  PROVE  \A n \in Nat : \E f : Unrolled(va, tier, n, f)
<1> DEFINE D(f, n) == [i \in 1 .. n |-> IF i = 1 THEN Begun(va, tier) ELSE Grown(va, tier, f[i - 1])]
           S == {n \in Nat : \E f : f = D(f, n)}
<1>1. 0 \in S
  <2> DEFINE f == [i \in 1 .. 0 |-> Begun(va, tier)]
  <2>1. f = D(f, 0)
    OBVIOUS
  <2> QED BY <2>1
<1>2. ASSUME NEW n \in Nat, n \in S PROVE n + 1 \in S
  <2>1. PICK f : f = D(f, n)
    BY <1>2
  <2> DEFINE g == [i \in 1 .. n + 1 |->
                     IF i = n + 1 THEN (IF i = 1 THEN Begun(va, tier) ELSE Grown(va, tier, f[n])) ELSE f[i]]
  <2>2. ASSUME NEW i \in 1 .. n + 1
        PROVE  g[i] = IF i = 1 THEN Begun(va, tier) ELSE Grown(va, tier, g[i - 1])
    <3>1. CASE i = n + 1
      BY <3>1
    <3>2. CASE i \in 1 .. n
      <4>1. g[i] = f[i] /\ f[i] = IF i = 1 THEN Begun(va, tier) ELSE Grown(va, tier, f[i - 1])
        BY <2>1, <3>2
      <4>2. i # 1 => g[i - 1] = f[i - 1]
        BY <3>2
      <4> QED BY <4>1, <4>2
    <3> QED BY <3>1, <3>2
  <2>3. g = D(g, n + 1)
    BY <2>2
  <2>4. \E h : h = D(h, n + 1)
    <3> HIDE DEF g
    <3> QED BY <2>3
  <2> QED BY <2>4
<1>3. \A n \in Nat : n \in S
  <2> HIDE DEF S
  <2> QED BY <1>1, <1>2, NatSetInduction
<1> QED BY <1>3 DEF Unrolled

LEMMA RunGood ==
  ASSUME GuestTypes, NEW va \in Va, NEW tier
  PROVE  GoodRun(va, tier, Run(va, tier)) /\ Len(Run(va, tier)) <= Cap(tier)
<1> DEFINE M == Cap(tier)
           P(f) == f = [i \in 1 .. M |-> IF i = 1 THEN Begun(va, tier) ELSE Grown(va, tier, f[i - 1])]
           Chain == CHOOSE f : P(f)
<1>1. M \in Nat \ {0}
  BY Sizes DEF Cap
<1>2. \E f : P(f)
  <2>1. M \in Nat
    BY <1>1
  <2>2. \E f : Unrolled(va, tier, M, f)
    <3> HIDE DEF M
    <3> QED BY <2>1, ChainExists
  <2> QED BY <2>2 DEF Unrolled
<1>3. P(Chain)
  <2> HIDE DEF P
  <2> QED BY <1>2
<1>4. Run(va, tier) = Chain[M]
  BY DEF Run
<1> HIDE DEF Chain
<1>5. Chain[1] = Begun(va, tier) /\ \A i \in 2 .. M : Chain[i] = Grown(va, tier, Chain[i - 1])
  BY <1>1, <1>3
<1> DEFINE S == {n \in Nat : n + 1 <= M => /\ GoodRun(va, tier, Chain[n + 1])
                                           /\ Len(Chain[n + 1]) <= n + 1}
<1>6. 0 \in S
  BY <1>5, BegunGood
<1>7. ASSUME NEW n \in Nat, n \in S PROVE n + 1 \in S
  <2> SUFFICES ASSUME n + 2 <= M PROVE GoodRun(va, tier, Chain[n + 2]) /\ Len(Chain[n + 2]) <= n + 2
    OBVIOUS
  <2>1. GoodRun(va, tier, Chain[n + 1]) /\ Len(Chain[n + 1]) <= n + 1
    BY <1>1, <1>7
  <2>2. Chain[n + 2] = Grown(va, tier, Chain[n + 1])
    BY <1>1, <1>5
  <2>3. GoodRun(va, tier, Chain[n + 2]) /\ Len(Chain[n + 2]) <= Len(Chain[n + 1]) + 1
    BY <2>1, <2>2, GrownGood
  <2>4. Len(Chain[n + 2]) \in Nat /\ Len(Chain[n + 1]) \in Nat
    BY <2>1, <2>3 DEF GoodRun
  <2> QED BY <2>1, <2>3, <2>4
<1>8. M - 1 \in S
  <2>1. M - 1 \in Nat
    BY <1>1
  <2> HIDE DEF S, M
  <2> QED BY <1>6, <1>7, <2>1, NatSetInduction
<1>9. (M - 1) + 1 = M
  BY <1>1
<1> QED BY <1>1, <1>4, <1>8, <1>9
-------------------------------------------------------------------------------
(* The inductive invariant. *)

JitTypes ==
  /\ GuestTypes
  /\ m \in Machine
  /\ DOMAIN slots = 0 .. Slots - 1
  /\ DOMAIN blocks = 0 .. BSlots - 1

\* Instruction i is what a fetch finds at physical address pa, through some mapping.
Seen(pa, i) == \E va \in Va : Mapped(va) /\ xlate(va) = pa /\ i = Fetched(va) /\ i \in Inst
\* A chain decoded from physical address pa, through some mapping.
RunAt(pa, steps) ==
  \E va \in Va : /\ Mapped(va) /\ xlate(va) = pa
                 /\ GoodRun(va, "chain", steps) /\ Len(steps) <= MAX_CHAIN_LEN

\* The caches hold what was found at the address they are tagged with.
BlocksGood == \A i \in 0 .. BSlots - 1 : blocks[i].tag \in Pa => Seen(blocks[i].tag, blocks[i].inst)
SlotsGood == \A i \in 0 .. Slots - 1 : slots[i].tag \in Pa => RunAt(slots[i].tag, slots[i].steps)

\* The chain that runs is one of its entry's physical address, entered below the deadline and
\* as many instructions ago as it has retired; unless it has stored to the CLINT, no interrupt
\* is due before its last instruction.
NativeGood ==
  Running =>
    /\ native.entry \in Va /\ Mapped(native.entry)
    /\ RunAt(xlate(native.entry), native.steps)
    /\ native.at \in 1 .. Len(native.steps)
    /\ ~m.stopped
    /\ native.mtime < Deadline
    /\ m.retired = native.mtime + native.at - 1
    /\ Unpolled \/ /\ m.mtimecmp >= m.retired + (Len(native.steps) - native.at) + 1
                   /\ ~(m.ie /\ m.msip)

NativeShape == native \in [entry : Va, steps : Seq(StepType), at : Nat, mtime : Nat]

JitInv == JitTypes /\ BlocksGood /\ SlotsGood /\ NativeShape /\ NativeGood

\* The guest's memory and page table do not change, nor what is found there.
LEMMA GuestSame ==
  ASSUME UNCHANGED guest
  PROVE  /\ GuestTypes' = GuestTypes
         /\ \A va : Mapped(va)' = Mapped(va) /\ xlate(va)' = xlate(va) /\ Fetched(va)' = Fetched(va)
         /\ \A va, tier, steps : GoodRun(va, tier, steps)' = GoodRun(va, tier, steps)
<1>1. code' = code /\ pages' = pages
  BY DEF guest
<1>2. \A va : Mapped(va)' = Mapped(va) /\ xlate(va)' = xlate(va)
  BY <1>1 DEF Mapped, xlate
<1>3. \A va : Fetched(va)' = Fetched(va)
  BY <1>1, <1>2 DEF Fetched
<1>4. \A va, tier, steps : GoodRun(va, tier, steps)' = GoodRun(va, tier, steps)
  BY <1>3 DEF GoodRun, GoodStep
<1> QED BY <1>1, <1>2, <1>3, <1>4 DEF GuestTypes

LEMMA InstTypes ==
  ASSUME NEW i \in Inst
  PROVE  i.ilen \in {1, 2} /\ i.off \in Int /\ i.k \in Kinds
<1>1. i.ilen \in {1, 2} /\ i.off \in -VaSize .. VaSize /\ i.k \in Kinds
  BY DEF Inst
<1>2. VaSize \in Nat
  BY InterpAssumption
<1> QED BY <1>1, <1>2

LEMMA MachineTypes ==
  ASSUME NEW s \in Machine
  PROVE  /\ s.pc \in Va /\ s.epc \in Va /\ s.ie \in BOOLEAN /\ s.stopped \in BOOLEAN
         /\ s.reg \in Nat /\ s.retired \in Nat /\ s.mtimecmp \in Nat /\ s.msip \in BOOLEAN
BY DEF Machine

\* A machine with some fields replaced.
LEMMA MachineFields ==
  ASSUME NEW s \in Machine
  PROVE  /\ \A n \in Nat : [s EXCEPT !.reg = n] \in Machine
         /\ \A n \in Nat : [s EXCEPT !.mtimecmp = n] \in Machine
         /\ \A b \in BOOLEAN : [s EXCEPT !.ie = b] \in Machine
         /\ \A b \in BOOLEAN : [s EXCEPT !.msip = b] \in Machine
         /\ \A b \in BOOLEAN : [s EXCEPT !.stopped = b] \in Machine
         /\ \A pc \in Va, n \in Nat : [s EXCEPT !.pc = pc, !.retired = n] \in Machine
         /\ \A pc \in Va, epc \in Va : [s EXCEPT !.pc = pc, !.epc = epc, !.ie = FALSE] \in Machine
BY DEF Machine

LEMMA RetiredTypes ==
  ASSUME NEW s \in Machine, NEW pc \in Va
  PROVE  Retired(s, pc) \in Machine
<1>1. s.retired + 1 \in Nat
  BY MachineTypes
<1> QED BY <1>1, MachineFields DEF Retired

LEMMA TrappedTypes ==
  ASSUME NEW s \in Machine
  PROVE  Trapped(s) \in Machine
BY MachineTypes, MachineFields, Sizes DEF Trapped

LEMMA ClintTypes ==
  ASSUME NEW s \in Machine, NEW t \in ClintStores(s)
  PROVE  /\ t \in Machine /\ t.pc = s.pc /\ t.retired = s.retired /\ t.stopped = s.stopped
         /\ t.epc = s.epc /\ t.reg = s.reg /\ t.ie = s.ie
<1>1. Compares \subseteq Nat
  BY InterpAssumption
<1>2. CASE \E c \in Compares : t = [s EXCEPT !.mtimecmp = c]
  BY <1>1, <1>2 DEF Machine
<1>3. CASE \E b \in BOOLEAN : t = [s EXCEPT !.msip = b]
  BY <1>3 DEF Machine
<1> QED BY <1>2, <1>3 DEF ClintStores

LEMMA ExecTypes ==
  ASSUME NEW s \in Machine, NEW i \in Inst, NEW now \in Nat, NEW t \in Exec(s, i, now)
  PROVE  t \in Machine
<1> DEFINE next == Plus(s.pc, i.ilen)
           target == Plus(s.pc, i.off)
<1>1. next \in Va /\ target \in Va
  <2>1. s.pc \in Int
    BY MachineTypes, VaTypes
  <2>2. i.ilen \in Int /\ i.off \in Int
    BY InstTypes
  <2>3. i.ilen \in Int
    BY <2>2
  <2> QED BY <2>1, <2>2, <2>3, PlusTypes
<1>2. Va \subseteq Nat
  BY VaTypes
<1>3. (s.reg + i.off) % 2 \in Nat
  BY MachineTypes, InstTypes
<1>4. /\ [s EXCEPT !.reg = (@ + i.off) % 2] \in Machine
      /\ [s EXCEPT !.reg = now] \in Machine
      /\ [s EXCEPT !.reg = s.pc] \in Machine
      /\ [s EXCEPT !.reg = next] \in Machine
  BY <1>1, <1>2, <1>3, MachineTypes, MachineFields
<1>5. /\ [s EXCEPT !.stopped = TRUE] \in Machine
      /\ [s EXCEPT !.ie = ~@] \in Machine
      /\ [s EXCEPT !.ie = TRUE] \in Machine
      /\ s.epc \in Va
  BY <1>2, MachineTypes, MachineFields
<1> HIDE DEF next, target
<1>6. CASE i.k \in {"alu", "auipc", "mtime", "jal", "csr", "mret", "tohost"}
  BY <1>1, <1>4, <1>5, <1>6, RetiredTypes DEF Exec, next, target
<1>7. CASE i.k \in {"load", "store", "decoy", "branch", "hole"}
  BY <1>1, <1>7, RetiredTypes, TrappedTypes DEF Exec, next, target
<1>8. CASE i.k \in {"clint", "alias"}
  BY <1>1, <1>8, ClintTypes, RetiredTypes DEF Exec, next, target
<1> QED BY <1>6, <1>7, <1>8 DEF Inst, Kinds

LEMMA JitInitInv == JitInit => JitInv
<1> SUFFICES ASSUME JitInit PROVE JitInv
  OBVIOUS
<1>1. GuestTypes
  BY InterpAssumption DEF JitInit, Init, GuestTypes
<1>2. 0 \in Va
  BY Sizes DEF Va
<1>3. m \in Machine
  BY <1>2 DEF JitInit, Init, Machine
<1>4. SlotsGood /\ DOMAIN slots = 0 .. Slots - 1
  BY DEF JitInit, SlotsGood, None, Pa
<1>5. BlocksGood /\ DOMAIN blocks = 0 .. BSlots - 1
  BY DEF JitInit, BlocksGood, NoInsn, Pa
<1>6. NativeShape /\ native.at = 0
  BY <1>2 DEF JitInit, Idle, NativeShape
<1> QED BY <1>1, <1>3, <1>4, <1>5, <1>6 DEF JitInv, JitTypes, NativeGood, Running

\* Where a running chain stands: its next instruction is the one the interpreter would
\* fetch, at the address the interpreter would be at, unless it crosses the page's end.
LEMMA Standing ==
  ASSUME JitInv, Running
  PROVE  /\ native.steps \in Seq(StepType) /\ native.at \in 1 .. Len(native.steps)
         /\ Cur \in StepType /\ Cur.inst \in Inst /\ Cur.offset \in Nat
         /\ CurPc \in Va /\ AfterCur \in Va
         /\ Cur.inst # Fetched(CurPc) => CrossesPage
         /\ Arch = [m EXCEPT !.pc = CurPc] /\ Doing = Cur.inst /\ Clock = native.mtime
<1> DEFINE e == native.entry
           off == Cur.offset
<1>1. e \in Va /\ Mapped(e) /\ RunAt(xlate(e), native.steps) /\ native.at \in 1 .. Len(native.steps)
  BY DEF JitInv, NativeGood
<1>2. PICK va \in Va : Mapped(va) /\ xlate(va) = xlate(e) /\ GoodRun(va, "chain", native.steps)
  BY <1>1 DEF RunAt
<1>3. native.steps \in Seq(StepType) /\ Cur \in StepType
  BY <1>1, <1>2 DEF GoodRun, Cur
<1>4. Cur.inst \in Inst /\ off \in Nat
  BY <1>3 DEF StepType
<1>5. Cur.inst = Fetched(Plus(va, off))
  BY <1>1, <1>2 DEF GoodRun, GoodStep, Cur
<1>6. CurPc \in Va
  <2>1. e \in Int /\ off \in Int
    BY <1>1, <1>4, VaTypes
  <2> QED BY <2>1, PlusTypes DEF CurPc
<1>7. AfterCur \in Va
  <2>1. CurPc \in Int /\ Cur.inst.ilen \in Int
    BY <1>4, <1>6, VaTypes, InstTypes
  <2> QED BY <2>1, PlusTypes DEF AfterCur
<1>8. Cur.inst # Fetched(CurPc) => CrossesPage
  <2> SUFFICES ASSUME ~CrossesPage PROVE Cur.inst = Fetched(CurPc)
    OBVIOUS
  <2>1. ~((e % PageSize) + off + Cur.inst.ilen > PageSize)
    BY DEF CrossesPage, Start, Offset, Doing
  <2>2. (e % PageSize) + off + Cur.inst.ilen <= PageSize
    <3>1. e % PageSize \in Nat /\ Cur.inst.ilen \in Nat /\ PageSize \in Nat
      BY <1>1, <1>4, VaTypes, InstTypes, Sizes
    <3> QED BY <1>4, <2>1, <3>1
  <2>3. GuestTypes
    BY DEF JitInv, JitTypes
  <2> HIDE DEF e, off
  <2>4. Fetched(Plus(va, off)) = Fetched(Plus(e, off))
    BY <1>1, <1>2, <1>4, <1>5, <2>2, <2>3, SameFetch
  <2> QED BY <1>5, <2>4 DEF CurPc, e, off
<1> QED BY <1>1, <1>3, <1>4, <1>6, <1>7, <1>8 DEF Arch, Doing, Clock

\* The next instruction of a chain follows the current one, which is no terminal.
LEMMA Following ==
  ASSUME JitInv, Running, ~IsLast
  PROVE  /\ ~is_terminal(Cur.inst)
         /\ native.at + 1 \in 1 .. Len(native.steps)
         /\ Plus(native.entry, native.steps[native.at + 1].offset) = AfterCur
<1> DEFINE e == native.entry
           off == Cur.offset
           n == Cur.inst.ilen
<1>1. /\ e \in Va /\ RunAt(xlate(e), native.steps)
      /\ native.at \in 1 .. Len(native.steps) /\ Len(native.steps) \in Nat
  BY Standing DEF JitInv, NativeGood
<1>2. native.at < Len(native.steps)
  BY <1>1 DEF IsLast
<1>3. ~is_terminal(Cur.inst) /\ native.steps[native.at + 1].offset = off + n
  BY <1>1, <1>2 DEF RunAt, GoodRun, GoodStep, Ends, Cur
<1>4. e \in Int /\ off \in Int /\ n \in Int /\ VaSize \in Nat \ {0}
  <2>1. Cur.inst \in Inst /\ Cur.offset \in Nat
    BY Standing
  <2>2. n \in {1, 2}
    BY <2>1, InstTypes
  <2> QED BY <1>1, <2>1, <2>2, VaTypes, Sizes
<1> HIDE DEF e, off, n
<1>5. (((e + off) % VaSize) + n) % VaSize = ((e + off) + n) % VaSize
  <2> DEFINE a == e + off
  <2>1. a \in Int
    BY <1>4
  <2> HIDE DEF a
  <2>2. ((a % VaSize) + n) % VaSize = (a + n) % VaSize
    BY <1>4, <2>1, ModPlus
  <2> QED BY <2>2 DEF a
<1>6. (e + off) + n = e + (off + n)
  BY <1>4
<1>7. AfterCur = (((e + off) % VaSize) + n) % VaSize
  BY DEF AfterCur, CurPc, Plus, e, off, n
<1>8. Plus(e, off + n) = AfterCur
  BY <1>5, <1>6, <1>7 DEF Plus
<1> QED BY <1>1, <1>2, <1>3, <1>8 DEF e
-------------------------------------------------------------------------------
(* Steps inside a chain.  Each is a known step from where the chain stands, *)
(* and keeps the chain standing.                                            *)

\* The interpreter's machine just before and after an instruction that falls through.
LEMMA ArchTypes ==
  ASSUME JitInv, Running
  PROVE  /\ m \in Machine /\ Arch \in Machine
         /\ Arch.pc = CurPc /\ Arch.reg = m.reg /\ Arch.retired = m.retired /\ ~Arch.stopped
         /\ Plus(Arch.pc, Cur.inst.ilen) = AfterCur
         /\ Due(Arch) => Unpolled
         /\ Clock # Arch.retired => Lagging
         /\ Arch.retired >= Deadline => Overrun
         /\ native.mtime \in Nat
<1>1. m \in Machine
  BY DEF JitInv, JitTypes
<1>2. /\ Arch = [m EXCEPT !.pc = CurPc] /\ CurPc \in Va /\ Clock = native.mtime
      /\ native.at \in 1 .. Len(native.steps) /\ native.steps \in Seq(StepType)
  BY Standing
<1>3. /\ Arch \in Machine /\ Arch.pc = CurPc /\ Arch.reg = m.reg /\ Arch.stopped = m.stopped
      /\ Arch.retired = m.retired /\ Arch.mtimecmp = m.mtimecmp /\ Arch.ie = m.ie
      /\ Arch.msip = m.msip
  BY <1>1, <1>2 DEF Machine
<1>4. m.retired \in Nat /\ m.mtimecmp \in Nat
  BY <1>1, MachineTypes
<1>5. /\ ~m.stopped /\ native.mtime < Deadline /\ m.retired = native.mtime + native.at - 1
      /\ Unpolled \/ /\ m.mtimecmp >= m.retired + (Len(native.steps) - native.at) + 1
                     /\ ~(m.ie /\ m.msip)
      /\ Len(native.steps) <= MAX_CHAIN_LEN
  BY DEF JitInv, NativeGood, RunAt
<1>6. native.mtime \in Nat /\ native.at \in Nat /\ Len(native.steps) \in Nat
  BY <1>2 DEF JitInv, NativeShape
<1>7. Due(Arch) => Unpolled
  <2>1. m.mtimecmp >= m.retired + (Len(native.steps) - native.at) + 1 => ~(m.retired >= m.mtimecmp)
    BY <1>2, <1>4, <1>6
  <2> QED BY <1>3, <1>5, <2>1 DEF Due
<1>8. Clock # Arch.retired => Lagging
  <2>1. m.retired # native.mtime => native.at > 1
    BY <1>2, <1>5, <1>6
  <2>2. m.retired < native.mtime + MAX_CHAIN_LEN
    <3>1. MAX_CHAIN_LEN \in Nat /\ native.at <= Len(native.steps)
      BY <1>2, <1>6, Sizes
    <3> QED BY <1>5, <1>6, <3>1
  <2> QED BY <1>2, <1>3, <2>1, <2>2 DEF Lagging
<1>9. Arch.retired >= Deadline => Overrun
  <2> SUFFICES ASSUME m.retired >= Deadline PROVE Lagging /\ Clock < Deadline
    BY <1>3 DEF Overrun
  <2>1. native.mtime # m.retired
    BY <1>4, <1>5, <1>6, Sizes
  <2> QED BY <1>2, <1>3, <1>5, <1>8, <2>1
<1> QED BY <1>1, <1>2, <1>3, <1>5, <1>6, <1>7, <1>8, <1>9 DEF AfterCur

\* A chain that goes on to its next instruction, and either left the interrupts alone or
\* has executed a store to the CLINT.
LEMMA GoesOn ==
  ASSUME JitInv, Running, ~IsLast, native' = [native EXCEPT !.at = @ + 1], UNCHANGED guest,
         m' \in Machine, m'.retired = m.retired + 1, m'.stopped = m.stopped,
         \/ m'.mtimecmp = m.mtimecmp /\ m'.ie = m.ie /\ m'.msip = m.msip
         \/ Cur.inst.k = "alias"
  PROVE  /\ Running' /\ NativeShape' /\ NativeGood'
         /\ Arch' = [m' EXCEPT !.pc = AfterCur]
<1>1. /\ native \in [entry : Va, steps : Seq(StepType), at : Nat, mtime : Nat]
      /\ Mapped(native.entry) /\ RunAt(xlate(native.entry), native.steps) /\ ~m.stopped
      /\ native.at \in 1 .. Len(native.steps)
      /\ native.mtime < Deadline /\ m.retired = native.mtime + native.at - 1
      /\ Unpolled \/ /\ m.mtimecmp >= m.retired + (Len(native.steps) - native.at) + 1
                     /\ ~(m.ie /\ m.msip)
  BY DEF JitInv, NativeShape, NativeGood
<1>2. /\ native'.entry = native.entry /\ native'.steps = native.steps /\ native'.mtime = native.mtime
      /\ native'.at = native.at + 1 /\ NativeShape'
  BY <1>1 DEF NativeShape
<1>3. /\ native.at + 1 \in 1 .. Len(native.steps)
      /\ Plus(native.entry, native.steps[native.at + 1].offset) = AfterCur
  BY Following
<1>4. Running'
  BY <1>1, <1>2 DEF Running
<1>5. /\ Mapped(native.entry)' /\ RunAt(xlate(native.entry), native.steps)'
  <2>1. Mapped(native.entry)' = Mapped(native.entry)
    <3>1. code' = code /\ pages' = pages
      BY DEF guest
    <3> QED BY <1>2, <3>1 DEF Mapped
  <2>2. RunAt(xlate(native.entry), native.steps)' = RunAt(xlate(native.entry), native.steps)
    <3> DEFINE pa == xlate(native.entry)
    <3>1. pa' = pa
      BY <1>2 DEF guest, xlate
    <3>2. \A va : Mapped(va)' = Mapped(va) /\ xlate(va)' = xlate(va)
      BY GuestSame
    <3>3. \A va : Fetched(va)' = Fetched(va)
      BY GuestSame
    <3>4. \A va, tier : GoodRun(va, tier, native.steps)' = GoodRun(va, tier, native.steps)
      BY <1>2, <3>3 DEF GoodRun, GoodStep
    <3> HIDE DEF pa
    <3>5. RunAt(pa, native.steps)' = RunAt(pa, native.steps)
      BY <1>2, <3>1, <3>2, <3>4 DEF RunAt
    <3> QED BY <3>5 DEF pa
  <2> QED BY <1>1, <2>1, <2>2
<1>6. /\ m.retired \in Nat /\ m.mtimecmp \in Nat /\ Len(native.steps) \in Nat
      /\ native.at \in Nat /\ native.mtime \in Nat
  BY <1>1, MachineTypes DEF JitInv, JitTypes
<1>7. m'.retired = native.mtime + (native.at + 1) - 1
  BY <1>1, <1>6
<1>8. \/ Unpolled'
      \/ /\ m'.mtimecmp >= m'.retired + (Len(native.steps) - (native.at + 1)) + 1
         /\ ~(m'.ie /\ m'.msip)
  <2>1. CASE Cur.inst.k = "alias"
    <3>1. native.at \in 1 .. (native.at + 1) - 1
      BY <1>1, <1>6
    <3>2. native.steps[native.at].inst.k = "alias"
      BY <2>1 DEF Cur
    <3> QED BY <1>2, <1>4, <3>1, <3>2 DEF Unpolled
  <2>2. CASE Unpolled
    <3>1. 1 .. native.at - 1 \subseteq 1 .. (native.at + 1) - 1
      BY <1>6
    <3> QED BY <1>2, <1>4, <2>2, <3>1 DEF Unpolled
  <2>3. CASE /\ m'.mtimecmp = m.mtimecmp /\ m'.ie = m.ie /\ m'.msip = m.msip
             /\ m.mtimecmp >= m.retired + (Len(native.steps) - native.at) + 1
             /\ ~(m.ie /\ m.msip)
    <3>1. m'.mtimecmp >= m'.retired + (Len(native.steps) - (native.at + 1)) + 1
      <4> DEFINE r == m.retired
                 l == Len(native.steps)
                 n == native.at
      <4>1. r \in Nat /\ l \in Nat /\ n \in Nat /\ m.mtimecmp \in Nat
        BY <1>6
      <4>2. m'.retired = r + 1 /\ m'.mtimecmp = m.mtimecmp /\ m.mtimecmp >= r + (l - n) + 1
        BY <2>3
      <4> HIDE DEF r, l, n
      <4>3. r + (l - n) + 1 = (r + 1) + (l - (n + 1)) + 1
        BY <4>1
      <4> QED BY <4>1, <4>2, <4>3 DEF l, n
    <3>2. ~(m'.ie /\ m'.msip)
      BY <2>3
    <3> QED BY <3>1, <3>2
  <2> QED BY <1>1, <2>1, <2>2, <2>3
<1>9. NativeGood'
  BY <1>1, <1>2, <1>3, <1>5, <1>7, <1>8 DEF NativeGood
<1>10. Arch' = [m' EXCEPT !.pc = AfterCur]
  BY <1>2, <1>3, <1>4 DEF Arch, CurPc, Cur
<1> QED BY <1>2, <1>4, <1>9, <1>10

\* A chain that ends.
LEMMA Stops ==
  ASSUME native' = Idle
  PROVE  ~Running' /\ NativeShape' /\ NativeGood' /\ Arch' = m'
<1>1. 0 \in Va
  BY Sizes DEF Va
<1>2. Idle \in [entry : Va, steps : Seq(StepType), at : Nat, mtime : Nat] /\ Idle.at = 0
  BY <1>1 DEF Idle
<1> QED BY <1>2 DEF NativeShape, NativeGood, Running, Arch

Native == NativeLink \/ UnseenStore \/ NativeTrap \/ NativeRepoll \/ NativeHalt \/ NativeTerminal

NativeOutcome ==
  /\ Arch' \in Exec(Arch, Cur.inst, native.mtime)
  /\ m' \in Machine /\ NativeShape' /\ NativeGood'

\* An instruction that leaves the hart as r, but for pc and the count, and does not redirect.
LEMMA Advances ==
  ASSUME JitInv, NativeStep, Advance, NEW r \in Machine, m' = Bumped(r),
         r.retired = m.retired, r.stopped = m.stopped,
         \/ r.mtimecmp = m.mtimecmp /\ r.ie = m.ie /\ r.msip = m.msip
         \/ Cur.inst.k = "alias"
  PROVE  /\ m' \in Machine /\ NativeShape' /\ NativeGood'
         /\ Arch' = [r EXCEPT !.pc = AfterCur, !.retired = m.retired + 1]
<1>1. Running /\ UNCHANGED guest
  BY DEF NativeStep
<1>2. m \in Machine /\ AfterCur \in Va
  BY <1>1, ArchTypes, Standing
<1>3. m.retired + 1 \in Nat
  BY <1>2, MachineTypes
<1>4. CASE IsLast
  <2>1. native' = Idle
    BY <1>4 DEF Advance
  <2>2. m' = [r EXCEPT !.pc = AfterCur, !.retired = m.retired + 1]
    BY <1>4 DEF Bumped, Machine
  <2>3. m' \in Machine
    BY <1>2, <1>3, <2>2 DEF Machine
  <2> QED BY <2>1, <2>2, <2>3, Stops
<1>5. CASE ~IsLast
  <2>1. native' = [native EXCEPT !.at = @ + 1]
    BY <1>5 DEF Advance
  <2>2. m' = [r EXCEPT !.retired = m.retired + 1]
    BY <1>5 DEF Bumped, Machine
  <2>3. /\ m' \in Machine /\ m'.retired = m.retired + 1 /\ m'.mtimecmp = r.mtimecmp
        /\ m'.stopped = m.stopped /\ m'.ie = r.ie /\ m'.msip = r.msip
    BY <1>3, <2>2 DEF Machine
  <2>4. \/ m'.mtimecmp = m.mtimecmp /\ m'.ie = m.ie /\ m'.msip = m.msip
        \/ Cur.inst.k = "alias"
    BY <2>3
  <2>5. NativeShape' /\ NativeGood' /\ Arch' = [m' EXCEPT !.pc = AfterCur]
    BY <1>1, <1>5, <2>1, <2>3, <2>4, GoesOn
  <2>6. [m' EXCEPT !.pc = AfterCur] = [r EXCEPT !.pc = AfterCur, !.retired = m.retired + 1]
    BY <2>2 DEF Machine
  <2> QED BY <2>3, <2>5, <2>6
<1> QED BY <1>4, <1>5

LEMMA LinkStep ==
  ASSUME JitInv, NativeLink
  PROVE  NativeOutcome
<1> DEFINE i == Cur.inst
           v == CASE i.k = "alu" -> (m.reg + i.off) % 2
                  [] i.k = "auipc" -> Auipc
                  [] i.k = "mtime" -> native.mtime
                  [] OTHER -> m.reg
           r == [m EXCEPT !.reg = v]
<1>1. NativeStep /\ Running /\ Advance /\ i.k \in {"alu", "auipc", "load", "mtime", "store"}
  BY DEF NativeLink, NativeStep
<1>2. /\ m \in Machine /\ Arch \in Machine /\ Arch.pc = CurPc /\ Arch.reg = m.reg
      /\ Plus(Arch.pc, i.ilen) = AfterCur
      /\ Arch = [m EXCEPT !.pc = CurPc] /\ CurPc \in Va /\ AfterCur \in Va /\ i \in Inst
      /\ native.mtime \in Nat
  BY <1>1, ArchTypes, Standing
<1>3. v \in Nat
  <2>1. m.reg \in Nat /\ i.off \in Int /\ CurPc \in Nat
    BY <1>2, MachineTypes, InstTypes, VaTypes
  <2>2. (m.reg + i.off) % 2 \in Nat
    BY <2>1
  <2> QED BY <1>1, <1>2, <2>1, <2>2 DEF Auipc
<1>4. m' = Bumped(r)
  BY DEF NativeLink
<1>5. Retired([Arch EXCEPT !.reg = v], AfterCur) \in Exec(Arch, i, native.mtime)
  <2>1. CASE i.k = "alu"
    BY <1>2, <2>1 DEF Exec
  <2>2. CASE i.k = "auipc"
    BY <1>2, <2>2 DEF Exec, Auipc
  <2>3. CASE i.k = "mtime"
    BY <1>2, <2>3 DEF Exec
  <2>4. CASE i.k \in {"load", "store"}
    <3>1. [Arch EXCEPT !.reg = v] = Arch
      BY <1>2, <2>4 DEF Machine
    <3> QED BY <1>2, <2>4, <3>1 DEF Exec
  <2> QED BY <1>1, <2>1, <2>2, <2>3, <2>4
<1> HIDE DEF v
<1>6. Retired([Arch EXCEPT !.reg = v], AfterCur) = [r EXCEPT !.pc = AfterCur, !.retired = m.retired + 1]
  BY <1>2 DEF Retired, Machine
<1>7. /\ r \in Machine /\ r.retired = m.retired /\ r.stopped = m.stopped
      /\ r.mtimecmp = m.mtimecmp /\ r.ie = m.ie /\ r.msip = m.msip
  BY <1>2, <1>3 DEF Machine
<1> HIDE DEF r
<1>8. /\ m' \in Machine /\ NativeShape' /\ NativeGood'
      /\ Arch' = [r EXCEPT !.pc = AfterCur, !.retired = m.retired + 1]
  BY <1>1, <1>4, <1>7, Advances
<1> QED BY <1>5, <1>6, <1>8 DEF NativeOutcome

\* Stores to the CLINT do not touch pc and the count, nor depend on them.
LEMMA ClintArch ==
  ASSUME JitInv, Running, NEW s \in ClintStores(m)
  PROVE  \E t \in ClintStores(Arch) :
           Retired(t, AfterCur) = [s EXCEPT !.pc = AfterCur, !.retired = m.retired + 1]
<1>1. m \in Machine /\ Arch = [m EXCEPT !.pc = CurPc]
  BY ArchTypes, Standing
<1>2. CASE \E c \in Compares : s = [m EXCEPT !.mtimecmp = c]
  <2>1. PICK c \in Compares : s = [m EXCEPT !.mtimecmp = c]
    BY <1>2
  <2>2. [Arch EXCEPT !.mtimecmp = c] \in ClintStores(Arch)
    BY DEF ClintStores
  <2>3. Retired([Arch EXCEPT !.mtimecmp = c], AfterCur)
          = [s EXCEPT !.pc = AfterCur, !.retired = m.retired + 1]
    BY <1>1, <2>1 DEF Retired, Machine
  <2> QED BY <2>2, <2>3
<1>3. CASE \E b \in BOOLEAN : s = [m EXCEPT !.msip = b]
  <2>1. PICK b \in BOOLEAN : s = [m EXCEPT !.msip = b]
    BY <1>3
  <2>2. [Arch EXCEPT !.msip = b] \in ClintStores(Arch)
    BY DEF ClintStores
  <2>3. Retired([Arch EXCEPT !.msip = b], AfterCur)
          = [s EXCEPT !.pc = AfterCur, !.retired = m.retired + 1]
    BY <1>1, <2>1 DEF Retired, Machine
  <2> QED BY <2>2, <2>3
<1> QED BY <1>2, <1>3 DEF ClintStores

LEMMA UnseenStep ==
  ASSUME JitInv, UnseenStore
  PROVE  NativeOutcome
<1>1. NativeStep /\ Running /\ Advance /\ Cur.inst.k = "alias"
  BY DEF UnseenStore, NativeStep
<1>2. PICK s \in ClintStores(m) : m' = Bumped(s)
  BY DEF UnseenStore
<1>3. m \in Machine /\ Plus(Arch.pc, Cur.inst.ilen) = AfterCur
  BY <1>1, ArchTypes
<1>4. s \in Machine /\ s.retired = m.retired /\ s.stopped = m.stopped
  BY <1>3, ClintTypes
<1>5. /\ m' \in Machine /\ NativeShape' /\ NativeGood'
      /\ Arch' = [s EXCEPT !.pc = AfterCur, !.retired = m.retired + 1]
  BY <1>1, <1>2, <1>4, Advances
<1>6. PICK t \in ClintStores(Arch) : Retired(t, AfterCur) = Arch'
  BY <1>1, <1>5, ClintArch
<1>7. Arch' \in Exec(Arch, Cur.inst, native.mtime)
  BY <1>1, <1>3, <1>6 DEF Exec
<1> QED BY <1>5, <1>7 DEF NativeOutcome

LEMMA TrapStep ==
  ASSUME JitInv, NativeTrap
  PROVE  NativeOutcome
<1>1. Running /\ native' = Idle /\ Cur.inst.k \in {"load", "store", "decoy"}
  BY DEF NativeTrap, NativeStep, Leave
<1>2. Arch = [m EXCEPT !.pc = CurPc] /\ Arch \in Machine
  BY <1>1, ArchTypes, Standing
<1>3. m' = Trapped(Arch)
  BY <1>2 DEF NativeTrap
<1>4. Trapped(Arch) \in Exec(Arch, Cur.inst, native.mtime)
  BY <1>1 DEF Exec
<1>5. m' \in Machine
  BY <1>2, <1>3, TrappedTypes
<1> QED BY <1>1, <1>3, <1>4, <1>5, Stops DEF NativeOutcome

LEMMA RepollStep ==
  ASSUME JitInv, NativeRepoll
  PROVE  NativeOutcome
<1>1. Running /\ native' = Idle
  BY DEF NativeRepoll, NativeStep, Leave
<1>2. /\ m \in Machine /\ Arch \in Machine /\ Plus(Arch.pc, Cur.inst.ilen) = AfterCur
      /\ Arch = [m EXCEPT !.pc = CurPc] /\ Cur.inst \in Inst /\ native.mtime \in Nat
  BY <1>1, ArchTypes, Standing
<1>3. m' \in Exec(Arch, Cur.inst, native.mtime)
  <2>1. CASE Cur.inst.k = "clint" /\ \E s \in ClintStores(m) : m' = Committed(s)
    <3>1. PICK s \in ClintStores(m) : m' = Committed(s)
      BY <2>1
    <3>2. s \in Machine /\ s.retired = m.retired
      BY <1>2, ClintTypes
    <3>3. m' = [s EXCEPT !.pc = AfterCur, !.retired = m.retired + 1]
      BY <3>1, <3>2 DEF Committed, Machine
    <3>4. PICK t \in ClintStores(Arch) : Retired(t, AfterCur) = m'
      BY <1>1, <3>3, ClintArch
    <3> QED BY <1>2, <2>1, <3>4 DEF Exec
  <2>2. CASE Cur.inst.k = "decoy" /\ m' = Committed(m)
    <3>1. m' = Retired(Arch, AfterCur)
      BY <1>2, <2>2 DEF Committed, Retired, Machine
    <3> QED BY <1>2, <2>2, <3>1 DEF Exec
  <2> QED BY <2>1, <2>2 DEF NativeRepoll
<1>4. m' \in Machine
  BY <1>2, <1>3, ExecTypes
<1> QED BY <1>1, <1>3, <1>4, Stops DEF NativeOutcome

LEMMA HaltStep ==
  ASSUME JitInv, NativeHalt
  PROVE  NativeOutcome
<1>1. Running /\ native' = Idle /\ Cur.inst.k = "tohost"
  BY DEF NativeHalt, NativeStep, Leave
<1>2. /\ m \in Machine /\ Arch \in Machine /\ Plus(Arch.pc, Cur.inst.ilen) = AfterCur
      /\ Arch = [m EXCEPT !.pc = CurPc] /\ Cur.inst \in Inst /\ native.mtime \in Nat
  BY <1>1, ArchTypes, Standing
<1>3. m' = Retired([Arch EXCEPT !.stopped = TRUE], AfterCur)
  BY <1>2 DEF NativeHalt, Committed, Retired, Machine
<1>4. m' \in Exec(Arch, Cur.inst, native.mtime)
  BY <1>1, <1>2, <1>3 DEF Exec
<1>5. m' \in Machine
  BY <1>2, <1>4, ExecTypes
<1> QED BY <1>1, <1>4, <1>5, Stops DEF NativeOutcome

LEMMA TerminalStep ==
  ASSUME JitInv, NativeTerminal
  PROVE  NativeOutcome
<1>1. Running /\ native' = Idle /\ Cur.inst.k \in {"branch", "jal"}
  BY DEF NativeTerminal, NativeStep, Leave, is_terminal
<1>2. /\ m \in Machine /\ Arch \in Machine /\ Plus(Arch.pc, Cur.inst.ilen) = AfterCur
      /\ Arch = [m EXCEPT !.pc = CurPc] /\ Arch.pc = CurPc
      /\ Cur.inst \in Inst /\ native.mtime \in Nat
  BY <1>1, ArchTypes, Standing
<1>3. PICK pc \in {Plus(CurPc, Cur.inst.off)} \cup (IF Cur.inst.k = "branch" THEN {AfterCur} ELSE {}) :
        m' = [m EXCEPT !.retired = @ + 1, !.pc = pc,
                       !.reg = IF Cur.inst.k = "jal" THEN AfterCur ELSE @]
  BY DEF NativeTerminal
<1>4. m' \in Exec(Arch, Cur.inst, native.mtime)
  <2>1. CASE Cur.inst.k = "jal"
    <3>1. pc = Plus(Arch.pc, Cur.inst.off)
      BY <1>2, <1>3, <2>1
    <3>2. m' = Retired([Arch EXCEPT !.reg = AfterCur], pc)
      BY <1>2, <1>3, <2>1 DEF Retired, Machine
    <3> QED BY <1>2, <2>1, <3>1, <3>2 DEF Exec
  <2>2. CASE Cur.inst.k = "branch"
    <3>1. m' = Retired(Arch, pc)
      BY <1>2, <1>3, <2>2 DEF Retired, Machine
    <3>2. pc = Plus(Arch.pc, Cur.inst.off) \/ pc = Plus(Arch.pc, Cur.inst.ilen)
      BY <1>2, <1>3
    <3> QED BY <2>2, <3>1, <3>2 DEF Exec
  <2> QED BY <1>1, <2>1, <2>2
<1>5. m' \in Machine
  BY <1>2, <1>4, ExecTypes
<1> QED BY <1>1, <1>4, <1>5, Stops DEF NativeOutcome

LEMMA NativeSteps ==
  ASSUME JitInv, Native
  PROVE  /\ Running /\ UNCHANGED guest /\ slots' = slots /\ blocks' = blocks
         /\ NativeOutcome
<1>1. Running /\ UNCHANGED guest /\ slots' = slots /\ blocks' = blocks
  BY DEF Native, NativeLink, UnseenStore, NativeTrap, NativeRepoll, NativeHalt, NativeTerminal,
    NativeStep, caches
<1>2. NativeOutcome
  BY LinkStep, UnseenStep, TrapStep, RepollStep, HaltStep, TerminalStep DEF Native
<1> QED BY <1>1, <1>2

-------------------------------------------------------------------------------
(* The driver's steps. *)

LEMMA LastExists ==
  ASSUME NEW n \in Nat, NEW K \in SUBSET (1 .. n), K # {}
  PROVE  \E k \in K : \A j \in K : j <= k
<1> DEFINE S == {l \in Nat : \A J \in SUBSET (1 .. l) : J # {} => \E k \in J : \A j \in J : j <= k}
<1>1. 0 \in S
  <2>1. \A J \in SUBSET (1 .. 0) : J = {}
    OBVIOUS
  <2> QED BY <2>1
<1>2. ASSUME NEW l \in Nat, l \in S PROVE l + 1 \in S
  <2> SUFFICES ASSUME NEW J \in SUBSET (1 .. l + 1), J # {} PROVE \E k \in J : \A j \in J : j <= k
    OBVIOUS
  <2>1. CASE l + 1 \in J
    <3>1. \A j \in J : j <= l + 1
      OBVIOUS
    <3> QED BY <2>1, <3>1
  <2>2. CASE l + 1 \notin J
    <3>1. J \in SUBSET (1 .. l)
      BY <2>2
    <3> QED BY <1>2, <3>1
  <2> QED BY <2>1, <2>2
<1>3. n \in S
  <2> HIDE DEF S
  <2> QED BY <1>1, <1>2, NatSetInduction
<1> QED BY <1>3

\* compile_run enters only what it has found at each address.
LEMMA CompileGood ==
  ASSUME JitInv, NEW va \in Va
  PROVE  /\ DOMAIN compile_run(va) = 0 .. BSlots - 1
         /\ \A i \in 0 .. BSlots - 1 :
              LET b == compile_run(va)[i] IN b.tag \in Pa => Seen(b.tag, b.inst)
<1> DEFINE steps == Run(va, "block")
           pa(k) == xlate(Plus(va, steps[k].offset))
           into(i) == {k \in DOMAIN steps : bslot(pa(k)) = i}
           last(i) == CHOOSE k \in into(i) : \A j \in into(i) : j <= k
           b(i) == compile_run(va)[i]
<1>1. GuestTypes /\ BlocksGood
  BY DEF JitInv, JitTypes
<1>2. GoodRun(va, "block", steps)
  BY <1>1, RunGood
<1>3. Len(steps) \in Nat /\ DOMAIN steps = 1 .. Len(steps) /\ steps \in Seq(StepType)
  BY <1>2 DEF GoodRun
<1>4. DOMAIN compile_run(va) = 0 .. BSlots - 1
  BY DEF compile_run
<1>5. ASSUME NEW i \in 0 .. BSlots - 1, b(i).tag \in Pa
      PROVE  Seen(b(i).tag, b(i).inst)
  <2>1. b(i) = IF into(i) = {} THEN blocks[i] ELSE [tag |-> pa(last(i)), inst |-> steps[last(i)].inst]
    BY DEF compile_run
  <2>2. CASE into(i) = {}
    BY <1>1, <1>5, <2>1, <2>2 DEF BlocksGood
  <2>3. CASE into(i) # {}
    <3> DEFINE l == last(i)
               K == into(i)
    <3>1. K \in SUBSET (1 .. Len(steps))
      BY <1>3
    <3>2. l \in 1 .. Len(steps)
      <4>1. l = CHOOSE k \in K : \A j \in K : j <= k
        OBVIOUS
      <4> HIDE DEF K, l
      <4>2. \E k \in K : \A j \in K : j <= k
        BY <1>3, <2>3, <3>1, LastExists DEF K
      <4>3. l \in K
        BY <4>1, <4>2
      <4> QED BY <3>1, <4>3
    <3>3. b(i).tag = pa(l) /\ b(i).inst = steps[l].inst
      BY <2>1, <2>3
    <3> HIDE DEF l, steps
    <3> DEFINE a == Plus(va, steps[l].offset)
    <3>4. steps[l] \in StepType /\ GoodStep(va, "block", steps, l)
      BY <1>2, <1>3, <3>2 DEF GoodRun
    <3>5. a \in Va
      <4>1. va \in Int /\ steps[l].offset \in Int
        BY <3>4, VaTypes DEF StepType
      <4> QED BY <4>1, PlusTypes
    <3>6. steps[l].inst = Fetched(a) /\ Takes(Fetched(a), "block")
      BY <3>4 DEF GoodStep
    <3>7. Fetched(a) \in Inst /\ Mapped(a)
      BY <1>1, <3>5, <3>6, TakenTypes
    <3>8. pa(l) = xlate(a)
      OBVIOUS
    <3> HIDE DEF a
    <3>9. Seen(xlate(a), Fetched(a))
      BY <3>5, <3>7 DEF Seen
    <3> QED BY <3>3, <3>6, <3>8, <3>9
  <2> QED BY <2>2, <2>3
<1> HIDE DEF b
<1> QED BY <1>4, <1>5 DEF b

LEMMA FetchStep ==
  ASSUME JitInv, NEW va \in Va, fetch(va), UNCHANGED guest
  PROVE  BlocksGood' /\ DOMAIN blocks' = 0 .. BSlots - 1
<1>1. BlocksGood /\ DOMAIN blocks = 0 .. BSlots - 1
  BY DEF JitInv, JitTypes
<1>2. \A a : Mapped(a)' = Mapped(a) /\ xlate(a)' = xlate(a) /\ Fetched(a)' = Fetched(a)
  BY GuestSame
<1>3. /\ DOMAIN blocks' = 0 .. BSlots - 1
      /\ \A i \in 0 .. BSlots - 1 : blocks'[i].tag \in Pa => Seen(blocks'[i].tag, blocks'[i].inst)
  <2>1. CASE blocks' = blocks
    BY <1>1, <2>1 DEF BlocksGood
  <2>2. CASE blocks' = compile_run(va)
    BY <2>2, CompileGood
  <2> QED BY <2>1, <2>2 DEF fetch
<1> QED BY <1>2, <1>3 DEF BlocksGood, Seen

\* What the block cache answers is what the interpreter would fetch, unless it crosses the
\* page's end.
LEMMA BlockAnswer ==
  ASSUME JitInv, NEW va \in Va
  PROVE  /\ BlockFetched(va) \in Inst \/ BlockFetched(va) = FetchFault
         /\ BlockFetched(va) # Fetched(va) => (va % PageSize) + 0 + BlockFetched(va).ilen > PageSize
<1> DEFINE i == BlockFetched(va)
           c == blocks[bslot(xlate(va))]
<1>1. GuestTypes /\ BlocksGood
  BY DEF JitInv, JitTypes
<1>2. CASE i = Fetched(va)
  BY <1>1, <1>2, FetchTypes
<1>3. CASE i # Fetched(va)
  <2>1. Mapped(va) /\ c.tag = xlate(va) /\ i = c.inst
    BY <1>3 DEF BlockFetched, Hit
  <2>2. xlate(va) \in Pa
    BY <1>1, <2>1, Translated
  <2>3. bslot(xlate(va)) \in 0 .. BSlots - 1
    BY <2>2, Sizes DEF bslot, Pa
  <2>4. PICK vb \in Va : Mapped(vb) /\ xlate(vb) = xlate(va) /\ i = Fetched(vb) /\ i \in Inst
    BY <1>1, <2>1, <2>2, <2>3 DEF BlocksGood, Seen
  <2>5. Plus(vb, 0) = vb /\ Plus(va, 0) = va
    BY PlusZero
  <2>6. va % PageSize \in Nat /\ i.ilen \in Nat /\ PageSize \in Nat
    BY <2>4, VaTypes, InstTypes, Sizes
  <2> HIDE DEF i
  <2>7. ~((va % PageSize) + 0 + i.ilen <= PageSize)
    <3> SUFFICES ASSUME (va % PageSize) + 0 + i.ilen <= PageSize PROVE FALSE
      OBVIOUS
    <3>1. Fetched(Plus(vb, 0)) = Fetched(Plus(va, 0))
      BY <1>1, <2>1, <2>4, <2>5, SameFetch
    <3> QED BY <1>3, <2>4, <2>5, <3>1
  <2>8. (va % PageSize) + 0 + i.ilen > PageSize
    BY <2>6, <2>7
  <2> QED BY <2>4, <2>8 DEF i
<1> QED BY <1>2, <1>3

\* What lookup_or_compile returns is a chain of the address asked for.
LEMMA LookedGood ==
  ASSUME JitInv, NEW va \in Va, Mapped(va)
  PROVE  /\ Looked(va).tag = xlate(va) /\ RunAt(xlate(va), Looked(va).steps)
         /\ slot(xlate(va)) \in 0 .. Slots - 1
<1> DEFINE pa == xlate(va)
<1>1. GuestTypes /\ SlotsGood
  BY DEF JitInv, JitTypes
<1>2. pa \in Pa
  BY <1>1, Translated
<1>3. slot(pa) \in 0 .. Slots - 1
  BY <1>2, Sizes DEF slot, Pa
<1>4. CASE slots[slot(pa)].tag = pa
  BY <1>1, <1>2, <1>3, <1>4 DEF SlotsGood, Looked
<1>5. CASE slots[slot(pa)].tag # pa
  <2>1. GoodRun(va, "chain", decode_chain(va)) /\ Len(decode_chain(va)) <= MAX_CHAIN_LEN
    BY <1>1, RunGood DEF decode_chain, Cap
  <2>2. GoodRun(va, "chain", << >>) /\ Len(<< >>) <= MAX_CHAIN_LEN
    BY Sizes DEF GoodRun
  <2>3. RunAt(pa, decode_chain(va)) /\ RunAt(pa, << >>)
    BY <2>1, <2>2 DEF RunAt
  <2> QED BY <1>3, <1>5, <2>3 DEF Looked
<1> QED BY <1>4, <1>5

LEMMA CachesKept ==
  ASSUME JitInv, UNCHANGED guest
  PROVE  /\ GuestTypes'
         /\ slots' = slots => SlotsGood' /\ DOMAIN slots' = 0 .. Slots - 1
         /\ blocks' = blocks => BlocksGood' /\ DOMAIN blocks' = 0 .. BSlots - 1
<1>1. GuestTypes /\ SlotsGood /\ BlocksGood /\ DOMAIN slots = 0 .. Slots - 1 /\ DOMAIN blocks = 0 .. BSlots - 1
  BY DEF JitInv, JitTypes
<1>2. GuestTypes' = GuestTypes
  BY GuestSame
<1>3. \A a : Mapped(a)' = Mapped(a) /\ xlate(a)' = xlate(a) /\ Fetched(a)' = Fetched(a)
  BY GuestSame
<1>4. \A va, tier, steps : GoodRun(va, tier, steps)' = GoodRun(va, tier, steps)
  BY GuestSame
<1>5. ASSUME slots' = slots PROVE SlotsGood'
  <2>1. ASSUME NEW i \in 0 .. Slots - 1, slots[i].tag \in Pa
        PROVE  \E va \in Va : /\ Mapped(va)' /\ xlate(va)' = slots[i].tag
                              /\ GoodRun(va, "chain", slots[i].steps)' /\ Len(slots[i].steps) <= MAX_CHAIN_LEN
    <3>1. PICK va \in Va : /\ Mapped(va) /\ xlate(va) = slots[i].tag
                           /\ GoodRun(va, "chain", slots[i].steps) /\ Len(slots[i].steps) <= MAX_CHAIN_LEN
      BY <1>1, <2>1 DEF SlotsGood, RunAt
    <3>2. GoodRun(va, "chain", slots[i].steps)'
      BY <1>3, <1>5, <3>1 DEF GoodRun, GoodStep
    <3> QED BY <1>3, <3>1, <3>2
  <2> QED BY <1>5, <2>1 DEF SlotsGood, RunAt
<1>6. ASSUME blocks' = blocks PROVE BlocksGood'
  BY <1>1, <1>3, <1>6 DEF BlocksGood, Seen
<1> QED BY <1>1, <1>2, <1>5, <1>6

\* A hart that stays out of the chains, executing what the block cache answers.
LEMMA ServedStep ==
  ASSUME JitInv, ~Running, ~m.stopped, m.retired < Deadline, ~Due(m),
         m' \in Exec(m, BlockFetched(m.pc), m.retired), native' = native, UNCHANGED guest
  PROVE  KnownStep /\ m' \in Machine /\ NativeShape' /\ NativeGood'
<1> DEFINE i == BlockFetched(m.pc)
<1>1. m \in Machine /\ m.pc \in Va /\ m.retired \in Nat
  BY MachineTypes DEF JitInv, JitTypes
<1>2. /\ i \in Inst \/ i = FetchFault
      /\ i # Fetched(m.pc) => (m.pc % PageSize) + 0 + i.ilen > PageSize
  BY <1>1, BlockAnswer
<1>3. m' \in Machine
  <2>1. CASE i \in Inst
    BY <1>1, <2>1, ExecTypes
  <2>2. CASE i = FetchFault
    BY <1>1, <2>2, TrappedTypes DEF Exec, FetchFault
  <2> QED BY <1>2, <2>1, <2>2
<1>4. NativeShape' /\ NativeGood' /\ ~Running'
  BY DEF JitInv, NativeShape, NativeGood, Running
<1>5. Arch = m /\ Arch' = m' /\ Doing = i /\ Clock = m.retired /\ Start = m.pc /\ Offset = 0
  BY <1>4 DEF Arch, Doing, Clock, Start, Offset
<1>6. i # Fetched(m.pc) => CrossesPage
  BY <1>2, <1>5 DEF CrossesPage
<1>7. ~(m.retired >= Deadline)
  BY <1>1, Sizes
<1> HIDE DEF i
<1>8. KnownStep
  BY <1>5, <1>6, <1>7 DEF KnownStep, i
<1> QED BY <1>3, <1>4, <1>8

\* An interrupt or a fetch fault taken by the driver.
LEMMA TrappedStep ==
  ASSUME JitInv, ~Running, m' = Trapped(m), native' = native, slots' = slots, blocks' = blocks,
         UNCHANGED guest
  PROVE  JitInv' /\ Arch = m /\ Arch' = Trapped(m)
<1>1. m' \in Machine
  BY TrappedTypes DEF JitInv, JitTypes
<1>2. ~Running' /\ NativeShape' /\ NativeGood'
  BY DEF JitInv, NativeShape, NativeGood, Running
<1> QED BY <1>1, <1>2, CachesKept DEF JitInv, JitTypes, Arch

LEMMA LookupStep ==
  ASSUME JitInv, Lookup
  PROVE  SlotsGood' /\ DOMAIN slots' = 0 .. Slots - 1
<1> DEFINE pa == xlate(m.pc)
           found == Looked(m.pc)
<1>1. m \in Machine /\ DOMAIN slots = 0 .. Slots - 1 /\ SlotsGood
  BY DEF JitInv, JitTypes
<1>2. UNCHANGED guest /\ Mapped(m.pc) /\ m.pc \in Va
  BY <1>1, MachineTypes DEF Lookup, Driver
<1>3. found.tag = pa /\ RunAt(pa, found.steps) /\ slot(pa) \in 0 .. Slots - 1
  BY <1>2, LookedGood
<1>4. slots' = [slots EXCEPT ![slot(pa)] = found]
  BY DEF Lookup, lookup_or_compile
<1> HIDE DEF found, pa
<1>5. \A i \in 0 .. Slots - 1 : slots'[i] = found \/ slots'[i] = slots[i]
  BY <1>1, <1>4
<1>6. \A i \in 0 .. Slots - 1 : slots'[i].tag \in Pa => RunAt(slots'[i].tag, slots'[i].steps)
  BY <1>1, <1>3, <1>5 DEF SlotsGood
<1>7. \A a : Mapped(a)' = Mapped(a) /\ xlate(a)' = xlate(a) /\ Fetched(a)' = Fetched(a)
  BY <1>2, GuestSame
<1>8. ASSUME NEW i \in 0 .. Slots - 1, slots'[i].tag \in Pa
      PROVE  RunAt(slots[i].tag, slots[i].steps)'
  <2>1. PICK va \in Va : /\ Mapped(va) /\ xlate(va) = slots'[i].tag
                         /\ GoodRun(va, "chain", slots'[i].steps) /\ Len(slots'[i].steps) <= MAX_CHAIN_LEN
    BY <1>6, <1>8 DEF RunAt
  <2>2. GoodRun(va, "chain", slots[i].steps)'
    BY <1>7, <2>1 DEF GoodRun, GoodStep
  <2> QED BY <1>7, <2>1, <2>2 DEF RunAt
<1> QED BY <1>1, <1>4, <1>8 DEF SlotsGood

LEMMA EnterStep ==
  ASSUME JitInv, EnterChain
  PROVE  JitInv' /\ Arch' = Arch
<1> DEFINE found == Looked(m.pc)
<1>1. m \in Machine /\ m.pc \in Va /\ m.retired \in Nat /\ m.mtimecmp \in Nat
  BY MachineTypes DEF JitInv, JitTypes
<1>2. /\ Lookup /\ ~Running /\ ~m.stopped /\ ~Due(m) /\ m.retired < Deadline
      /\ UNCHANGED guest /\ Mapped(m.pc) /\ m' = m /\ blocks' = blocks
      /\ native' = [entry |-> m.pc, steps |-> found.steps, at |-> 1, mtime |-> m.retired]
      /\ Admitted(found.steps)
  BY DEF EnterChain, Lookup, Driver
<1>3. RunAt(xlate(m.pc), found.steps)
  BY <1>1, <1>2, LookedGood
<1> HIDE DEF found
<1>4. found.steps # << >> /\ m.mtimecmp >= m.retired + Len(found.steps)
  BY <1>2 DEF Admitted
<1>5. PICK va \in Va : /\ Mapped(va) /\ xlate(va) = xlate(m.pc)
                       /\ GoodRun(va, "chain", found.steps) /\ Len(found.steps) <= MAX_CHAIN_LEN
  BY <1>3 DEF RunAt
<1>6. /\ found.steps \in Seq(StepType) /\ Len(found.steps) \in Nat \ {0}
      /\ found.steps[1].offset = 0
  <2>1. found.steps \in Seq(StepType) /\ Len(found.steps) \in Nat \ {0}
    BY <1>4, <1>5 DEF GoodRun
  <2>2. GoodStep(va, "chain", found.steps, 1)
    BY <1>5, <2>1 DEF GoodRun
  <2> QED BY <2>1, <2>2 DEF GoodStep
<1>7. /\ native'.entry = m.pc /\ native'.steps = found.steps /\ native'.at = 1
      /\ native'.mtime = m.retired /\ NativeShape' /\ Running'
  BY <1>1, <1>2, <1>6 DEF NativeShape, Running
<1>8. \A a : Mapped(a)' = Mapped(a) /\ xlate(a)' = xlate(a) /\ Fetched(a)' = Fetched(a)
  BY <1>2, GuestSame
<1>9. Mapped(native.entry)' /\ RunAt(xlate(native.entry), native.steps)'
  <2>1. Mapped(native.entry)' /\ xlate(native.entry)' = xlate(m.pc)
    BY <1>2, <1>7 DEF guest, Mapped, xlate
  <2>2. GoodRun(va, "chain", native.steps)'
    BY <1>5, <1>7, <1>8 DEF GoodRun, GoodStep
  <2> QED BY <1>5, <1>7, <1>8, <2>1, <2>2 DEF RunAt
<1>10. NativeGood'
  <2>1. m.retired = m.retired + 1 - 1 /\ 1 \in 1 .. Len(found.steps)
    BY <1>1, <1>6
  <2>2. m.mtimecmp >= m.retired + (Len(found.steps) - 1) + 1
    BY <1>1, <1>4, <1>6
  <2>3. ~(m.ie /\ m.msip)
    BY <1>2 DEF Due
  <2> QED BY <1>1, <1>2, <1>7, <1>9, <2>1, <2>2, <2>3 DEF NativeGood
<1>11. Arch' = Arch
  <2>1. CurPc' = Plus(m.pc, 0)
    BY <1>6, <1>7 DEF CurPc, Cur
  <2>2. Arch' = [m EXCEPT !.pc = m.pc]
    BY <1>1, <1>2, <1>7, <2>1, PlusZero DEF Arch
  <2> QED BY <1>1, <1>2, <2>2 DEF Arch, Machine
<1> QED BY <1>1, <1>2, <1>7, <1>10, <1>11, CachesKept, LookupStep DEF JitInv, JitTypes
-------------------------------------------------------------------------------
(* The theorems. *)

\* Every step of the JIT keeps the invariant and is an interrupt or fetch fault of the
\* interpreter, a known step, or none.
LEMMA JitStep ==
  ASSUME JitInv, JitNext
  PROVE  /\ JitInv' /\ UNCHANGED guest
         /\ \/ Arch' = Arch
            \/ KnownStep
            \/ /\ ~Arch.stopped /\ Arch.retired < Deadline
               /\ Arch' \in IF Due(Arch) THEN {Trapped(Arch)} ELSE Exec(Arch, Fetched(Arch.pc), Arch.retired)
<1>0. m.pc \in Va
  BY MachineTypes DEF JitInv, JitTypes
<1>1. CASE GatedStep
  <2>1. /\ ~Running /\ ~m.stopped /\ m.retired < Deadline /\ UNCHANGED guest
        /\ slots' = slots /\ native' = native
    BY <1>1 DEF GatedStep, Driver
  <2>2. CASE Due(m)
    <3>1. m' = Trapped(m) /\ blocks' = blocks
      BY <1>1, <2>2 DEF GatedStep
    <3>2. JitInv' /\ Arch = m /\ Arch' = Trapped(m)
      BY <2>1, <3>1, TrappedStep
    <3> QED BY <2>1, <2>2, <3>2
  <2>3. CASE ~Due(m)
    <3>1. m' \in Exec(m, BlockFetched(m.pc), m.retired) /\ fetch(m.pc)
      BY <1>1, <2>3 DEF GatedStep
    <3>2. KnownStep /\ m' \in Machine /\ NativeShape' /\ NativeGood'
      BY <2>1, <2>3, <3>1, ServedStep
    <3>3. BlocksGood' /\ DOMAIN blocks' = 0 .. BSlots - 1
      BY <1>0, <2>1, <3>1, FetchStep
    <3> QED BY <2>1, <3>2, <3>3, CachesKept DEF JitInv, JitTypes
  <2> QED BY <2>2, <2>3
<1>2. CASE PollInterrupt
  <2>1. /\ ~Running /\ ~m.stopped /\ m.retired < Deadline /\ UNCHANGED guest /\ Due(m)
        /\ m' = Trapped(m) /\ slots' = slots /\ blocks' = blocks /\ native' = native
    BY <1>2 DEF PollInterrupt, Driver, caches
  <2>2. JitInv' /\ Arch = m /\ Arch' = Trapped(m)
    BY <2>1, TrappedStep
  <2> QED BY <2>1, <2>2
<1>3. CASE PcFault
  <2>1. /\ ~Running /\ ~m.stopped /\ m.retired < Deadline /\ UNCHANGED guest /\ ~Due(m)
        /\ m' = Trapped(m) /\ slots' = slots /\ blocks' = blocks /\ native' = native
        /\ ~Mapped(m.pc)
    BY <1>3 DEF PcFault, Driver, caches
  <2>2. JitInv' /\ Arch = m /\ Arch' = Trapped(m)
    BY <2>1, TrappedStep
  <2>3. Fetched(m.pc) = FetchFault
    BY <2>1 DEF Fetched
  <2>4. Trapped(m) \in Exec(m, Fetched(m.pc), m.retired)
    BY <2>3 DEF Exec, FetchFault
  <2> QED BY <2>1, <2>2, <2>4
<1>4. CASE EnterChain
  BY <1>4, EnterStep DEF EnterChain, Lookup, Driver
<1>5. CASE SingleStep
  <2>1. /\ Lookup /\ ~Running /\ ~m.stopped /\ m.retired < Deadline /\ UNCHANGED guest /\ ~Due(m)
        /\ fetch(m.pc) /\ m' \in Exec(m, BlockFetched(m.pc), m.retired) /\ native' = native
    BY <1>5 DEF SingleStep, Lookup, Driver
  <2>2. KnownStep /\ m' \in Machine /\ NativeShape' /\ NativeGood'
    BY <2>1, ServedStep
  <2>3. BlocksGood' /\ DOMAIN blocks' = 0 .. BSlots - 1
    BY <1>0, <2>1, FetchStep
  <2>4. SlotsGood' /\ DOMAIN slots' = 0 .. Slots - 1
    BY <2>1, LookupStep
  <2> QED BY <2>1, <2>2, <2>3, <2>4, CachesKept DEF JitInv, JitTypes
<1>6. CASE Native
  <2>1. /\ Running /\ UNCHANGED guest /\ slots' = slots /\ blocks' = blocks
        /\ Arch' \in Exec(Arch, Cur.inst, native.mtime)
        /\ m' \in Machine /\ NativeShape' /\ NativeGood'
    BY <1>6, NativeSteps DEF NativeOutcome
  <2>2. /\ Arch.pc = CurPc /\ ~Arch.stopped /\ Doing = Cur.inst /\ Clock = native.mtime
        /\ Cur.inst # Fetched(CurPc) => CrossesPage
        /\ Due(Arch) => Unpolled
        /\ Clock # Arch.retired => Lagging
        /\ Arch.retired >= Deadline => Overrun
    BY <2>1, ArchTypes, Standing
  <2>3. KnownStep
    BY <2>1, <2>2 DEF KnownStep
  <2> QED BY <2>1, <2>3, CachesKept DEF JitInv, JitTypes
<1> QED BY <1>1, <1>2, <1>3, <1>4, <1>5, <1>6 DEF JitNext, Native

LEMMA JitNextInv == JitInv /\ [JitNext]_vars => JitInv'
<1> SUFFICES ASSUME JitInv, [JitNext]_vars PROVE JitInv'
  OBVIOUS
<1>1. CASE JitNext
  BY <1>1, JitStep
<1>2. CASE UNCHANGED vars
  <2>1. UNCHANGED guest /\ m' = m /\ native' = native /\ slots' = slots /\ blocks' = blocks
    BY <1>2 DEF vars, jitVars, caches
  <2>2. NativeGood'
    <3>1. CASE ~Running
      BY <2>1, <3>1 DEF NativeGood, Running
    <3>2. CASE Running
      <4>1. \A a : Mapped(a)' = Mapped(a) /\ xlate(a)' = xlate(a) /\ Fetched(a)' = Fetched(a)
        BY <2>1, GuestSame
      <4>2. Mapped(native.entry)' = Mapped(native.entry) /\ xlate(native.entry)' = xlate(native.entry)
        BY <2>1 DEF guest, Mapped, xlate
      <4>3. RunAt(xlate(native.entry), native.steps)'
        <5>1. PICK va \in Va : /\ Mapped(va) /\ xlate(va) = xlate(native.entry)
                               /\ GoodRun(va, "chain", native.steps) /\ Len(native.steps) <= MAX_CHAIN_LEN
          BY <3>2 DEF JitInv, NativeGood, RunAt
        <5>2. GoodRun(va, "chain", native.steps)'
          BY <2>1, <4>1, <5>1 DEF GoodRun, GoodStep
        <5> QED BY <2>1, <4>1, <4>2, <5>1, <5>2 DEF RunAt
      <4> QED BY <2>1, <3>2, <4>2, <4>3 DEF JitInv, NativeGood, Running, Unpolled
    <3> QED BY <3>1, <3>2
  <2> QED BY <2>1, <2>2, CachesKept DEF JitInv, JitTypes, NativeShape
<1> QED BY <1>1, <1>2

LEMMA AlwaysJitInv == JitSpec => []JitInv
BY JitInitInv, JitNextInv, PTL DEF JitSpec

LEMMA JitInitRefines == JitInit => Interpreter!Init
<1> SUFFICES ASSUME JitInit PROVE Interpreter!Init
  OBVIOUS
<1>1. Arch = m
  BY DEF JitInit, Idle, Arch, Running
<1> QED BY <1>1 DEF JitInit, Init, Interpreter!Init

LEMMA JitNextRefines ==
  JitInv /\ [JitNext]_vars => [Interpreter!Next \/ KnownStep]_<<guest, Arch>>
<1> SUFFICES ASSUME JitInv, [JitNext]_vars PROVE [Interpreter!Next \/ KnownStep]_<<guest, Arch>>
  OBVIOUS
<1>1. /\ \A s : Interpreter!Due(s) = Due(s)
      /\ \A s : Interpreter!Trapped(s) = Trapped(s)
      /\ \A s, i, now : Interpreter!Exec(s, i, now) = Exec(s, i, now)
  BY DEF Interpreter!Due, Due, Interpreter!Trapped, Trapped, Interpreter!Exec, Exec,
    Interpreter!Retired, Retired, Interpreter!Plus, Plus, Interpreter!ClintStores, ClintStores
<1>2. /\ \A va : Interpreter!Fetched(va) = Fetched(va)
      /\ Interpreter!guest = guest
  <2>1. /\ \A va : Interpreter!xlate(va) = xlate(va)
        /\ \A va : Interpreter!Mapped(va) = Mapped(va)
        /\ \A va, n : Interpreter!Plus(va, n) = Plus(va, n)
        /\ Interpreter!FetchFault = FetchFault
        /\ Interpreter!guest = guest
    BY DEF Interpreter!xlate, xlate, Interpreter!Mapped, Mapped, Interpreter!PageOf, PageOf,
      Interpreter!Unmapped, Unmapped, Interpreter!Plus, Plus, Interpreter!FetchFault, FetchFault,
      Interpreter!guest, guest
  <2> QED BY <2>1 DEF Interpreter!Fetched, Fetched
<1>3. CASE JitNext
  BY <1>1, <1>2, <1>3, JitStep DEF Interpreter!Next, Interpreter!guest, guest
<1>4. CASE UNCHANGED vars
  BY <1>4 DEF vars, jitVars, Arch, Running, CurPc, Cur
<1> QED BY <1>3, <1>4

\* --jit-chain implements the interpreter but for the four known differences: for every guest
\* and page table, every arena and table size, every chain and run length, every page size and
\* deadline, each instruction retired natively or from the block cache, each fault and each
\* interrupt is the interpreter's own step at that point, or differs from it by the other half
\* of an instruction that crosses its page's end, by a clock or deadline no older than the
\* chain, or by an interrupt that a store to the CLINT outside its window made due.
THEOREM JitRefinesInterpreter == JitSpec => RefinesButKnown
<1>1. JitSpec => []JitInv
  BY AlwaysJitInv
<1>2. JitInit => Interpreter!Init
  BY JitInitRefines
<1>3. JitInv /\ [JitNext]_vars => [Interpreter!Next \/ KnownStep]_<<guest, Arch>>
  BY JitNextRefines
<1> QED BY <1>1, <1>2, <1>3, PTL DEF JitSpec, RefinesButKnown
-------------------------------------------------------------------------------
(* Edge coverage. *)

\* An edge the two bitmaps may differ on at any time.
Known(e) == e[2] = Vector \/ e[2] \in {Plus(e[1], 1), Plus(e[1], 2)}

Difference == (edges \ iedges) \cup (iedges \ edges)

\* The last edge of a chain that overran the deadline: the run is over.
Late(e) == ~Running /\ m.retired > Deadline /\ e[2] = m.pc

EdgesKnown == \A e \in Difference : Known(e) \/ Late(e)

\* What run_case would have recorded.
Recorded(from, to) == IF m.retired < Deadline THEN InterpEdge(from, to) ELSE {}

\* Reporting keeps the difference known when what it reports differs by known edges only.
LEMMA ReportKnown ==
  ASSUME \A e \in Difference : Known(e), NEW E, NEW from, NEW to, Report(E, from, to),
         \A e \in (E \ Recorded(from, to)) \cup (Recorded(from, to) \ E) : Known(e) \/ Late(e)'
  PROVE  EdgesKnown'
<1>1. edges' = edges \cup E /\ iedges' = iedges \cup Recorded(from, to)
  BY DEF Report, Recorded
<1>2. \A e \in (edges' \ iedges') \cup (iedges' \ edges') : Known(e) \/ Late(e)'
  BY <1>1 DEF Difference
<1> QED BY <1>2 DEF EdgesKnown, Difference, Known, Late

LEMMA EdgesKnownStep ==
  ASSUME JitInv, EdgesKnown, JitNext
  PROVE  EdgesKnown'
<1>1. m \in Machine /\ m.retired \in Nat /\ m.pc \in Va /\ Deadline \in Nat
  BY MachineTypes, Sizes DEF JitInv, JitTypes
<1>2. Running \/ m.retired < Deadline
  BY DEF JitNext, GatedStep, PollInterrupt, PcFault, EnterChain, SingleStep, Lookup, Driver,
    NativeLink, UnseenStore, NativeTrap, NativeRepoll, NativeHalt, NativeTerminal, NativeStep
<1>3. \A e \in Difference : Known(e)
  BY <1>1, <1>2 DEF EdgesKnown, Late
<1>4. \A from : \A e \in {<<from, Vector>>} : Known(e)
  BY DEF Known
<1>5. \A from : \A e \in Recorded(from, Vector) : Known(e)
  BY <1>4 DEF InterpEdge, Recorded
<1>6. CASE GatedStep
  <2>1. Report(InterpEdge(m.pc, m'.pc), m.pc, m'.pc) /\ m.retired < Deadline
    BY <1>6 DEF GatedStep, Driver
  <2>2. Recorded(m.pc, m'.pc) = InterpEdge(m.pc, m'.pc)
    BY <2>1 DEF Recorded
  <2> DEFINE E == Recorded(m.pc, m'.pc)
  <2>3. Report(E, m.pc, m'.pc)
    BY <2>1, <2>2
  <2>4. \A e \in (E \ E) \cup (E \ E) : Known(e) \/ Late(e)'
    OBVIOUS
  <2> QED BY <1>3, <2>3, <2>4, ReportKnown
<1>7. CASE PollInterrupt \/ PcFault
  <2>1. Report({<<m.pc, Vector>>}, m.pc, Vector)
    BY <1>7 DEF PollInterrupt, PcFault
  <2> QED BY <1>3, <1>4, <1>5, <2>1, ReportKnown
<1>8. CASE EnterChain
  <2>1. edges' = edges /\ iedges' = iedges
    BY <1>8 DEF EnterChain
  <2> QED BY <1>3, <2>1 DEF EdgesKnown, Difference, Known
<1>9. CASE SingleStep
  <2> DEFINE i == BlockFetched(m.pc)
             E == edge_if_not_fallthrough_by(m.pc, m'.pc, i.ilen)
             F == Recorded(m.pc, m'.pc)
  <2>1. Report(E, m.pc, m'.pc) /\ m.retired < Deadline /\ m' \in Exec(m, i, m.retired)
    BY <1>9 DEF SingleStep, Lookup, Driver
  <2>2. F = InterpEdge(m.pc, m'.pc)
    BY <2>1 DEF Recorded
  <2>3. \A e \in (E \ F) \cup (F \ E) : Known(e)
    <3>1. CASE i \in Inst
      <4>1. i.ilen \in {1, 2}
        BY <3>1, InstTypes
      <4> QED BY <2>2, <4>1 DEF edge_if_not_fallthrough_by, InterpEdge, Known
    <3>2. CASE i = FetchFault
      <4>1. Exec(m, i, m.retired) = {Trapped(m)}
        BY <3>2 DEF Exec, FetchFault
      <4>2. m'.pc = Vector
        BY <1>1, <2>1, <4>1 DEF Trapped, Machine
      <4> QED BY <2>2, <4>2 DEF edge_if_not_fallthrough_by, InterpEdge, Known
    <3> QED BY <1>1, <3>1, <3>2, BlockAnswer
  <2> HIDE DEF E, i
  <2> QED BY <1>3, <2>1, <2>3, ReportKnown
<1>10. CASE Native
  <2>1. Running
    BY <1>10, NativeSteps
  <2>2. Cur.inst.ilen \in {1, 2}
    BY <2>1, Standing, InstTypes
  <2>3. Recorded(CurPc, AfterCur) = {}
    BY <2>2 DEF InterpEdge, AfterCur, Recorded
  <2>4. CASE NativeLink \/ UnseenStore \/ NativeRepoll \/ NativeHalt
    <3>1. Report({}, CurPc, AfterCur)
      BY <2>4 DEF NativeLink, UnseenStore, NativeRepoll, RepollEdge, NativeHalt
    <3> DEFINE E == Recorded(CurPc, AfterCur)
    <3>2. Report(E, CurPc, AfterCur)
      BY <2>3, <3>1
    <3>3. \A e \in (E \ E) \cup (E \ E) : Known(e) \/ Late(e)'
      OBVIOUS
    <3> QED BY <1>3, <3>2, <3>3, ReportKnown
  <2>5. CASE NativeTrap
    <3>1. Report({<<native.entry, Vector>>}, CurPc, Vector)
      BY <2>5 DEF NativeTrap
    <3> QED BY <1>3, <1>4, <1>5, <3>1, ReportKnown
  <2>6. CASE NativeTerminal
    <3>1. PICK pc : /\ Report(edge_if_not_fallthrough_by(CurPc, pc, Cur.inst.ilen), CurPc, pc)
                    /\ m' = [m EXCEPT !.retired = @ + 1, !.pc = pc,
                                      !.reg = IF Cur.inst.k = "jal" THEN AfterCur ELSE @]
      BY <2>6 DEF NativeTerminal
    <3> DEFINE E == edge_if_not_fallthrough_by(CurPc, pc, Cur.inst.ilen)
               F == Recorded(CurPc, pc)
    <3>2. CASE m.retired < Deadline
      <4>1. \A e \in (E \ F) \cup (F \ E) : Known(e)
        BY <2>2, <3>2 DEF edge_if_not_fallthrough_by, InterpEdge, Known, Recorded
      <4> HIDE DEF E
      <4> QED BY <1>3, <3>1, <4>1, ReportKnown DEF E
    <3>3. CASE ~(m.retired < Deadline)
      <4>1. m'.pc = pc /\ m'.retired = m.retired + 1 /\ ~Running'
        BY <1>1, <2>6, <3>1, Stops DEF Machine, NativeTerminal, Leave
      <4>2. m'.retired > Deadline
        BY <1>1, <3>3, <4>1
      <4>3. F = {} /\ \A e \in E : e[2] = pc
        BY <3>3 DEF edge_if_not_fallthrough_by, Recorded
      <4>4. \A e \in (E \ F) \cup (F \ E) : Late(e)'
        BY <4>1, <4>2, <4>3 DEF Late
      <4> HIDE DEF E
      <4> QED BY <1>3, <3>1, <4>4, ReportKnown DEF E
    <3> QED BY <3>2, <3>3
  <2> QED BY <1>10, <2>4, <2>5, <2>6 DEF Native
<1> QED BY <1>6, <1>7, <1>8, <1>9, <1>10 DEF JitNext, Native

\* The chain JIT's coverage differs from run_case's only in the target of a trap, which it
\* attributes to the chain's entry, in hops as long as the other instruction size, and in the
\* last edge of a chain that overran the deadline: whatever the code and its mappings, no
\* other edge is lost or invented, on any exit from a chain.
THEOREM JitEdgeParity == JitSpec => []EdgeParityButKnown
<1>1. JitInit => EdgesKnown
  BY DEF JitInit, EdgesKnown, Difference
<1>2. JitInv /\ EdgesKnown /\ [JitNext]_vars => EdgesKnown'
  <2>1. ASSUME JitInv, EdgesKnown, UNCHANGED vars PROVE EdgesKnown'
    BY <2>1 DEF vars, jitVars, EdgesKnown, Difference, Known, Late, Running
  <2> QED BY <2>1, EdgesKnownStep
<1>3. EdgesKnown => EdgeParityButKnown
  BY DEF EdgesKnown, Difference, EdgeParityButKnown, Known, Late
<1> QED BY <1>1, <1>2, <1>3, AlwaysJitInv, PTL DEF JitSpec
===============================================================================
