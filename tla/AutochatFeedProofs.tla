------------------------- MODULE AutochatFeedProofs -------------------------
(***************************************************************************)
(* Proofs about AutochatFeed, for any number of sessions, groups, messages *)
(* and faults: what is pushed is in one place of its way or lost to a      *)
(* fault, each group sees it in order and once, and a notice that is       *)
(* reported again is not pushed again.                                     *)
(***************************************************************************)
EXTENDS AutochatFeed, SequenceTheorems, FiniteSetTheorems, WellFoundedInduction, TLAPS

----------------------------------------------------------------------------
(* Sequences and what they hold.                                           *)

\* Every set of natural numbers that is not empty has a least one.
LEMMA LeastNumber ==
    ASSUME NEW S \in SUBSET Nat, S # {}
    PROVE  \E n \in S : \A m \in S : n <= m
<1> DEFINE Less == OpToRel(<, Nat)
<1>1. \A m, n \in Nat : m < n => <<m, n>> \in Less
  BY DEF OpToRel
<1>2. IsWellFoundedOn(Less, Nat)
  BY NatLessThanWellFounded
<1> HIDE DEF Less
<1>3. PICK n \in S : \A m \in S : ~ (<<m, n>> \in Less)
  BY <1>2, WFMin
<1>4. \A m \in S : m \in Nat /\ n \in Nat /\ ~ (m < n)
  BY <1>1, <1>3
<1> QED
  BY <1>4

\* What a sequence holds after its parts are put together or taken apart.
LEMMA SetOfEmpty == ToSet(<<>>) = {} /\ Increasing(<<>>)
  BY DEF ToSet, Increasing

LEMMA SetOfAppend ==
    ASSUME NEW S, NEW s \in Seq(S), NEW e \in S
    PROVE  /\ Append(s, e) \in Seq(S)
           /\ ToSet(Append(s, e)) = ToSet(s) \cup {e}
<1>1. /\ Append(s, e) \in Seq(S)
      /\ DOMAIN s = 1 .. Len(s) /\ Len(s) \in Nat
      /\ DOMAIN Append(s, e) = 1 .. Len(s) + 1
      /\ \A i \in 1 .. Len(s) : Append(s, e)[i] = s[i]
      /\ Append(s, e)[Len(s) + 1] = e
  BY AppendProperties, LenProperties
<1>2. 1 .. Len(s) + 1 = (1 .. Len(s)) \cup {Len(s) + 1}
  BY <1>1
<1> QED
  BY <1>1, <1>2 DEF ToSet

LEMMA SetOfConcat ==
    ASSUME NEW S, NEW s \in Seq(S), NEW t \in Seq(S)
    PROVE  /\ s \o t \in Seq(S)
           /\ ToSet(s \o t) = ToSet(s) \cup ToSet(t)
<1>1. /\ s \o t \in Seq(S)
      /\ Len(s \o t) = Len(s) + Len(t)
      /\ \A i \in 1 .. Len(s) + Len(t) :
            (s \o t)[i] = IF i <= Len(s) THEN s[i] ELSE t[i - Len(s)]
  BY ConcatProperties
<1>2. ToSet(s \o t) \subseteq ToSet(s) \cup ToSet(t)
  BY <1>1, LenProperties DEF ToSet
<1>3. \A i \in 1 .. Len(s) : s[i] \in ToSet(s \o t)
  BY <1>1, LenProperties DEF ToSet
<1>4. \A i \in 1 .. Len(t) : t[i] = (s \o t)[Len(s) + i] /\ Len(s) + i \in 1 .. Len(s \o t)
  BY <1>1, LenProperties
<1>5. \A i \in 1 .. Len(t) : t[i] \in ToSet(s \o t)
  BY <1>1, <1>4, LenProperties DEF ToSet
<1> QED
  BY <1>1, <1>2, <1>3, <1>5, LenProperties DEF ToSet

LEMMA SetOfTail ==
    ASSUME NEW S, NEW s \in Seq(S), s # <<>>
    PROVE  /\ Tail(s) \in Seq(S)
           /\ Head(s) \in S
           /\ ToSet(s) = {Head(s)} \cup ToSet(Tail(s))
           /\ Increasing(s) => \A n \in ToSet(Tail(s)) : Head(s) < n
           /\ Increasing(s) => Increasing(Tail(s))
<1>1. /\ Tail(s) \in Seq(S) /\ Head(s) \in S /\ Head(s) = s[1]
      /\ Len(s) \in Nat \ {0} /\ DOMAIN s = 1 .. Len(s)
      /\ DOMAIN Tail(s) = 1 .. Len(s) - 1
      /\ \A i \in 1 .. Len(s) - 1 : Tail(s)[i] = s[i + 1]
  BY HeadTailProperties, LenProperties, EmptySeq
<1>2. \A i \in 2 .. Len(s) : s[i] = Tail(s)[i - 1] /\ i - 1 \in DOMAIN Tail(s)
  BY <1>1
<1>3. ToSet(s) = {Head(s)} \cup ToSet(Tail(s))
  <2>1. 1 .. Len(s) = {1} \cup (2 .. Len(s))
    BY <1>1
  <2>2. \A i \in DOMAIN Tail(s) : i + 1 \in 2 .. Len(s)
    BY <1>1
  <2>3. \A i \in DOMAIN s : s[i] \in {Head(s)} \cup ToSet(Tail(s))
    BY <1>1, <1>2, <2>1 DEF ToSet
  <2>4. \A i \in DOMAIN Tail(s) : Tail(s)[i] \in ToSet(s)
    BY <1>1, <2>2 DEF ToSet
  <2>5. Head(s) \in ToSet(s)
    BY <1>1 DEF ToSet
  <2> QED
    BY <2>3, <2>4, <2>5 DEF ToSet
<1>4. ASSUME Increasing(s), NEW i \in DOMAIN Tail(s)
      PROVE  /\ Head(s) < Tail(s)[i]
             /\ \A j \in DOMAIN Tail(s) : i < j => Tail(s)[i] < Tail(s)[j]
  <2>1. \A j \in DOMAIN Tail(s) : j + 1 \in DOMAIN s /\ 1 < j + 1
    BY <1>1
  <2> QED
    BY <1>1, <1>4, <2>1 DEF Increasing
<1> QED
  BY <1>1, <1>3, <1>4 DEF ToSet, Increasing

LEMMA AppendIncreasing ==
    ASSUME NEW s \in Seq(Int), NEW e \in Int, Increasing(s),
           \A m \in ToSet(s) : m < e
    PROVE  Increasing(Append(s, e))
<1>1. /\ DOMAIN s = 1 .. Len(s) /\ Len(s) \in Nat
      /\ DOMAIN Append(s, e) = 1 .. Len(s) + 1
      /\ \A i \in 1 .. Len(s) : Append(s, e)[i] = s[i] /\ s[i] < e
      /\ Append(s, e)[Len(s) + 1] = e
  BY AppendProperties, LenProperties DEF ToSet
<1> QED
  BY <1>1 DEF Increasing

LEMMA ConcatIncreasing ==
    ASSUME NEW s \in Seq(Int), NEW t \in Seq(Int), Increasing(s), Increasing(t),
           \A m \in ToSet(s), n \in ToSet(t) : m < n
    PROVE  Increasing(s \o t)
<1>1. /\ DOMAIN s = 1 .. Len(s) /\ Len(s) \in Nat
      /\ DOMAIN t = 1 .. Len(t) /\ Len(t) \in Nat
      /\ DOMAIN (s \o t) = 1 .. Len(s) + Len(t)
      /\ \A i \in 1 .. Len(s) + Len(t) :
            (s \o t)[i] = IF i <= Len(s) THEN s[i] ELSE t[i - Len(s)]
  BY ConcatProperties, LenProperties
<1>0. /\ \A i \in DOMAIN s : s[i] \in Int
      /\ \A i \in DOMAIN t : t[i] \in Int
  BY ElementOfSeq, <1>1
<1>2. \A i \in DOMAIN s, j \in DOMAIN t : s[i] < t[j]
  BY DEF ToSet
<1>3. ASSUME NEW i \in 1 .. Len(s) + Len(t), NEW j \in 1 .. Len(s) + Len(t), i < j
      PROVE  (s \o t)[i] < (s \o t)[j]
  <2>1. CASE j <= Len(s)
    <3>1. i \in DOMAIN s /\ j \in DOMAIN s
      BY <1>1, <1>3, <2>1
    <3> QED
      BY <1>1, <1>3, <2>1, <3>1 DEF Increasing
  <2>2. CASE i <= Len(s) /\ Len(s) < j
    <3>1. i \in DOMAIN s /\ j - Len(s) \in DOMAIN t
      BY <1>1, <1>3, <2>2
    <3> QED
      BY <1>0, <1>1, <1>2, <1>3, <2>2, <3>1
  <2>3. CASE Len(s) < i
    <3>1. i - Len(s) \in DOMAIN t /\ j - Len(s) \in DOMAIN t /\ i - Len(s) < j - Len(s)
      BY <1>1, <1>3, <2>3
    <3>2. t[i - Len(s)] < t[j - Len(s)]
      BY <3>1 DEF Increasing
    <3> QED
      BY <1>1, <1>3, <2>3, <3>2
  <2> QED
    BY <1>1, <2>1, <2>2, <2>3
<1> QED
  BY <1>1, <1>3 DEF Increasing

\* The recursion of Those is well defined.
LEMMA ThoseIsDefined ==
    ASSUME NEW T, NEW s \in Seq(T), NEW S
    PROVE  \E f : /\ Those(s, S) = f[Len(s)]
                  /\ f[0] = <<>>
                  /\ \A k \in 1 .. Len(s) :
                        f[k] = IF s[k] \in S THEN Append(f[k - 1], s[k]) ELSE f[k - 1]
<1> DEFINE N == Len(s)
           upTo[k \in 0 .. N] ==
               IF k = 0 THEN <<>>
               ELSE IF s[k] \in S THEN Append(upTo[k - 1], s[k]) ELSE upTo[k - 1]
           Grown(f, k) == IF s[k] \in S THEN Append(f[k - 1], s[k]) ELSE f[k - 1]
           Is(f, n) == f = [k \in 0 .. n |-> IF k = 0 THEN <<>> ELSE Grown(f, k)]
           Bad == {n \in 0 .. N : ~ \E f : Is(f, n)}
<1>1. N \in Nat
  BY LenProperties
<1>2. Bad = {}
  <2> SUFFICES ASSUME Bad # {} PROVE FALSE
    OBVIOUS
  <2>1. PICK n \in Bad : \A m \in Bad : n <= m
    <3>1. Bad \in SUBSET Nat
      BY <1>1
    <3> HIDE DEF Bad
    <3> QED
      BY <3>1, LeastNumber
  <2>2. n # 0
    <3> DEFINE f == [k \in 0 .. 0 |-> <<>>]
    <3>1. Is(f, 0)
      OBVIOUS
    <3> QED
      BY <3>1
  <2>3. n \in 1 .. N
    BY <1>1, <2>1, <2>2
  <2>4. PICK f : Is(f, n - 1)
    <3>1. n - 1 \in 0 .. N /\ ~ (n <= n - 1)
      BY <1>1, <2>3
    <3>2. n - 1 \notin Bad
      <4> HIDE DEF Bad
      <4> QED
        BY <2>1, <3>1
    <3> HIDE DEF Is
    <3> QED
      BY <3>1, <3>2
  <2> DEFINE g == [k \in 0 .. n |-> IF k = n THEN Grown(f, n) ELSE f[k]]
  <2>5. \A k \in 0 .. n : g[k] = IF k = 0 THEN <<>> ELSE Grown(g, k)
    <3>1. \A k \in 0 .. n - 1 : g[k] = f[k] /\ f[k] = IF k = 0 THEN <<>> ELSE Grown(f, k)
      <4> HIDE DEF Grown
      <4>1. \A k \in 0 .. n - 1 : f[k] = IF k = 0 THEN <<>> ELSE Grown(f, k)
        BY <2>4
      <4>2. \A k \in 0 .. n - 1 : k \in 0 .. n /\ k # n
        BY <2>3
      <4> QED
        BY <4>1, <4>2
    <3>2. \A k \in 1 .. n : g[k - 1] = f[k - 1]
      BY <2>3
    <3>3. \A k \in 1 .. n : Grown(g, k) = Grown(f, k)
      BY <3>2
    <3>4. g[n] = Grown(f, n)
      BY <2>3
    <3>5. \A k \in 0 .. n : k = n \/ k \in 0 .. n - 1
      BY <2>3
    <3>6. \A k \in 0 .. n : k = 0 \/ k \in 1 .. n
      BY <2>3
    <3> HIDE DEF g, Grown
    <3> QED
      BY <2>2, <3>1, <3>3, <3>4, <3>5, <3>6
  <2>6. Is(g, n)
    <3>1. g = [k \in 0 .. n |-> g[k]]
      OBVIOUS
    <3> HIDE DEF g, Grown
    <3> QED
      BY <2>5, <3>1
  <2> QED
    BY <2>1, <2>6
<1>3. PICK f : Is(f, N)
  <2> HIDE DEF Is
  <2> QED
    BY <1>1, <1>2
<1>4. upTo = [k \in 0 .. N |-> IF k = 0 THEN <<>> ELSE Grown(upTo, k)]
  BY <1>3, Zenon
<1>5. Those(s, S) = upTo[N]
  BY Zenon DEF Those
<1> HIDE DEF upTo
<1>6. upTo[0] = <<>>
  BY <1>1, <1>4
<1>7. \A k \in 1 .. N : upTo[k] = Grown(upTo, k)
  <2>1. \A k \in 1 .. N : k \in 0 .. N /\ k # 0
    BY <1>1
  <2> HIDE DEF Grown, N
  <2> QED
    BY <1>4, <2>1
<1> QED
  BY <1>5, <1>6, <1>7

\* Of a sequence that increases, Those picks just the members of S, in order.
LEMMA ThoseAreChosen ==
    ASSUME NEW T \in SUBSET Int, NEW s \in Seq(T), NEW S, Increasing(s)
    PROVE  /\ Those(s, S) \in Seq(T)
           /\ ToSet(Those(s, S)) = ToSet(s) \cap S
           /\ Increasing(Those(s, S))
<1>1. /\ Len(s) \in Nat /\ DOMAIN s = 1 .. Len(s)
      /\ \A i \in 1 .. Len(s) : s[i] \in T
      /\ \A i, j \in 1 .. Len(s) : i < j => s[i] < s[j]
  BY LenProperties, ElementOfSeq DEF Increasing
<1>2. PICK f : /\ Those(s, S) = f[Len(s)]
               /\ f[0] = <<>>
               /\ \A k \in 1 .. Len(s) :
                     f[k] = IF s[k] \in S THEN Append(f[k - 1], s[k]) ELSE f[k - 1]
  BY ThoseIsDefined
<1> DEFINE Picked(k) == {s[i] : i \in 1 .. k} \cap S
           Good(k) == f[k] \in Seq(T) /\ ToSet(f[k]) = Picked(k) /\ Increasing(f[k])
           Bad == {k \in 0 .. Len(s) : ~ Good(k)}
<1>3. Good(0)
  BY <1>2, SetOfEmpty
<1>4. ASSUME NEW k \in 1 .. Len(s), Good(k - 1)
      PROVE  Good(k)
  <2>1. Picked(k) = IF s[k] \in S THEN Picked(k - 1) \cup {s[k]} ELSE Picked(k - 1)
    <3>1. 1 .. k = (1 .. k - 1) \cup {k}
      OBVIOUS
    <3> QED
      BY <3>1
  <2>2. s[k] \in T /\ s[k] \in Int
    BY <1>1
  <2>3. CASE s[k] \in S
    <3>1. f[k - 1] \in Seq(Int)
      BY <1>4, SeqMonotonic
    <3>2. \A m \in ToSet(f[k - 1]) : m < s[k]
      BY <1>1, <1>4
    <3>3. Increasing(Append(f[k - 1], s[k]))
      BY <1>4, <2>2, <3>1, <3>2, AppendIncreasing
    <3>4. /\ Append(f[k - 1], s[k]) \in Seq(T)
          /\ ToSet(Append(f[k - 1], s[k])) = ToSet(f[k - 1]) \cup {s[k]}
      BY <1>4, <2>2, SetOfAppend
    <3> HIDE DEF Picked
    <3> QED
      BY <1>2, <1>4, <2>1, <2>3, <3>3, <3>4
  <2>4. CASE s[k] \notin S
    <3> HIDE DEF Picked
    <3> QED
      BY <1>2, <1>4, <2>1, <2>4
  <2> QED
    BY <2>3, <2>4
<1>5. Bad = {}
  <2> SUFFICES ASSUME Bad # {} PROVE FALSE
    OBVIOUS
  <2>1. PICK n \in Bad : \A m \in Bad : n <= m
    <3>1. Bad \in SUBSET Nat
      BY <1>1
    <3> HIDE DEF Bad
    <3> QED
      BY <3>1, LeastNumber
  <2> HIDE DEF Good
  <2>2. n \in 1 .. Len(s) /\ n - 1 \in 0 .. Len(s) /\ ~ (n <= n - 1)
    BY <1>1, <1>3, <2>1
  <2>3. Good(n - 1)
    BY <2>1, <2>2
  <2> QED
    BY <1>4, <2>1, <2>2, <2>3
<1>6. Good(Len(s))
  BY <1>1, <1>5
<1>7. Picked(Len(s)) = ToSet(s) \cap S
  BY <1>1 DEF ToSet
<1> HIDE DEF Picked
<1> QED
  BY <1>2, <1>6, <1>7

----------------------------------------------------------------------------
(* Types, and the one pool.                                                *)

TypeInv == TypeOK /\ Shapes /\ PoolIsUsed

LEMMA InitIsTyped == Init => TypeInv
<1> SUFFICES ASSUME Init PROVE TypeInv
  OBVIOUS
<1>1. Numbers = {}
  BY DEF Init, Numbers
<1> QED
  BY <1>1, FeedAssumption DEF Init, TypeInv, TypeOK, Shapes, PoolIsUsed, NoCall

\* What is pushed gets the next number, and the pool takes it.
LEMMA PushAppends ==
    ASSUME TypeInv, NEW g \in Groups, NEW sig \in Sigs \cup {NoSig}, NEW ts \in Int,
           Push([group |-> g, sig |-> sig, ts |-> ts])
    PROVE  /\ Len(items) + 1 \in Nat /\ Len(items) + 1 <= MaxItems
           /\ items' \in Seq([group : Groups, sig : Sigs \cup {NoSig}, ts : Int])
           /\ Len(items') = Len(items) + 1
           /\ Numbers' = Numbers \cup {Len(items) + 1} /\ Numbers = 1 .. Len(items)
           /\ \A i \in Numbers : items'[i] = items[i]
           /\ items'[Len(items) + 1] = [group |-> g, sig |-> sig, ts |-> ts]
           /\ pool' \in [DOMAIN pool -> Seq(Numbers')] /\ DOMAIN pool' = DOMAIN pool
           /\ \A s \in DOMAIN pool : pool'[s] = Append(pool[s], Len(items) + 1)
<1> USE DEF TypeInv
<1> DEFINE e == [group |-> g, sig |-> sig, ts |-> ts]
           n == Len(items) + 1
           Event == [group : Groups, sig : Sigs \cup {NoSig}, ts : Int]
<1>1. /\ n \in Nat /\ n <= MaxItems
      /\ items' \in Seq(Event) /\ Len(items') = n
      /\ Numbers' = Numbers \cup {n} /\ Numbers = 1 .. Len(items)
      /\ \A i \in Numbers : items'[i] = items[i]
      /\ items'[n] = e
  <2>1. items \in Seq(Event) /\ e \in Event /\ Len(items) < MaxItems
    BY DEF Shapes, Push
  <2>2. items' = Append(items, e)
    BY DEF Push
  <2>3. Len(items) \in Nat
    BY <2>1, LenProperties
  <2> HIDE DEF e, Event
  <2>4. /\ items' \in Seq(Event) /\ Len(items') = n
        /\ \A i \in 1 .. Len(items) : items'[i] = items[i]
        /\ items'[n] = e
    BY <2>1, <2>2, AppendProperties
  <2>5. 1 .. n = (1 .. n - 1) \cup {n}
    BY <2>3
  <2> QED
    BY <2>1, <2>2, <2>3, <2>4, <2>5, FeedAssumption DEF Numbers
<1>2. pool' = [s \in DOMAIN pool |-> Append(pool[s], n)]
  BY DEF Push
<1>3. \A s \in DOMAIN pool : Append(pool[s], n) \in Seq(Numbers')
  <2>1. \A s \in DOMAIN pool : pool[s] \in Seq(Numbers')
    <3>1. Numbers \subseteq Numbers'
      BY <1>1
    <3> QED
      BY <3>1, SeqMonotonic DEF Shapes
  <2>2. n \in Numbers'
    BY <1>1
  <2> QED
    BY <2>1, <2>2, AppendProperties
<1> HIDE DEF e, n, Event
<1>4. /\ pool' \in [DOMAIN pool -> Seq(Numbers')] /\ DOMAIN pool' = DOMAIN pool
      /\ \A s \in DOMAIN pool : pool'[s] = Append(pool[s], n)
  BY <1>2, <1>3
<1> QED
  BY <1>1, <1>4 DEF e, n, Event

LEMMA PushIsTyped ==
    ASSUME TypeInv, NEW g \in Groups, NEW sig \in Sigs \cup {NoSig}, NEW ts \in Int,
           Push([group |-> g, sig |-> sig, ts |-> ts]),
           clock' = clock, on' = on, recent' = recent, naming' \subseteq naming,
           UNCHANGED <<rpc, call, workers, faults>>
    PROVE  TypeInv'
<1> USE DEF TypeInv, rpc, workers
<1> DEFINE e == [group |-> g, sig |-> sig, ts |-> ts]
           n == Len(items) + 1
           Event == [group : Groups, sig : Sigs \cup {NoSig}, ts : Int]
<1>1. /\ n \in Nat /\ n <= MaxItems
      /\ items' \in Seq(Event) /\ Len(items') = n
      /\ Numbers' = Numbers \cup {n} /\ Numbers = 1 .. Len(items)
      /\ \A i \in Numbers : items'[i] = items[i]
      /\ items'[n] = e
      /\ pool' \in [DOMAIN pool -> Seq(Numbers')] /\ DOMAIN pool' = DOMAIN pool
  BY PushAppends
<1>2. Seq(Numbers) \subseteq Seq(Numbers')
  <2>1. Numbers \subseteq Numbers'
    BY <1>1
  <2> QED
    BY <2>1, SeqMonotonic
<1>4. lost' \subseteq Numbers'
  BY <1>1 DEF Push, TypeOK
<1>5. Shapes'
  BY <1>1, <1>2 DEF Shapes
<1>6. TypeOK'
  <2>1. \A i \in Numbers' : items'[i] \in Event
    BY <1>1, ElementOfSeq DEF Numbers
  <2> HIDE DEF e
  <2> QED
    BY <1>1, <1>4, <2>1 DEF TypeOK
<1>7. PoolIsUsed'
  BY <1>1 DEF PoolIsUsed
<1> QED
  BY <1>5, <1>6, <1>7

\* Notices and switches touch only what the plugin keeps of them.
LEMMA PluginIsTyped ==
    ASSUME TypeInv,
           \/ \E g \in Groups : NewMessage(g) \/ Switch(g)
           \/ \E sig \in Sigs, ts \in (clock - MaxLag)..clock : Notice(sig, ts)
           \/ \E e \in naming : Named(e)
           \/ Tick
    PROVE  TypeInv'
<1> USE DEF TypeInv
<1>1. ASSUME NEW g \in Groups, NewMessage(g) PROVE TypeInv'
  BY <1>1, PushIsTyped DEF NewMessage, plugin
<1>2. ASSUME NEW e \in naming, Named(e) PROVE TypeInv'
  <2>1. e[1] \in Int /\ e[2] \in Sigs /\ GroupOf[e[2]] \in Groups
    BY FeedAssumption DEF Shapes
  <2> QED
    BY <1>2, <2>1, PushIsTyped DEF Named
<1>3. ASSUME NEW g \in Groups, Switch(g) PROVE TypeInv'
  BY <1>3 DEF Switch, TypeOK, Shapes, PoolIsUsed, Numbers, rpc, workers
<1>4. ASSUME NEW sig \in Sigs, NEW ts \in (clock - MaxLag)..clock, Notice(sig, ts) PROVE TypeInv'
  <2>1. ts \in Int
    BY FeedAssumption DEF TypeOK
  <2>2. recent' \cup naming' \subseteq recent \cup naming \cup {<<ts, sig>>}
    BY <1>4 DEF Notice
  <2> QED
    BY <1>4, <2>1, <2>2 DEF Notice, TypeOK, Shapes, PoolIsUsed, Numbers, rpc, workers
<1>5. ASSUME Tick PROVE TypeInv'
  BY <1>5, FeedAssumption DEF Tick, TypeOK, Shapes, PoolIsUsed, Numbers, rpc, workers
<1> QED
  BY <1>1, <1>2, <1>3, <1>4, <1>5

\* Connecting and losing connections keeps one pool, that of a session in use.
LEMMA LinksAreTyped ==
    ASSUME TypeInv, NEW s \in Sessions,
           Connect(s) \/ CloseRefused(s) \/ ServerLoses(s) \/ Breaks(s)
    PROVE  TypeInv'
<1> USE DEF TypeInv, plugin, workers
<1>1. Numbers' = Numbers
  BY DEF Connect, CloseRefused, ServerLoses, Breaks, Numbers
<1>2. CASE Connect(s)
  <2> USE DEF Connect
  <2>1. CASE DOMAIN pool # {}
    BY <1>1, <1>2, <2>1 DEF TypeOK, Shapes, PoolIsUsed
  <2>2. CASE DOMAIN pool = {}
    <3>1. DOMAIN pool' = {s} /\ pool'[s] = <<>> /\ closing' = closing
          /\ pool' = [q \in {s} |-> <<>>]
      BY <1>2, <2>2
    <3>2. pool' \in [DOMAIN pool' -> Seq(Numbers)]
      BY <3>1
    <3>3. s \notin closing
      BY <1>2 DEF PoolIsUsed
    <3> QED
      BY <1>1, <1>2, <3>1, <3>2, <3>3 DEF TypeOK, Shapes, PoolIsUsed
  <2> QED
    BY <2>1, <2>2
<1>3. CASE CloseRefused(s)
  BY <1>1, <1>3 DEF CloseRefused, TypeOK, Shapes, PoolIsUsed
<1>4. CASE ServerLoses(s)
  <2> USE DEF ServerLoses
  <2>1. DOMAIN pool' = DOMAIN pool \ {s}
        /\ \A q \in DOMAIN pool' : pool'[q] = pool[q]
    BY <1>4
  <2>2. pool' \in [DOMAIN pool' -> Seq(Numbers)]
    BY <1>4, <2>1 DEF Shapes
  <2>3. lost' \subseteq Numbers
    <3>1. s \in DOMAIN pool => ToSet(pool[s]) \subseteq Numbers
      BY DEF Shapes, ToSet
    <3> QED
      BY <1>4, <3>1 DEF TypeOK
  <2> QED
    BY <1>1, <1>4, <2>1, <2>2, <2>3 DEF TypeOK, Shapes, PoolIsUsed
<1>5. CASE Breaks(s)
  BY <1>1, <1>5, FeedAssumption DEF Breaks, Fault, TypeOK, Shapes, PoolIsUsed
<1> QED
  BY <1>2, <1>3, <1>4, <1>5

\* What main puts into the queues: behind what a queue holds, what the call has
\* got for its group.
QueueOf(g) == IF g \in DOMAIN queue THEN queue[g] ELSE <<>>

LEMMA QueuedHolds ==
    ASSUME TypeInv, Increasing(call.got), call # Asked(call.on)
    PROVE  /\ call.got \in Seq(Numbers)
           /\ DOMAIN queue \subseteq DOMAIN Queued(call.got)
           /\ DOMAIN Queued(call.got) \subseteq Groups
           /\ \A n \in ToSet(call.got) : items[n].group \in DOMAIN Queued(call.got)
           /\ Queued(call.got) \in [DOMAIN Queued(call.got) -> Seq(Numbers)]
           /\ \A g \in DOMAIN Queued(call.got) :
                 /\ QueueOf(g) \in Seq(Numbers) /\ OfGroup(g, call.got) \in Seq(Numbers)
                 /\ Queued(call.got)[g] = QueueOf(g) \o OfGroup(g, call.got)
                 /\ ToSet(Queued(call.got)[g]) = ToSet(QueueOf(g)) \cup ToSet(OfGroup(g, call.got))
                 /\ ToSet(OfGroup(g, call.got)) = {n \in ToSet(call.got) : items[n].group = g}
                 /\ Increasing(OfGroup(g, call.got))
<1> DEFINE got == call.got
           groups == {items[n].group : n \in ToSet(got)}
<1>1. got \in Seq(Numbers)
  BY DEF TypeInv, Shapes, Asked
<1>2. Queued(got) = [g \in DOMAIN queue \cup groups |-> QueueOf(g) \o OfGroup(g, got)]
  BY DEF Queued, QueueOf
<1>3. groups \subseteq Groups
  <2>1. ToSet(got) \subseteq Numbers
    BY <1>1 DEF ToSet
  <2> HIDE DEF got
  <2> QED
    BY <2>1 DEF TypeInv, TypeOK
<1>4. \A g : QueueOf(g) \in Seq(Numbers)
  BY DEF TypeInv, Shapes, QueueOf
<1>5. ASSUME NEW g
      PROVE  /\ OfGroup(g, got) \in Seq(Numbers)
             /\ ToSet(OfGroup(g, got)) = {n \in ToSet(got) : items[n].group = g}
             /\ Increasing(OfGroup(g, got))
  <2>1. Numbers \in SUBSET Int
    BY DEF Numbers
  <2> HIDE DEF got
  <2> QED
    BY <1>1, <2>1, ThoseAreChosen DEF OfGroup, got
<1>6. \A g : /\ QueueOf(g) \o OfGroup(g, got) \in Seq(Numbers)
             /\ ToSet(QueueOf(g) \o OfGroup(g, got)) = ToSet(QueueOf(g)) \cup ToSet(OfGroup(g, got))
  BY <1>4, <1>5, SetOfConcat
<1>7. DOMAIN queue \subseteq Groups
  BY DEF TypeInv, TypeOK
<1> HIDE DEF got
<1>8. /\ DOMAIN Queued(got) = DOMAIN queue \cup groups
      /\ \A g \in DOMAIN Queued(got) : Queued(got)[g] = QueueOf(g) \o OfGroup(g, got)
  BY <1>2
<1>9. Queued(got) \in [DOMAIN Queued(got) -> Seq(Numbers)]
  BY <1>2, <1>6
<1> QED
  BY <1>1, <1>3, <1>4, <1>5, <1>6, <1>7, <1>8, <1>9 DEF got

\* A call takes what it found in the pool to the queues, or loses it.
LEMMA CallsAreTyped ==
    ASSUME TypeInv, Increasing(call.got),
           Poll \/ Answered \/ CallFails \/ \E s \in Sessions : Serve(s)
    PROVE  TypeInv'
<1> USE DEF TypeInv, plugin, workers, rpc
<1>1. Numbers' = Numbers
  BY DEF Poll, Answered, CallFails, Serve, Numbers
<1>2. CASE Poll
  BY <1>1, <1>2 DEF Poll, Asked, TypeOK, Shapes, PoolIsUsed
<1>3. ASSUME NEW s \in Sessions, Serve(s) PROVE TypeInv'
  <2> USE DEF Serve
  <2>1. DOMAIN pool' = DOMAIN pool
        /\ \A q \in DOMAIN pool : pool'[q] = IF q = s THEN <<>> ELSE pool[q]
    BY <1>3
  <2>2. pool' \in [DOMAIN pool -> Seq(Numbers)]
    BY <1>3, <2>1 DEF Shapes
  <2>3. call' = [call EXCEPT !.got = call'.got] /\ call'.got \in Seq(Numbers)
    BY <1>3 DEF Shapes
  <2> QED
    BY <1>1, <1>3, <2>1, <2>2, <2>3 DEF TypeOK, Shapes, PoolIsUsed
<1>4. CASE Answered
  <2>1. /\ queue' = Queued(call.got) /\ call' = NoCall
        /\ DOMAIN queue' \subseteq Groups /\ queue' \in [DOMAIN queue' -> Seq(Numbers)]
    BY <1>4, QueuedHolds DEF Answered
  <2>2. NoCall \in [on : Sessions \cup {NoSession}, got : {<<0>>} \cup Seq(Numbers)]
    BY DEF NoCall
  <2> QED
    BY <1>1, <1>4, <2>1, <2>2 DEF Answered, TypeOK, Shapes, PoolIsUsed
<1>5. CASE CallFails
  <2>1. lost' \subseteq Numbers
    <3>1. ToSet(call.got) \ {0} \subseteq Numbers
      BY DEF Shapes, ToSet
    <3> QED
      BY <1>5, <3>1 DEF CallFails, TypeOK
  <2> QED
    BY <1>1, <1>5, <2>1, FeedAssumption DEF CallFails, Fault, NoCall, TypeOK, Shapes, PoolIsUsed
<1> QED
  BY <1>2, <1>3, <1>4, <1>5

\* Workers take from their queues, and end with them or with the process.
LEMMA WorkersAreTyped ==
    ASSUME TypeInv,
           Restart \/ \E g \in Groups : Take(g) \/ ChatEnds(g) \/ Retire(g)
    PROVE  TypeInv'
<1> USE DEF TypeInv, plugin, rpc
<1>1. Numbers' = Numbers
  BY DEF Restart, Take, ChatEnds, Retire, Numbers
<1>2. \A g \in DOMAIN queue : queue[g] \in Seq(Numbers) /\ ToSet(queue[g]) \subseteq Numbers
  BY DEF Shapes, ToSet
<1>3. CASE Restart
  <2>1. ToSet(call.got) \ {0} \subseteq Numbers
    BY DEF Shapes, ToSet
  <2>2. lost' \subseteq Numbers
    BY <1>2, <1>3, <2>1 DEF Restart, TypeOK
  <2>3. DOMAIN queue' = {} /\ queue' \in [{} -> Seq(Numbers)]
    BY <1>3 DEF Restart
  <2>4. \A t \in Sessions : link[t] # "free" => link'[t] # "free"
    BY <1>3 DEF Restart
  <2> QED
    BY <1>1, <1>3, <2>2, <2>3, <2>4, FeedAssumption
       DEF Restart, Fault, NoCall, TypeOK, Shapes, PoolIsUsed
<1>4. ASSUME NEW g \in Groups, Take(g) PROVE TypeInv'
  <2> USE DEF Take
  <2>1. queue[g] \in Seq(Numbers) /\ queue[g] # <<>>
    BY <1>2, <1>4
  <2>2. /\ Head(queue[g]) \in Numbers
        /\ Tail(queue[g]) \in Seq(Numbers)
        /\ handled' \in Seq(Numbers)
    BY <1>4, <2>1, SetOfTail, SetOfAppend DEF Shapes
  <2>3. DOMAIN queue' = DOMAIN queue /\ queue' \in [DOMAIN queue -> Seq(Numbers)]
    BY <1>4, <2>2 DEF Shapes
  <2>4. Numbers \subseteq 0 .. MaxItems
    BY FeedAssumption, LenProperties DEF Shapes, Numbers
  <2> QED
    BY <1>1, <1>4, <2>2, <2>3, <2>4 DEF TypeOK, Shapes, PoolIsUsed
<1>5. ASSUME NEW g \in Groups, ChatEnds(g) PROVE TypeInv'
  BY <1>1, <1>5, FeedAssumption DEF ChatEnds, TypeOK, Shapes, PoolIsUsed
<1>6. ASSUME NEW g \in Groups, Retire(g) PROVE TypeInv'
  <2>1. DOMAIN queue' = DOMAIN queue \ {g} /\ queue' \in [DOMAIN queue' -> Seq(Numbers)]
    BY <1>2, <1>6 DEF Retire
  <2>2. lost' \subseteq Numbers
    BY <1>2, <1>6 DEF Retire, TypeOK
  <2> QED
    BY <1>1, <1>6, <2>1, <2>2, FeedAssumption DEF Retire, Fault, TypeOK, Shapes, PoolIsUsed
<1> QED
  BY <1>3, <1>4, <1>5, <1>6

----------------------------------------------------------------------------
(* The way of what was pushed.                                             *)

FlowInv == NothingVanishes /\ KeepsOrder /\ HandledInOrder
flowVars == <<items, pool, call, queue, handled, lost>>

LEMMA InitFlows == Init => FlowInv
<1> SUFFICES ASSUME Init PROVE FlowInv
  OBVIOUS
<1>1. /\ Numbers = {} /\ Pooled = {} /\ Got = {} /\ Waiting = {} /\ ToSet(handled) = {}
      /\ lost = {} /\ DOMAIN pool = {} /\ DOMAIN queue = {} /\ DOMAIN handled = {}
  BY SetOfEmpty DEF Init, Numbers, Pooled, Got, Waiting, NoCall
<1>2. Increasing(call.got)
  BY SetOfEmpty DEF Init, NoCall
<1> QED
  BY <1>1, <1>2 DEF FlowInv, NothingVanishes, KeepsOrder, HandledInOrder, Before

\* All numbers on the way are of items that were pushed.
LEMMA OnTheWay ==
    ASSUME TypeInv, NothingVanishes
    PROVE  /\ \A s \in DOMAIN pool : ToSet(pool[s]) \subseteq Pooled
           /\ \A g \in DOMAIN queue : ToSet(queue[g]) \subseteq Waiting
           /\ \A i \in DOMAIN handled : handled[i] \in ToSet(handled)
           /\ Pooled \cup Got \cup Waiting \cup ToSet(handled) \cup lost = Numbers
           /\ Numbers = 1 .. Len(items) /\ Len(items) \in Nat
<1>1. Len(items) \in Nat
  BY LenProperties DEF TypeInv, Shapes
<1> QED
  BY <1>1 DEF NothingVanishes, Pooled, Waiting, ToSet, Numbers

LEMMA StandingStill ==
    ASSUME FlowInv, UNCHANGED flowVars
    PROVE  FlowInv'
  BY DEF FlowInv, flowVars, NothingVanishes, KeepsOrder, HandledInOrder, Numbers,
         Pooled, Got, Waiting

LEMMA PushFlows ==
    ASSUME TypeInv, FlowInv, NEW g \in Groups, NEW sig \in Sigs \cup {NoSig}, NEW ts \in Int,
           Push([group |-> g, sig |-> sig, ts |-> ts]), UNCHANGED <<call, workers>>
    PROVE  FlowInv'
<1> USE DEF FlowInv, workers
<1> DEFINE n == Len(items) + 1
<1>1. /\ Numbers' = Numbers \cup {n} /\ Numbers = 1 .. Len(items) /\ Len(items) \in Nat
      /\ \A i \in Numbers : items'[i] = items[i]
      /\ DOMAIN pool' = DOMAIN pool
      /\ \A s \in DOMAIN pool : pool'[s] = Append(pool[s], n)
  BY PushAppends, OnTheWay
<1>2. \A m \in Numbers : m < n
  BY <1>1
<1>3. ASSUME NEW s \in DOMAIN pool
      PROVE  ToSet(pool'[s]) = ToSet(pool[s]) \cup {n} /\ Increasing(pool'[s])
  <2>1. pool[s] \in Seq(Numbers) /\ Numbers \subseteq Int /\ n \in Int
    BY <1>1 DEF TypeInv, Shapes
  <2> HIDE DEF n
  <2>2. pool[s] \in Seq(Int)
    BY <2>1, SeqMonotonic
  <2>3. \A m \in ToSet(pool[s]) : m < n
    BY <1>2, <2>1, ElementOfSeq, LenProperties DEF ToSet
  <2>4. Increasing(pool[s])
    BY DEF KeepsOrder
  <2>5. pool'[s] = Append(pool[s], n)
    BY <1>1
  <2>6. ToSet(Append(pool[s], n)) = ToSet(pool[s]) \cup {n}
    BY <2>1, <2>2, SetOfAppend
  <2>7. Increasing(Append(pool[s], n))
    BY <2>1, <2>2, <2>3, <2>4, AppendIncreasing
  <2> QED
    BY <2>5, <2>6, <2>7
<1>4. /\ Got' = Got /\ Waiting' = Waiting
      /\ Pooled' \subseteq Pooled \cup {n} /\ Pooled \subseteq Pooled'
      /\ DOMAIN pool # {} => n \in Pooled'
  BY <1>1, <1>3 DEF Got, Waiting, Pooled
<1>5. NothingVanishes'
  BY <1>1, <1>4 DEF NothingVanishes, Push
<1>6. /\ Got \subseteq Numbers /\ Waiting \subseteq Numbers /\ ToSet(handled) \subseteq Numbers
      /\ \A h \in DOMAIN queue : ToSet(queue[h]) \subseteq Waiting
  BY OnTheWay
<1>7. KeepsOrder'
  <2>1. Before(Got, Pooled') /\ Before(Waiting \cup ToSet(handled), Got \cup Pooled')
    BY <1>2, <1>4, <1>6 DEF KeepsOrder, Before
  <2>2. ASSUME NEW h \in DOMAIN queue
        PROVE  /\ Increasing(queue[h])
               /\ \A k \in ToSet(queue[h]) : items'[k].group = h
               /\ \A m \in ToSet(handled), k \in ToSet(queue[h]) : items'[m].group = h => m < k
    <3>1. \A k \in ToSet(queue[h]) \cup ToSet(handled) : items'[k] = items[k]
      BY <1>1, <1>6
    <3> QED
      BY <3>1 DEF KeepsOrder
  <2> QED
    BY <1>1, <1>3, <1>4, <2>1, <2>2 DEF KeepsOrder
<1>8. HandledInOrder'
  <2>1. \A i \in DOMAIN handled : items'[handled[i]] = items[handled[i]]
    BY <1>1, <1>6 DEF ToSet
  <2> QED
    BY <2>1 DEF HandledInOrder
<1> QED
  BY <1>5, <1>7, <1>8

LEMMA LinksFlow ==
    ASSUME TypeInv, FlowInv, NEW s \in Sessions,
           Connect(s) \/ CloseRefused(s) \/ ServerLoses(s) \/ Breaks(s)
    PROVE  FlowInv'
<1> USE DEF FlowInv
<1>1. CASE CloseRefused(s) \/ Breaks(s) \/ (Connect(s) /\ DOMAIN pool # {})
  BY <1>1, StandingStill DEF CloseRefused, Breaks, Connect, flowVars, workers
<1>2. CASE Connect(s) /\ DOMAIN pool = {}
  <2>1. /\ DOMAIN pool' = {s} /\ pool'[s] = <<>>
        /\ UNCHANGED <<items, call, queue, handled, lost>>
    BY <1>2 DEF Connect, workers
  <2>2. Pooled' = {} /\ Pooled = {} /\ Increasing(pool'[s])
    BY <1>2, <2>1, SetOfEmpty DEF Pooled
  <2>3. Numbers' = Numbers /\ Got' = Got /\ Waiting' = Waiting
    BY <2>1 DEF Numbers, Got, Waiting
  <2> QED
    BY <2>1, <2>2, <2>3 DEF NothingVanishes, KeepsOrder, HandledInOrder, Before
<1>3. CASE ServerLoses(s)
  <2>1. /\ DOMAIN pool' = DOMAIN pool \ {s}
        /\ \A q \in DOMAIN pool' : pool'[q] = pool[q]
        /\ UNCHANGED <<items, call, queue, handled>>
        /\ lost' = lost \cup IF s \in DOMAIN pool THEN ToSet(pool[s]) ELSE {}
    BY <1>3 DEF ServerLoses, workers
  <2>2. /\ Pooled' \subseteq Pooled
        /\ Pooled = Pooled' \cup IF s \in DOMAIN pool THEN ToSet(pool[s]) ELSE {}
    BY <2>1 DEF Pooled
  <2>3. Numbers' = Numbers /\ Got' = Got /\ Waiting' = Waiting
    BY <2>1 DEF Numbers, Got, Waiting
  <2>4. NothingVanishes'
    BY <2>1, <2>2, <2>3 DEF NothingVanishes
  <2> QED
    BY <2>1, <2>2, <2>3, <2>4 DEF KeepsOrder, HandledInOrder, Before
<1> QED
  BY <1>1, <1>2, <1>3

\* There is no other pool than the one that is handed over.
LEMMA ServeFlows ==
    ASSUME TypeInv, FlowInv, NEW s \in Sessions, Serve(s)
    PROVE  FlowInv'
<1> USE DEF FlowInv
<1>1. /\ call.got = <<0>> /\ UNCHANGED <<items, queue, handled, lost>>
      /\ DOMAIN pool' = DOMAIN pool
      /\ \A q \in DOMAIN pool : pool'[q] = IF q = s THEN <<>> ELSE pool[q]
      /\ call'.got = IF s \in DOMAIN pool THEN pool[s] ELSE <<>>
  BY DEF Serve, Asked, workers, TypeInv, Shapes
<1>2. Got = {} /\ Numbers' = Numbers /\ Waiting' = Waiting
  BY <1>1 DEF Got, ToSet, Numbers, Waiting
<1>3. CASE s \in DOMAIN pool
  <2>1. DOMAIN pool = {s}
    BY <1>3 DEF TypeInv, PoolIsUsed
  <2>2. Pooled = ToSet(pool[s]) /\ Pooled' = {} /\ Increasing(pool'[s])
    BY <1>1, <2>1, SetOfEmpty DEF Pooled
  <2>3. 0 \notin ToSet(pool[s])
    BY <2>2, OnTheWay
  <2>4. Got' = Pooled
    BY <1>1, <1>3, <2>2, <2>3 DEF Got
  <2>5. Increasing(call'.got)
    BY <1>1, <1>3 DEF KeepsOrder
  <2> QED
    BY <1>1, <1>2, <2>1, <2>2, <2>4, <2>5 DEF NothingVanishes, KeepsOrder, HandledInOrder, Before
<1>4. CASE s \notin DOMAIN pool
  <2>1. Pooled' = Pooled /\ Got' = {} /\ Increasing(call'.got)
    BY <1>1, <1>4, SetOfEmpty DEF Pooled, Got
  <2>2. \A q \in DOMAIN pool : pool'[q] = pool[q]
    BY <1>1, <1>4
  <2> QED
    BY <1>1, <1>2, <2>1, <2>2 DEF NothingVanishes, KeepsOrder, HandledInOrder, Before
<1> QED
  BY <1>3, <1>4

\* What a group gets is behind what its queue holds, and behind what it handled.
LEMMA AnsweredFlows ==
    ASSUME TypeInv, FlowInv, Answered
    PROVE  FlowInv'
<1> USE DEF FlowInv
<1> DEFINE got == call.got
<1>1. /\ UNCHANGED <<items, pool, handled, lost>>
      /\ call # Asked(call.on) /\ queue' = Queued(got) /\ call' = NoCall
  BY DEF Answered, rpc
<1>2. Increasing(got)
  BY DEF KeepsOrder
<1>3. /\ got \in Seq(Numbers)
      /\ DOMAIN queue \subseteq DOMAIN queue'
      /\ \A n \in ToSet(got) : items[n].group \in DOMAIN queue'
      /\ \A g \in DOMAIN queue' :
            /\ QueueOf(g) \in Seq(Numbers) /\ OfGroup(g, got) \in Seq(Numbers)
            /\ queue'[g] = QueueOf(g) \o OfGroup(g, got)
            /\ ToSet(queue'[g]) = ToSet(QueueOf(g)) \cup ToSet(OfGroup(g, got))
            /\ ToSet(OfGroup(g, got)) = {n \in ToSet(got) : items[n].group = g}
            /\ Increasing(OfGroup(g, got))
  BY <1>1, <1>2, QueuedHolds
<1>4. Got = ToSet(got) /\ Got' = {} /\ Increasing(call'.got)
  <2>1. 0 \notin ToSet(got)
    BY <1>3, ElementOfSeq, LenProperties DEF ToSet, Numbers
  <2> QED
    BY <1>1, <2>1, SetOfEmpty DEF Got, NoCall
<1> HIDE DEF got
<1>5. \A g : ToSet(QueueOf(g)) = (IF g \in DOMAIN queue THEN ToSet(queue[g]) ELSE {})
  BY SetOfEmpty DEF QueueOf
<1>6. Waiting' = Waiting \cup Got
  <2>1. Waiting' \subseteq Waiting \cup Got
    BY <1>3, <1>4, <1>5 DEF Waiting
  <2>2. Waiting \subseteq Waiting'
    BY <1>3, <1>5 DEF Waiting
  <2>3. Got \subseteq Waiting'
    BY <1>3, <1>4, SMTT(30) DEF Waiting
  <2> QED
    BY <2>1, <2>2, <2>3
<1>7. Pooled' = Pooled /\ Numbers' = Numbers
  BY <1>1 DEF Pooled, Numbers
<1>8. ASSUME NEW g \in DOMAIN queue'
      PROVE  /\ Increasing(queue'[g])
             /\ \A n \in ToSet(queue'[g]) : items[n].group = g
             /\ \A m \in ToSet(handled), n \in ToSet(queue'[g]) : items[m].group = g => m < n
  <2>1. Numbers \subseteq Int
    BY DEF Numbers
  <2>2. QueueOf(g) \in Seq(Int) /\ OfGroup(g, got) \in Seq(Int)
    BY <1>3, <2>1, SeqMonotonic
  <2>3. ToSet(QueueOf(g)) \subseteq Waiting
    BY <1>5 DEF Waiting
  <2>4. \A m \in ToSet(QueueOf(g)) \cup ToSet(handled), n \in ToSet(OfGroup(g, got)) : m < n
    BY <1>3, <1>4, <2>3 DEF KeepsOrder, Before
  <2>5. Increasing(QueueOf(g))
    BY SetOfEmpty DEF KeepsOrder, QueueOf
  <2>6. Increasing(queue'[g])
    BY <1>3, <2>2, <2>4, <2>5, ConcatIncreasing
  <2>7. \A n \in ToSet(queue'[g]) : items[n].group = g
    BY <1>3, <1>5, SMTT(30) DEF KeepsOrder
  <2>8. \A m \in ToSet(handled), n \in ToSet(queue'[g]) : items[m].group = g => m < n
    <3>1. ASSUME NEW m \in ToSet(handled), items[m].group = g, NEW n \in ToSet(QueueOf(g))
          PROVE  m < n
      BY <1>5, <3>1 DEF KeepsOrder
    <3> QED
      BY <1>3, <2>4, <3>1
  <2> QED
    BY <2>6, <2>7, <2>8
<1> QED
  BY <1>1, <1>4, <1>6, <1>7, <1>8 DEF NothingVanishes, KeepsOrder, HandledInOrder, Before

LEMMA CallEndsFlow ==
    ASSUME TypeInv, FlowInv, Poll \/ CallFails
    PROVE  FlowInv'
<1> USE DEF FlowInv
<1>1. UNCHANGED <<items, pool, queue, handled>>
  BY DEF Poll, CallFails, workers
<1>2. Numbers' = Numbers /\ Pooled' = Pooled /\ Waiting' = Waiting
  BY <1>1 DEF Numbers, Pooled, Waiting
<1>3. CASE Poll
  <2>1. CASE UNCHANGED call
    BY <1>1, <1>3, <2>1, StandingStill DEF Poll, flowVars
  <2>2. CASE call = NoCall /\ call' = Asked(client)
    <3>1. Got = {} /\ Got' = {} /\ Increasing(call'.got) /\ lost' = lost
      BY <1>3, <2>2 DEF Poll, Got, NoCall, Asked, ToSet, Increasing
    <3> QED
      BY <1>1, <1>2, <3>1 DEF NothingVanishes, KeepsOrder, HandledInOrder, Before
  <2> QED
    BY <1>3, <2>1, <2>2 DEF Poll
<1>4. CASE CallFails
  <2>1. Got' = {} /\ lost' = lost \cup Got /\ Increasing(call'.got)
    BY <1>4, SetOfEmpty DEF CallFails, Got, NoCall
  <2> QED
    BY <1>1, <1>2, <2>1 DEF NothingVanishes, KeepsOrder, HandledInOrder, Before
<1> QED
  BY <1>3, <1>4

\* A worker takes the first of its queue, which is behind all its group handled.
LEMMA TakeFlows ==
    ASSUME TypeInv, FlowInv, NEW g \in Groups, Take(g)
    PROVE  FlowInv'
<1> USE DEF FlowInv
<1> DEFINE n == Head(queue[g])
<1>1. /\ UNCHANGED <<items, pool, call, lost>>
      /\ g \in DOMAIN queue /\ queue[g] # <<>>
      /\ DOMAIN queue' = DOMAIN queue
      /\ \A h \in DOMAIN queue : queue'[h] = IF h = g THEN Tail(queue[g]) ELSE queue[h]
      /\ handled' = Append(handled, n)
  BY DEF Take, TypeInv, Shapes
<1>2. queue[g] \in Seq(Numbers) /\ handled \in Seq(Numbers) /\ Increasing(queue[g])
  BY <1>1 DEF TypeInv, Shapes, KeepsOrder
<1>3. /\ n \in Numbers
      /\ ToSet(queue[g]) = {n} \cup ToSet(queue'[g])
      /\ \A k \in ToSet(queue'[g]) : n < k
      /\ Increasing(queue'[g])
      /\ ToSet(handled') = ToSet(handled) \cup {n}
  <2>1. queue'[g] = Tail(queue[g])
    BY <1>1
  <2>2. /\ n \in Numbers
        /\ ToSet(queue[g]) = {n} \cup ToSet(Tail(queue[g]))
        /\ \A k \in ToSet(Tail(queue[g])) : n < k
        /\ Increasing(Tail(queue[g]))
    BY <1>1, <1>2, SetOfTail
  <2> HIDE DEF n
  <2>3. ToSet(Append(handled, n)) = ToSet(handled) \cup {n}
    BY <1>2, <2>2, SetOfAppend
  <2> QED
    BY <1>1, <2>1, <2>2, <2>3
<1>4. /\ DOMAIN handled = 1 .. Len(handled) /\ Len(handled) \in Nat
      /\ DOMAIN handled' = 1 .. Len(handled) + 1
      /\ \A i \in 1 .. Len(handled) : handled'[i] = handled[i] /\ handled[i] \in ToSet(handled)
      /\ handled'[Len(handled) + 1] = n
  BY <1>1, <1>2, <1>3, AppendProperties, LenProperties DEF ToSet
<1>5. n \in Waiting /\ items[n].group = g
      /\ \A m \in ToSet(handled) : items[m].group = g => m < n
  BY <1>1, <1>3 DEF Waiting, KeepsOrder
<1> HIDE DEF n
<1>6. /\ Numbers' = Numbers /\ Got' = Got /\ Pooled' = Pooled
      /\ Waiting' \subseteq Waiting /\ Waiting \subseteq Waiting' \cup {n}
  BY <1>1, <1>3 DEF Numbers, Got, Pooled, Waiting
<1>7. NothingVanishes'
  BY <1>1, <1>3, <1>5, <1>6 DEF NothingVanishes
<1>8. ASSUME NEW h \in DOMAIN queue'
      PROVE  /\ Increasing(queue'[h])
             /\ \A k \in ToSet(queue'[h]) : items[k].group = h
             /\ \A m \in ToSet(handled'), k \in ToSet(queue'[h]) : items[m].group = h => m < k
  <2>1. CASE h = g
    BY <1>1, <1>3, <1>5, <2>1 DEF KeepsOrder
  <2>2. CASE h # g
    BY <1>1, <1>3, <1>5, <2>2 DEF KeepsOrder
  <2> QED
    BY <2>1, <2>2
<1>9. KeepsOrder'
  <2>1. Before(Got, Pooled) /\ Before(Waiting' \cup ToSet(handled'), Got \cup Pooled)
    BY <1>3, <1>5, <1>6 DEF KeepsOrder, Before
  <2> QED
    BY <1>1, <1>6, <1>8, <2>1 DEF KeepsOrder
<1>10. HandledInOrder'
  <2>1. ASSUME NEW i \in DOMAIN handled', NEW j \in DOMAIN handled', i < j,
               items[handled'[i]].group = items[handled'[j]].group
        PROVE  handled'[i] < handled'[j]
    <3>1. CASE j = Len(handled) + 1
      <4>1. i \in 1 .. Len(handled)
        BY <1>4, <2>1, <3>1
      <4> QED
        BY <1>4, <1>5, <2>1, <3>1, <4>1
    <3>2. CASE j # Len(handled) + 1
      <4>1. i \in 1 .. Len(handled) /\ j \in 1 .. Len(handled)
        BY <1>4, <2>1, <3>2
      <4> QED
        BY <1>4, <2>1, <4>1 DEF HandledInOrder
    <3> QED
      BY <3>1, <3>2
  <2> QED
    BY <1>1, <2>1 DEF HandledInOrder
<1> QED
  BY <1>7, <1>9, <1>10

LEMMA WorkersFlow ==
    ASSUME TypeInv, FlowInv,
           Restart \/ \E g \in Groups : Take(g) \/ ChatEnds(g) \/ Retire(g)
    PROVE  FlowInv'
<1> USE DEF FlowInv
<1>1. CASE Restart
  <2>1. /\ UNCHANGED <<items, pool, handled>>
        /\ DOMAIN queue' = {} /\ lost' = lost \cup Got \cup Waiting
        /\ Got' = {} /\ Increasing(call'.got)
    BY <1>1, SetOfEmpty DEF Restart, Got, Waiting, NoCall
  <2>2. Numbers' = Numbers /\ Pooled' = Pooled /\ Waiting' = {}
    BY <2>1 DEF Numbers, Pooled, Waiting
  <2> QED
    BY <2>1, <2>2 DEF NothingVanishes, KeepsOrder, HandledInOrder, Before
<1>2. ASSUME NEW g \in Groups, ChatEnds(g) PROVE FlowInv'
  BY <1>2, StandingStill DEF ChatEnds, flowVars
<1>3. ASSUME NEW g \in Groups, Retire(g) PROVE FlowInv'
  <2>1. /\ UNCHANGED <<items, pool, call, handled>>
        /\ g \in DOMAIN queue /\ DOMAIN queue' = DOMAIN queue \ {g}
        /\ \A h \in DOMAIN queue' : queue'[h] = queue[h]
        /\ lost' = lost \cup ToSet(queue[g])
    BY <1>3 DEF Retire
  <2>2. /\ Numbers' = Numbers /\ Pooled' = Pooled /\ Got' = Got
        /\ Waiting' \subseteq Waiting /\ Waiting = Waiting' \cup ToSet(queue[g])
    BY <2>1 DEF Numbers, Pooled, Got, Waiting
  <2> QED
    BY <2>1, <2>2 DEF NothingVanishes, KeepsOrder, HandledInOrder, Before
<1> QED
  BY <1>1, <1>2, <1>3, TakeFlows

----------------------------------------------------------------------------
(* The invariant holds in every state.                                     *)

LEMMA NextKeepsOrder == TypeInv /\ FlowInv /\ [Next]_vars => (TypeInv /\ FlowInv)'
<1> SUFFICES ASSUME TypeInv, FlowInv, [Next]_vars
             PROVE  (TypeInv /\ FlowInv)'
  OBVIOUS
<1>1. CASE \/ \E g \in Groups : NewMessage(g) \/ Switch(g)
           \/ \E sig \in Sigs, ts \in (clock - MaxLag)..clock : Notice(sig, ts)
           \/ \E e \in naming : Named(e)
           \/ Tick
  <2>1. TypeInv'
    BY <1>1, PluginIsTyped
  <2>2. ASSUME NEW g \in Groups, NewMessage(g) PROVE FlowInv'
    <3>1. NoSig \in Sigs \cup {NoSig} /\ 0 \in Int
      OBVIOUS
    <3> QED
      BY <2>2, <3>1, PushFlows DEF NewMessage
  <2>3. ASSUME NEW e \in naming, Named(e) PROVE FlowInv'
    <3>1. e[1] \in Int /\ e[2] \in Sigs \cup {NoSig} /\ GroupOf[e[2]] \in Groups
      BY FeedAssumption DEF TypeInv, Shapes
    <3> QED
      BY <2>3, <3>1, PushFlows DEF Named
  <2>4. ASSUME UNCHANGED flowVars PROVE FlowInv'
    BY <2>4, StandingStill
  <2> QED
    BY <1>1, <2>1, <2>2, <2>3, <2>4 DEF Switch, Notice, Tick, flowVars, workers
<1>2. ASSUME NEW s \in Sessions,
             Connect(s) \/ CloseRefused(s) \/ ServerLoses(s) \/ Breaks(s)
      PROVE  (TypeInv /\ FlowInv)'
  BY <1>2, LinksAreTyped, LinksFlow
<1>3. CASE Poll \/ Answered \/ CallFails \/ \E s \in Sessions : Serve(s)
  <2>1. Increasing(call.got)
    BY DEF FlowInv, KeepsOrder
  <2> QED
    BY <1>3, <2>1, CallsAreTyped, AnsweredFlows, CallEndsFlow, ServeFlows
<1>4. CASE Restart \/ \E g \in Groups : Take(g) \/ ChatEnds(g) \/ Retire(g)
  BY <1>4, WorkersAreTyped, WorkersFlow
<1>5. CASE UNCHANGED vars
  <2>1. UNCHANGED flowVars
    BY <1>5 DEF vars, flowVars, workers
  <2> QED
    BY <1>5, <2>1, StandingStill
       DEF TypeInv, TypeOK, Shapes, PoolIsUsed, Numbers, vars, plugin, rpc, workers
<1> QED
  BY <1>1, <1>2, <1>3, <1>4, <1>5 DEF Next, Service, Server

LEMMA FlowsAlways == Spec => [](TypeInv /\ FlowInv)
<1>1. Init => TypeInv /\ FlowInv
  BY InitIsTyped, InitFlows
<1> QED
  BY <1>1, NextKeepsOrder, PTL DEF Spec

\* Types are kept, by the plugin, its connections and the service.
THEOREM FeedTypeCorrect == Spec => []TypeOK
<1>1. TypeInv /\ FlowInv => TypeOK
  BY DEF TypeInv
<1> QED
  BY <1>1, FlowsAlways, PTL

\* At any time one session at most has a pool.
THEOREM OnePoolAlways == Spec => []OnePool
<1>1. TypeInv /\ FlowInv => OnePool
  <2> SUFFICES ASSUME TypeInv PROVE OnePool
    OBVIOUS
  <2>1. CASE DOMAIN pool = {}
    BY <2>1, FS_EmptySet DEF OnePool
  <2>2. ASSUME NEW s \in DOMAIN pool PROVE OnePool
    <3>1. DOMAIN pool = {s}
      BY DEF TypeInv, PoolIsUsed
    <3>2. Cardinality({s}) = 1
      BY FS_Singleton
    <3> QED
      BY <3>1, <3>2 DEF OnePool
  <2> QED
    BY <2>1, <2>2
<1> QED
  BY <1>1, FlowsAlways, PTL

\* What is pushed is on its way, handled, or lost to a fault, for any number of
\* sessions, groups, messages and faults.
THEOREM NothingEverVanishes == Spec => []NothingVanishes
<1>1. TypeInv /\ FlowInv => NothingVanishes
  BY DEF FlowInv
<1> QED
  BY <1>1, FlowsAlways, PTL

\* Each group sees what was pushed for it in order, and nothing twice, over all
\* reconnections, failed calls and restarts.
THEOREM HandledAlwaysInOrder == Spec => []HandledInOrder
<1>1. TypeInv /\ FlowInv => HandledInOrder
  BY DEF FlowInv
<1> QED
  BY <1>1, FlowsAlways, PTL

----------------------------------------------------------------------------
(* Notices.                                                                *)

\* The key a notice is marked with.
KeyOf(n) == <<items[n].ts, items[n].sig>>

MarksInv == MarksAreKept /\ NoticesApart
markVars == <<clock, recent, naming, items>>

LEMMA InitMarks == Init => MarksInv
<1> SUFFICES ASSUME Init PROVE MarksInv
  OBVIOUS
<1>1. Numbers = {} /\ Marked = {} /\ recent = {}
  BY DEF Init, Numbers, Marked
<1> QED
  BY <1>1 DEF MarksInv, MarksAreKept, NoticesApart

\* Marks and clock are numbers.
LEMMA MarksAreTyped ==
    ASSUME TypeInv
    PROVE  /\ clock \in Int
           /\ \A k \in Marked \cup recent : k = <<k[1], k[2]>> /\ k[1] \in Int /\ k[2] \in Sigs
<1>1. clock \in Int
  BY FeedAssumption DEF TypeInv, TypeOK
<1>2. \A k \in naming \cup recent : k = <<k[1], k[2]>> /\ k[1] \in Int /\ k[2] \in Sigs
  BY DEF TypeInv, Shapes
<1>3. ASSUME NEW n \in Numbers, items[n].sig # NoSig
      PROVE  KeyOf(n)[1] \in Int /\ KeyOf(n)[2] \in Sigs /\ KeyOf(n) = <<KeyOf(n)[1], KeyOf(n)[2]>>
  <2>1. items[n] \in [group : Groups, sig : Sigs \cup {NoSig}, ts : Int]
    BY ElementOfSeq DEF Numbers, TypeInv, Shapes
  <2> QED
    BY <1>3, <2>1 DEF KeyOf
<1> QED
  BY <1>1, <1>2, <1>3 DEF Marked, KeyOf

\* A mark that is dropped is too old for any report that may still come.
LEMMA NoticeMarks ==
    ASSUME TypeInv, MarksInv, MaxLag <= KEEP - NEAR,
           NEW sig \in Sigs, NEW ts \in (clock - MaxLag)..clock, Notice(sig, ts)
    PROVE  MarksInv'
<1> USE DEF MarksInv
<1> DEFINE e == <<ts, sig>>
           kept == {k \in recent : Gap(k[1], ts) <= KEEP}
<1>1. /\ clock \in Int /\ MaxLag \in Nat /\ ts \in Int
      /\ ts <= clock /\ clock - MaxLag <= ts /\ MaxLag <= 1
      /\ UNCHANGED <<items, clock>>
  BY MarksAreTyped, FeedAssumption DEF Notice, KEEP, NEAR
<1>2. Numbers' = Numbers /\ (NoticesApart => NoticesApart')
  BY <1>1 DEF Numbers, NoticesApart
<1>3. \A k \in recent : k[1] \in Int /\ k[1] <= clock
  BY MarksAreTyped DEF MarksAreKept
<1>4. \A k \in recent : k \in kept \/ k[1] < clock - KEEP
  BY <1>1, <1>3 DEF Gap, KEEP
<1>5. \A k \in Marked : k \in kept \/ k[1] < clock - KEEP
  BY <1>4 DEF MarksAreKept
<1>6. CASE IsDup(sig, ts)
  <2>1. recent' = kept /\ naming' = naming
    BY <1>6 DEF Notice
  <2>2. Marked' = Marked
    BY <1>1, <1>2, <2>1 DEF Marked
  <2> QED
    BY <1>1, <1>2, <1>3, <1>5, <2>1, <2>2 DEF MarksAreKept
<1>7. CASE ~ IsDup(sig, ts)
  <2>1. recent' = kept \cup {e} /\ naming' = naming \cup {e}
    BY <1>7 DEF Notice
  <2>2. Marked' = Marked \cup {e}
    BY <1>1, <1>2, <2>1 DEF Marked
  <2>3. ASSUME NEW l \in Marked, l[2] = sig
        PROVE  Gap(l[1], ts) > NEAR /\ Gap(ts, l[1]) > NEAR
    <3>1. l[1] \in Int
      BY MarksAreTyped
    <3>2. CASE l \in recent
      BY <1>1, <1>7, <2>3, <3>1, <3>2 DEF IsDup, Gap, NEAR
    <3>3. CASE l[1] < clock - KEEP
      BY <1>1, <3>1, <3>3 DEF Gap, KEEP, NEAR
    <3> QED
      BY <3>2, <3>3 DEF MarksAreKept
  <2>4. e \notin Marked
    BY <1>1, <2>3 DEF Gap, NEAR
  <2>5. \A k \in Marked' : k \in recent' \/ k[1] < clock' - KEEP
    BY <1>1, <1>5, <2>1, <2>2
  <2>6. \A k \in recent' : k[1] <= clock'
    BY <1>1, <1>3, <2>1
  <2>7. \A k, l \in Marked' : k # l /\ k[2] = l[2] => Gap(k[1], l[1]) > NEAR
    BY <2>2, <2>3 DEF MarksAreKept
  <2>8. \A n \in Numbers' : items'[n].sig # NoSig => <<items'[n].ts, items'[n].sig>> \notin naming'
    BY <1>1, <1>2, <2>1, <2>4 DEF MarksAreKept, Marked
  <2> QED
    BY <1>2, <2>5, <2>6, <2>7, <2>8 DEF MarksAreKept
<1> QED
  BY <1>6, <1>7

\* A notice that is named takes its mark along.
LEMMA NamedMarks ==
    ASSUME TypeInv, MarksInv, NEW e \in naming, Named(e)
    PROVE  MarksInv'
<1> USE DEF MarksInv
<1> DEFINE n == Len(items) + 1
<1>1. e = <<e[1], e[2]>> /\ e[1] \in Int /\ e[2] \in Sigs /\ GroupOf[e[2]] \in Groups
  BY MarksAreTyped, FeedAssumption DEF Marked
<1>2. /\ Numbers' = Numbers \cup {n} /\ Numbers = 1 .. Len(items) /\ n \notin Numbers
      /\ \A i \in Numbers : items'[i] = items[i]
      /\ items'[n].ts = e[1] /\ items'[n].sig = e[2] /\ e[2] # NoSig
      /\ UNCHANGED <<clock, recent>> /\ naming' = naming \ {e}
  BY <1>1, PushAppends, FeedAssumption DEF Named
<1> HIDE DEF n
<1>3. Marked' = Marked
  <2>1. ASSUME NEW i \in Numbers', items'[i].sig # NoSig
        PROVE  <<items'[i].ts, items'[i].sig>> \in Marked
    <3>1. CASE i = n
      BY <1>1, <1>2, <3>1 DEF Marked
    <3>2. CASE i \in Numbers
      BY <1>2, <2>1, <3>2 DEF Marked
    <3> QED
      BY <1>2, <3>1, <3>2
  <2>2. Marked' \subseteq Marked
    BY <1>2, <2>1 DEF Marked
  <2>3. e \in Marked'
    BY <1>1, <1>2 DEF Marked
  <2>4. ASSUME NEW i \in Numbers, items[i].sig # NoSig
        PROVE  <<items[i].ts, items[i].sig>> \in Marked'
    BY <1>2, <2>4 DEF Marked
  <2>5. naming \subseteq Marked'
    BY <1>2, <2>3 DEF Marked
  <2>6. Marked \subseteq Marked'
    BY <2>4, <2>5 DEF Marked
  <2> QED
    BY <2>2, <2>6
<1>4. ASSUME NEW i \in Numbers, items[i].sig # NoSig
      PROVE  KeyOf(i) \in Marked /\ KeyOf(i) # e
  BY <1>4 DEF MarksAreKept, Marked, KeyOf
<1>5. MarksAreKept'
  <2>1. \A i \in Numbers' : items'[i].sig # NoSig => <<items'[i].ts, items'[i].sig>> \notin naming'
    BY <1>1, <1>2 DEF MarksAreKept
  <2> QED
    BY <1>2, <1>3, <2>1 DEF MarksAreKept
<1>6. ASSUME NEW i \in Numbers, items[i].sig = e[2]
      PROVE  Gap(items[i].ts, e[1]) > NEAR /\ Gap(e[1], items[i].ts) > NEAR
  <2>1. KeyOf(i) \in Marked /\ KeyOf(i) # e /\ e \in Marked
    BY <1>2, <1>4, <1>6 DEF Marked
  <2>2. KeyOf(i)[1] = items[i].ts /\ KeyOf(i)[2] = e[2]
    BY <1>6 DEF KeyOf
  <2> QED
    BY <2>1, <2>2 DEF MarksAreKept
<1>7. NoticesApart'
  <2>1. ASSUME NEW i \in Numbers', NEW j \in Numbers', i # j,
               items'[i].sig = items'[j].sig, items'[i].sig # NoSig
        PROVE  Gap(items'[i].ts, items'[j].ts) > NEAR
    <3>1. CASE i \in Numbers /\ j \in Numbers
      BY <1>2, <2>1, <3>1 DEF NoticesApart
    <3>2. CASE i = n \/ j = n
      BY <1>2, <1>6, <2>1, <3>2
    <3> QED
      BY <1>2, <3>1, <3>2
  <2> QED
    BY <2>1 DEF NoticesApart
<1> QED
  BY <1>5, <1>7

LEMMA NextKeepsMarks ==
    ASSUME MaxLag <= KEEP - NEAR
    PROVE  TypeInv /\ MarksInv /\ [Next]_vars => MarksInv'
<1> SUFFICES ASSUME TypeInv, MarksInv, [Next]_vars
             PROVE  MarksInv'
  OBVIOUS
<1> USE DEF MarksInv
<1>1. ASSUME NEW g \in Groups, NewMessage(g) PROVE MarksInv'
  <2> DEFINE n == Len(items) + 1
  <2>1. NoSig \in Sigs \cup {NoSig} /\ 0 \in Int
    OBVIOUS
  <2>2. /\ Numbers' = Numbers \cup {n}
        /\ \A i \in Numbers : items'[i] = items[i]
        /\ items'[n].sig = NoSig
        /\ UNCHANGED <<clock, recent, naming>>
    <3>1. Push([group |-> g, sig |-> NoSig, ts |-> 0])
      BY <1>1 DEF NewMessage
    <3>2. /\ Numbers' = Numbers \cup {n}
          /\ \A i \in Numbers : items'[i] = items[i]
          /\ items'[n] = [group |-> g, sig |-> NoSig, ts |-> 0]
      BY <2>1, <3>1, PushAppends
    <3> HIDE DEF n
    <3> QED
      BY <1>1, <3>2 DEF NewMessage, plugin
  <2> HIDE DEF n
  <2>3. Marked' = Marked
    <3>1. {i \in Numbers' : items'[i].sig # NoSig} = {i \in Numbers : items[i].sig # NoSig}
      BY <2>2
    <3> QED
      BY <2>2, <3>1 DEF Marked
  <2> QED
    BY <2>2, <2>3 DEF MarksAreKept, NoticesApart
<1>2. ASSUME NEW sig \in Sigs, NEW ts \in (clock - MaxLag)..clock, Notice(sig, ts) PROVE MarksInv'
  BY <1>2, NoticeMarks
<1>3. ASSUME NEW e \in naming, Named(e) PROVE MarksInv'
  BY <1>3, NamedMarks
<1>4. CASE Tick
  <2>1. /\ clock' = clock + 1 /\ clock \in Int
        /\ UNCHANGED <<recent, naming, items>>
        /\ \A k \in Marked \cup recent : k[1] \in Int
    BY <1>4, MarksAreTyped DEF Tick
  <2>2. Numbers' = Numbers /\ Marked' = Marked
    BY <2>1 DEF Numbers, Marked
  <2> QED
    BY <2>1, <2>2 DEF MarksAreKept, NoticesApart, KEEP
<1>5. ASSUME UNCHANGED markVars PROVE MarksInv'
  <2>1. UNCHANGED <<clock, recent, naming, items>>
    BY <1>5 DEF markVars
  <2>2. Numbers' = Numbers /\ Marked' = Marked
    BY <2>1 DEF Numbers, Marked
  <2> QED
    BY <2>1, <2>2 DEF MarksAreKept, NoticesApart
<1>6. ASSUME NEW g \in Groups, Switch(g) \/ Take(g) \/ ChatEnds(g) \/ Retire(g)
      PROVE  UNCHANGED markVars
  BY <1>6 DEF Switch, Take, ChatEnds, Retire, markVars, plugin
<1>7. ASSUME NEW s \in Sessions,
             Connect(s) \/ Serve(s) \/ CloseRefused(s) \/ ServerLoses(s) \/ Breaks(s)
      PROVE  UNCHANGED markVars
  BY <1>7 DEF Connect, Serve, CloseRefused, ServerLoses, Breaks, markVars, plugin
<1>8. CASE Poll \/ Answered \/ CallFails \/ Restart
  BY <1>5, <1>8 DEF Poll, Answered, CallFails, Restart, markVars, plugin
<1>9. CASE UNCHANGED vars
  BY <1>5, <1>9 DEF vars, markVars, plugin
<1> QED
  BY <1>1, <1>2, <1>3, <1>4, <1>5, <1>6, <1>7, <1>8, <1>9 DEF Next, Service, Server

\* A notice that is reported again is pushed once, as long as its reports come
\* within the time a mark outlives what it stands for.
THEOREM NoticesStayApart ==
    ASSUME MaxLag <= KEEP - NEAR
    PROVE  Spec => []NoticesApart
<1>1. Init => MarksInv
  BY InitMarks
<1>2. TypeInv /\ MarksInv /\ [Next]_vars => MarksInv'
  BY NextKeepsMarks
<1>3. MarksInv => NoticesApart
  BY DEF MarksInv
<1>4. TypeInv /\ FlowInv => TypeInv
  OBVIOUS
<1> QED
  BY <1>1, <1>2, <1>3, <1>4, FlowsAlways, PTL DEF Spec

\* The feed is sound whatever its instance, under the same condition on reports.
THEOREM FeedAlwaysSound ==
    ASSUME MaxLag <= KEEP - NEAR
    PROVE  Spec => []FeedIsSound
<1>1. TypeOK /\ OnePool /\ NothingVanishes /\ HandledInOrder /\ NoticesApart => FeedIsSound
  BY DEF FeedIsSound
<1> QED
  BY <1>1, FeedTypeCorrect, OnePoolAlways, NothingEverVanishes, HandledAlwaysInOrder,
     NoticesStayApart, PTL

=============================================================================
