---------------------------- MODULE GalleryProofs ----------------------------
(***************************************************************************)
(* Proofs about Gallery, for any number of galleries, names, uploads and   *)
(* commands: names find one gallery and uploads to one name take turns;    *)
(* with one handler at a time pids are given once and an undo removes its  *)
(* own pictures; without a reload a file has one picture, which is saved.  *)
(***************************************************************************)
EXTENDS Gallery, SequenceTheorems, FiniteSetTheorems, WellFoundedInduction, TLAPS

----------------------------------------------------------------------------
(* Parts of a sequence of pictures.                                        *)

\* Every set of natural numbers that is not empty has a least one.
LEMMA LeastNumber ==
    ASSUME NEW S \in SUBSET Nat, S # {}
    PROVE  \E n \in S : \A m \in S : n <= m
<1> DEFINE Less == OpToRel(<, Nat)
<1>1. \A m, n \in Nat : m < n => <<m, n>> \in Less
  BY DEF OpToRel
<1>2. IsWellFoundedOn(Less, Nat)
  BY NatLessThanWellFounded
<1> HIDE DEF Less
<1>3. PICK n \in S : \A m \in S : ~ (<<m, n>> \in Less)
  BY <1>2, WFMin
<1>4. \A m \in S : m \in Nat /\ n \in Nat /\ ~ (m < n)
  BY <1>1, <1>3
<1> QED
  BY <1>4

\* t has members of s, each at most once, as pictures that are left do.
PartOf(t, s) ==
    \E f \in [DOMAIN t -> DOMAIN s] :
        /\ \A i, j \in DOMAIN t : f[i] = f[j] => i = j
        /\ \A i \in DOMAIN t : t[i] = s[f[i]]

LEMMA PartOfItself == \A s : PartOf(s, s)
<1> SUFFICES ASSUME NEW s PROVE PartOf(s, s)
  OBVIOUS
<1> DEFINE f == [i \in DOMAIN s |-> i]
<1>1. f \in [DOMAIN s -> DOMAIN s]
  OBVIOUS
<1>2. \A i \in DOMAIN s : f[i] = i
  OBVIOUS
<1> HIDE DEF f
<1> QED
  BY <1>1, <1>2 DEF PartOf

LEMMA NothingIsPart == \A s : PartOf(<<>>, s)
<1> SUFFICES ASSUME NEW s PROVE PartOf(<<>>, s)
  OBVIOUS
<1> DEFINE f == [i \in DOMAIN <<>> |-> i]
<1>1. DOMAIN <<>> = {}
  OBVIOUS
<1>2. f \in [DOMAIN <<>> -> DOMAIN s]
  BY <1>1
<1> HIDE DEF f
<1> QED
  BY <1>1, <1>2 DEF PartOf

\* A sequence without its k-th member.
Without(s, k) == SubSeq(s, 1, k - 1) \o SubSeq(s, k + 1, Len(s))

LEMMA WithoutIsDefined ==
    ASSUME NEW S, NEW s \in Seq(S), NEW k \in 1 .. Len(s)
    PROVE  /\ Without(s, k) \in Seq(S)
           /\ DOMAIN s = 1 .. Len(s) /\ Len(s) \in Nat
           /\ DOMAIN Without(s, k) = 1 .. Len(s) - 1
           /\ \A i \in 1 .. Len(s) - 1 :
                 Without(s, k)[i] = IF i < k THEN s[i] ELSE s[i + 1]
<1> DEFINE t == SubSeq(s, 1, k - 1)
           u == SubSeq(s, k + 1, Len(s))
<1>1. Len(s) \in Nat /\ DOMAIN s = 1 .. Len(s)
  BY LenProperties
<1>2. /\ t \in Seq(S) /\ Len(t) = k - 1
      /\ \A i \in 1 .. k - 1 : t[i] = s[i]
  <2>1. \A i \in 1 .. k - 1 : s[i] \in S
    BY <1>1, ElementOfSeq
  <2>2. 1 \in Int /\ k - 1 \in Int
    BY <1>1
  <2> QED
    BY <1>1, <2>1, <2>2, SubSeqProperties
<1>3. /\ u \in Seq(S) /\ Len(u) = Len(s) - k
      /\ \A i \in 1 .. Len(s) - k : u[i] = s[k + i]
  <2>1. \A i \in k + 1 .. Len(s) : s[i] \in S
    BY <1>1, ElementOfSeq
  <2>2. k + 1 \in Int /\ Len(s) \in Int
    BY <1>1
  <2>3. /\ u \in Seq(S)
        /\ Len(u) = IF k + 1 <= Len(s) THEN Len(s) - (k + 1) + 1 ELSE 0
        /\ \A i \in 1 .. Len(s) - (k + 1) + 1 : u[i] = s[(k + 1) + i - 1]
    BY <2>1, <2>2, SubSeqProperties
  <2>4. \A i \in 1 .. Len(s) - k :
           i \in 1 .. Len(s) - (k + 1) + 1 /\ (k + 1) + i - 1 = k + i
    BY <1>1
  <2>5. Len(u) = Len(s) - k
    <3>1. CASE k + 1 <= Len(s)
      BY <1>1, <2>3, <3>1
    <3>2. CASE k = Len(s)
      <4>1. ~ (k + 1 <= Len(s)) /\ Len(s) - k = 0
        BY <1>1, <3>2
      <4> QED
        BY <2>3, <4>1
    <3>3. \A n \in Nat : \A m \in 1 .. n : m + 1 <= n \/ m = n
      OBVIOUS
    <3>4. Len(s) \in Nat
      BY <1>1
    <3> QED
      BY <3>1, <3>2, <3>3, <3>4
  <2> HIDE DEF u
  <2> QED
    BY <2>3, <2>4, <2>5
<1> HIDE DEF t, u
<1>4. /\ t \o u \in Seq(S)
      /\ Len(t \o u) = Len(t) + Len(u)
      /\ \A i \in 1 .. Len(t) + Len(u) :
            (t \o u)[i] = IF i <= Len(t) THEN t[i] ELSE u[i - Len(t)]
  BY <1>2, <1>3, ConcatProperties
<1>5. Len(t) + Len(u) = Len(s) - 1
  BY <1>1, <1>2, <1>3
<1>6. DOMAIN (t \o u) = 1 .. Len(s) - 1
  BY <1>4, <1>5, LenProperties
<1>7. ASSUME NEW i \in 1 .. Len(s) - 1
      PROVE  (t \o u)[i] = IF i < k THEN s[i] ELSE s[i + 1]
  <2>1. CASE i < k
    <3>1. i \in 1 .. k - 1 /\ i <= Len(t) /\ i \in 1 .. Len(t) + Len(u)
      BY <1>1, <1>2, <1>5, <2>1
    <3> QED
      BY <1>2, <1>4, <2>1, <3>1
  <2>2. CASE ~ (i < k)
    <3>1. /\ i - (k - 1) \in 1 .. Len(s) - k /\ ~ (i <= Len(t))
          /\ k + (i - (k - 1)) = i + 1 /\ i \in 1 .. Len(t) + Len(u)
      BY <1>1, <1>2, <1>5, <2>2
    <3> QED
      BY <1>2, <1>3, <1>4, <2>2, <3>1
  <2> QED
    BY <2>1, <2>2
<1>8. Without(s, k) = t \o u
  BY DEF Without, t, u
<1> QED
  BY <1>1, <1>4, <1>6, <1>7, <1>8

\* Its members are the others.
LEMMA WithoutIsPart ==
    ASSUME NEW S, NEW s \in Seq(S), NEW k \in 1 .. Len(s)
    PROVE  /\ Without(s, k) \in Seq(S)
           /\ PartOf(Without(s, k), s)
           /\ \A i \in DOMAIN Without(s, k) :
                 \E j \in DOMAIN s : j # k /\ Without(s, k)[i] = s[j]
           /\ \A j \in DOMAIN s : j # k =>
                 \E i \in DOMAIN Without(s, k) : Without(s, k)[i] = s[j]
<1> DEFINE w == Without(s, k)
           n == Len(s)
           f == [i \in DOMAIN w |-> IF i < k THEN i ELSE i + 1]
<1>1. /\ w \in Seq(S) /\ DOMAIN s = 1 .. n /\ n \in Nat /\ DOMAIN w = 1 .. n - 1
      /\ \A i \in 1 .. n - 1 : w[i] = IF i < k THEN s[i] ELSE s[i + 1]
  BY WithoutIsDefined
<1> HIDE DEF w, n
<1>2. k \in 1 .. n
  BY DEF n
<1>3. \A i \in DOMAIN w : f[i] \in DOMAIN s /\ f[i] # k /\ w[i] = s[f[i]]
  BY <1>1, <1>2
<1>4. \A i, j \in DOMAIN w : f[i] = f[j] => i = j
  BY <1>1, <1>2
<1>5. f \in [DOMAIN w -> DOMAIN s]
  BY <1>3
<1>6. ASSUME NEW j \in DOMAIN s, j # k
      PROVE  \E i \in DOMAIN w : w[i] = s[j]
  <2>1. CASE j < k
    <3>1. j \in DOMAIN w /\ w[j] = s[j]
      BY <1>1, <1>2, <2>1
    <3> QED
      BY <3>1
  <2>2. CASE k < j
    <3>1. j - 1 \in DOMAIN w /\ w[j - 1] = s[j]
      BY <1>1, <1>2, <2>2
    <3> QED
      BY <3>1
  <2> QED
    BY <1>1, <1>2, <1>6, <2>1, <2>2
<1> HIDE DEF f
<1>7. PartOf(w, s)
  BY <1>3, <1>4, <1>5 DEF PartOf
<1> QED
  BY <1>1, <1>3, <1>6, <1>7 DEF w

\* The recursive function that OnDisk is defined by exists.
LEMMA OnDiskIsDefined ==
    ASSUME NEW S, NEW s \in Seq(S)
    PROVE  \E f : /\ OnDisk(s) = f[Len(s)]
                  /\ f[0] = <<>>
                  /\ \A k \in 1 .. Len(s) :
                        f[k] = IF s[k].file \in files THEN Append(f[k - 1], s[k]) ELSE f[k - 1]
<1> DEFINE N == Len(s)
           upTo[k \in 0 .. N] ==
               IF k = 0 THEN <<>>
               ELSE IF s[k].file \in files THEN Append(upTo[k - 1], s[k]) ELSE upTo[k - 1]
           Grown(f, k) == IF s[k].file \in files THEN Append(f[k - 1], s[k]) ELSE f[k - 1]
           Is(f, n) == f = [k \in 0 .. n |-> IF k = 0 THEN <<>> ELSE Grown(f, k)]
           Bad == {n \in 0 .. N : ~ \E f : Is(f, n)}
<1>1. N \in Nat
  BY LenProperties
<1>2. Bad = {}
  <2> SUFFICES ASSUME Bad # {} PROVE FALSE
    OBVIOUS
  <2>1. PICK n \in Bad : \A m \in Bad : n <= m
    <3>1. Bad \in SUBSET Nat
      BY <1>1
    <3> HIDE DEF Bad
    <3> QED
      BY <3>1, LeastNumber
  <2>2. n # 0
    <3> DEFINE f == [k \in 0 .. 0 |-> <<>>]
    <3>1. Is(f, 0)
      OBVIOUS
    <3> QED
      BY <3>1
  <2>3. n \in 1 .. N
    BY <1>1, <2>1, <2>2
  <2>4. PICK f : Is(f, n - 1)
    <3>1. n - 1 \in 0 .. N /\ ~ (n <= n - 1)
      BY <1>1, <2>3
    <3>2. n - 1 \notin Bad
      <4> HIDE DEF Bad
      <4> QED
        BY <2>1, <3>1
    <3> HIDE DEF Is
    <3> QED
      BY <3>1, <3>2
  <2> DEFINE g == [k \in 0 .. n |-> IF k = n THEN Grown(f, n) ELSE f[k]]
  <2>5. \A k \in 0 .. n : g[k] = IF k = 0 THEN <<>> ELSE Grown(g, k)
    <3>1. \A k \in 0 .. n - 1 : g[k] = f[k] /\ f[k] = IF k = 0 THEN <<>> ELSE Grown(f, k)
      <4> HIDE DEF Grown
      <4>1. \A k \in 0 .. n - 1 : f[k] = IF k = 0 THEN <<>> ELSE Grown(f, k)
        BY <2>4
      <4>2. \A k \in 0 .. n - 1 : k \in 0 .. n /\ k # n
        BY <2>3
      <4> QED
        BY <4>1, <4>2
    <3>2. \A k \in 1 .. n : g[k - 1] = f[k - 1]
      BY <2>3
    <3>3. \A k \in 1 .. n : Grown(g, k) = Grown(f, k)
      BY <3>2
    <3>4. g[n] = Grown(f, n)
      BY <2>3
    <3>5. \A k \in 0 .. n : k = n \/ k \in 0 .. n - 1
      BY <2>3
    <3>6. \A k \in 0 .. n : k = 0 \/ k \in 1 .. n
      BY <2>3
    <3> HIDE DEF g, Grown
    <3> QED
      BY <2>2, <3>1, <3>3, <3>4, <3>5, <3>6
  <2>6. Is(g, n)
    <3>1. g = [k \in 0 .. n |-> g[k]]
      OBVIOUS
    <3> HIDE DEF g, Grown
    <3> QED
      BY <2>5, <3>1
  <2> QED
    BY <2>1, <2>6
<1>3. PICK f : Is(f, N)
  <2> HIDE DEF Is
  <2> QED
    BY <1>1, <1>2
<1>4. upTo = [k \in 0 .. N |-> IF k = 0 THEN <<>> ELSE Grown(upTo, k)]
  BY <1>3, Zenon
<1>5. OnDisk(s) = upTo[N]
  BY Zenon DEF OnDisk
<1> HIDE DEF upTo
<1>6. upTo[0] = <<>>
  BY <1>1, <1>4
<1>7. \A k \in 1 .. N : upTo[k] = Grown(upTo, k)
  <2>1. \A k \in 1 .. N : k \in 0 .. N /\ k # 0
    BY <1>1
  <2> HIDE DEF Grown, N
  <2> QED
    BY <1>4, <2>1
<1> QED
  BY <1>5, <1>6, <1>7

\* Of pictures those whose file is there are a part.
LEMMA OnDiskIsPart ==
    ASSUME NEW S, NEW s \in Seq(S)
    PROVE  OnDisk(s) \in Seq(S) /\ PartOf(OnDisk(s), s)
<1>1. /\ Len(s) \in Nat /\ DOMAIN s = 1 .. Len(s)
      /\ \A i \in 1 .. Len(s) : s[i] \in S
  BY LenProperties, ElementOfSeq
<1>2. PICK f : /\ OnDisk(s) = f[Len(s)]
               /\ f[0] = <<>>
               /\ \A k \in 1 .. Len(s) :
                     f[k] = IF s[k].file \in files THEN Append(f[k - 1], s[k]) ELSE f[k - 1]
  BY OnDiskIsDefined
<1> DEFINE Good(k) ==
             /\ f[k] \in Seq(S)
             /\ \E p \in [DOMAIN f[k] -> 1 .. k] :
                   /\ \A i, j \in DOMAIN f[k] : p[i] = p[j] => i = j
                   /\ \A i \in DOMAIN f[k] : f[k][i] = s[p[i]]
           Bad == {k \in 0 .. Len(s) : ~ Good(k)}
<1>3. Good(0)
  <2>1. f[0] = <<>> /\ DOMAIN <<>> = {} /\ <<>> \in Seq(S)
    BY <1>2, EmptySeq
  <2> DEFINE p == [i \in {} |-> i]
  <2>2. p \in [{} -> 1 .. 0]
    OBVIOUS
  <2> HIDE DEF p
  <2> QED
    BY <2>1, <2>2
<1>4. ASSUME NEW k \in 1 .. Len(s), Good(k - 1)
      PROVE  Good(k)
  <2> DEFINE t == f[k - 1]
  <2>1. PICK p \in [DOMAIN t -> 1 .. k - 1] :
             /\ \A i, j \in DOMAIN t : p[i] = p[j] => i = j
             /\ \A i \in DOMAIN t : t[i] = s[p[i]]
    BY <1>4
  <2>2. t \in Seq(S) /\ s[k] \in S
    BY <1>1, <1>4
  <2>3. f[k] = IF s[k].file \in files THEN Append(t, s[k]) ELSE t
    BY <1>2
  <2>4. \A i \in 1 .. k - 1 : i \in 1 .. k /\ i # k
    BY <1>1
  <2> HIDE DEF t
  <2>5. CASE s[k].file \notin files
    <3>1. f[k] = t /\ p \in [DOMAIN t -> 1 .. k]
      BY <2>1, <2>3, <2>4, <2>5
    <3> QED
      BY <2>1, <2>2, <3>1
  <2>6. CASE s[k].file \in files
    <3>1. /\ Append(t, s[k]) \in Seq(S)
          /\ DOMAIN t = 1 .. Len(t) /\ Len(t) \in Nat
          /\ DOMAIN Append(t, s[k]) = 1 .. Len(t) + 1
          /\ \A i \in 1 .. Len(t) : Append(t, s[k])[i] = t[i]
          /\ Append(t, s[k])[Len(t) + 1] = s[k]
      BY <2>2, AppendProperties, LenProperties
    <3> DEFINE a == Append(t, s[k])
               q == [i \in DOMAIN a |-> IF i = Len(t) + 1 THEN k ELSE p[i]]
    <3>2. \A i \in DOMAIN a : i = Len(t) + 1 \/ (i # Len(t) + 1 /\ i \in DOMAIN t)
      BY <3>1
    <3> HIDE DEF a
    <3>3. \A i \in DOMAIN a : q[i] = IF i = Len(t) + 1 THEN k ELSE p[i]
      OBVIOUS
    <3>4. q \in [DOMAIN a -> 1 .. k]
      BY <1>1, <2>1, <2>4, <3>2
    <3> HIDE DEF q
    <3>5. \A i \in DOMAIN t : p[i] # k
      BY <2>1, <2>4
    <3>6. \A i, j \in DOMAIN a : q[i] = q[j] => i = j
      BY <2>1, <3>2, <3>3, <3>5
    <3>7. \A i \in DOMAIN a : a[i] = s[q[i]]
      BY <2>1, <3>1, <3>2, <3>3 DEF a
    <3>8. f[k] = a /\ a \in Seq(S)
      BY <2>3, <2>6, <3>1 DEF a
    <3> QED
      BY <3>4, <3>6, <3>7, <3>8
  <2> QED
    BY <2>5, <2>6
<1>5. Bad = {}
  <2> SUFFICES ASSUME Bad # {} PROVE FALSE
    OBVIOUS
  <2>1. PICK n \in Bad : \A m \in Bad : n <= m
    <3>1. Bad \in SUBSET Nat
      BY <1>1
    <3> HIDE DEF Bad
    <3> QED
      BY <3>1, LeastNumber
  <2> HIDE DEF Good
  <2>2. n \in 1 .. Len(s) /\ n - 1 \in 0 .. Len(s) /\ ~ (n <= n - 1)
    BY <1>1, <1>3, <2>1
  <2>3. Good(n - 1)
    BY <2>1, <2>2
  <2> QED
    BY <1>4, <2>1, <2>2, <2>3
<1>6. Good(Len(s))
  BY <1>1, <1>5
<1> QED
  BY <1>1, <1>2, <1>6 DEF PartOf

----------------------------------------------------------------------------
(* Types.                                                                  *)

PicFiles == Galls \X Nat \X Looks
Pic == [pid : Nat, file : PicFiles, look : Looks, by : Uploads \cup {NoUpload}]
GallRec == [open : BOOLEAN, gen : Nat, alias : SUBSET Aliases, pics : Seq(Pic)]
Writes == {<<>>, <<"galls">>, <<"top", "galls">>}
Flying == {"hashing", "checked", "thumb"}

UpRec == [pc : {"idle", "waiting", "next", "hashing", "checked", "thumb", "replying", "done"},
          name : Names \cup {NoUpload}, force : BOOLEAN, left : 0 .. Images,
          gall : Galls \cup {NoUpload}, gen : Nat, pid : Nat,
          look : Looks \cup {NoUpload}, same : BOOLEAN, pids : Seq(Nat)]
UpTyped(j) ==
    /\ j \in UpRec
    /\ j.pc # "idle" /\ j.pc # "done" => j.name \in Names
    /\ j.pc \in Flying => j.gall \in Galls /\ j.look \in Looks /\ j.left # 0
RepRec == [pc : {"off", "hashing", "checked", "thumb"}, gall : Galls \cup {NoUpload},
           gen : Nat, pid : Nat, file : PicFiles \cup {NoUpload},
           look : Looks \cup {NoUpload}, same : BOOLEAN]
RepTyped ==
    /\ rep \in RepRec
    /\ rep.pc # "off" => rep.gall \in Galls /\ rep.file \in PicFiles /\ rep.look \in Looks
RelRec == [pc : {"off", "hashing"}, gall : Galls \cup {NoUpload}, gen : Nat,
           todo : SUBSET PicFiles, file : PicFiles \cup {NoUpload}, pid : Nat]
RelTyped ==
    /\ rel \in RelRec
    /\ rel.pc # "off" => rel.gall \in Galls /\ rel.file \in PicFiles

Typed ==
    /\ pidTop \in Nat /\ fileTop \in Nat
    /\ galls \in [Galls -> GallRec]
    /\ files \subseteq Galls \X (1 .. fileTop) \X Looks
    /\ disk \in [top : Nat, galls : [Galls -> GallRec]]
    /\ writes \in Writes
    /\ busy \subseteq Names
    /\ DOMAIN up = Uploads /\ \A u \in Uploads : UpTyped(up[u])
    /\ RepTyped /\ RelTyped
    /\ record \in [Uploads -> [pids : Seq(Nat), reverted : BOOLEAN]]
    /\ undoing \in [of : Uploads \cup {NoUpload}, left : Seq(Nat)]

\* What is left to write.
LEMMA WritesAre ==
    /\ <<>> \in Writes /\ <<"galls">> \in Writes /\ <<"top", "galls">> \in Writes
    /\ \A w \in Writes : w # <<>> =>
          \/ w = <<"galls">> /\ Head(w) = "galls" /\ Tail(w) = <<>>
          \/ w = <<"top", "galls">> /\ Head(w) = "top" /\ Tail(w) = <<"galls">>
    /\ <<"galls">> # <<>> /\ <<"top", "galls">> # <<>> /\ <<"galls">> # <<"top", "galls">>
  BY DEF Writes

LEMMA InitIsTyped == Init => Typed
<1> SUFFICES ASSUME Init PROVE Typed
  OBVIOUS
<1>1. <<>> \in Seq(Nat) /\ <<>> \in Seq(Pic) /\ <<>> \in Writes
  BY EmptySeq, WritesAre
<1>2. galls \in [Galls -> GallRec]
  BY <1>1 DEF Init, Closed, GallRec
<1>3. Images \in Nat /\ Images \in 0 .. Images
  BY GalleryAssumption
<1>4. UpTyped(NewUp)
  BY <1>1, <1>3 DEF UpTyped, UpRec, NewUp, Flying
<1>5. RepTyped /\ RelTyped
  BY DEF RepTyped, RepRec, RelTyped, RelRec, Init, NoRep, NoRel
<1>6. pidTop = 0 /\ fileTop = 0 /\ files = {} /\ busy = {} /\ writes = <<>>
  BY DEF Init
<1>7. disk \in [top : Nat, galls : [Galls -> GallRec]]
  <2>1. disk = [top |-> 0, galls |-> galls]
    BY <1>6 DEF Init
  <2> HIDE DEF GallRec
  <2> QED
    BY <1>2, <2>1
<1>8. DOMAIN up = Uploads /\ \A u \in Uploads : UpTyped(up[u])
  BY <1>4 DEF Init
<1>9. record \in [Uploads -> [pids : Seq(Nat), reverted : BOOLEAN]]
  BY <1>1 DEF Init
<1>10. undoing \in [of : Uploads \cup {NoUpload}, left : Seq(Nat)]
  BY <1>1 DEF Init, NoUndo
<1> QED
  BY <1>1, <1>2, <1>5, <1>6, <1>7, <1>8, <1>9, <1>10 DEF Typed

\* The least position of a set of them.
LEMMA FirstIsThere ==
    ASSUME NEW S \in SUBSET Nat, S # {}
    PROVE  First(S) \in S
  BY LeastNumber DEF First

\* A picture goes: the first with its pid, and its file.
LEMMA DropPicIs ==
    ASSUME NEW p, galls \in [Galls -> GallRec], DropPic(p)
    PROVE  \E g \in Galls : \E k \in 1 .. Len(galls[g].pics) :
              /\ galls[g].open /\ galls[g].pics[k].pid = p
              /\ galls' = [galls EXCEPT ![g].pics = Without(galls[g].pics, k)]
              /\ files' = files \ {galls[g].pics[k].file}
<1>1. PICK g \in Holders(p) :
         LET pics == galls[g].pics
             k    == First(Where(g, LAMBDA x : x.pid = p))
         IN  /\ WithPics(g, SubSeq(pics, 1, k - 1) \o SubSeq(pics, k + 1, Len(pics)))
             /\ files' = files \ {pics[k].file}
  BY DEF DropPic
<1> DEFINE S == {k \in 1 .. Len(galls[g].pics) : galls[g].pics[k].pid = p}
           k == First(S)
<1>2. Where(g, LAMBDA x : x.pid = p) = S
  BY DEF Where
<1>3. g \in Galls /\ galls[g].open /\ S # {}
  BY <1>2 DEF Holders
<1>4. Len(galls[g].pics) \in Nat
  BY <1>3, LenProperties DEF GallRec
<1>5. S \in SUBSET Nat
  BY <1>4
<1>6. k \in S
  <2> HIDE DEF S
  <2> QED
    BY <1>3, <1>5, FirstIsThere
<1>7. /\ galls' = [galls EXCEPT ![g].pics = Without(galls[g].pics, k)]
      /\ files' = files \ {galls[g].pics[k].file}
  BY <1>1, <1>2 DEF WithPics, Without
<1> QED
  BY <1>3, <1>6, <1>7

\* Pictures of one gallery are given.
LEMMA WithPicsTyped ==
    ASSUME galls \in [Galls -> GallRec], NEW g \in Galls, NEW s \in Seq(Pic), WithPics(g, s)
    PROVE  /\ galls' \in [Galls -> GallRec]
           /\ galls'[g].pics = s
           /\ \A h \in Galls : h # g => galls'[h] = galls[h]
           /\ \A h \in Galls : /\ galls'[h].open = galls[h].open
                               /\ galls'[h].gen = galls[h].gen
                               /\ galls'[h].alias = galls[h].alias
  BY DEF WithPics, GallRec

\* A step of an upload.
LEMMA UploadMovesItself ==
    ASSUME Typed, NEW u \in Uploads, UploadNext(u)
    PROVE  /\ DOMAIN up' = Uploads
           /\ \A v \in Uploads : v # u => up'[v] = up[v]
           /\ UpTyped(up'[u])
<1>0. UpTyped(up[u]) /\ Images \in Nat /\ DOMAIN up = Uploads /\ pidTop \in Nat
  BY GalleryAssumption DEF Typed
<1>1. ASSUME NEW j, up' = [up EXCEPT ![u] = j], UpTyped(j)
      PROVE  /\ DOMAIN up' = Uploads
             /\ \A v \in Uploads : v # u => up'[v] = up[v]
             /\ UpTyped(up'[u])
  BY <1>0, <1>1
<1>2. ASSUME NEW n \in Names, NEW force \in BOOLEAN, Ask(u, n, force)
      PROVE  \E j : up' = [up EXCEPT ![u] = j] /\ UpTyped(j)
  <2>1. UpTyped([up[u] EXCEPT !.pc = "waiting", !.name = n, !.force = force])
    BY <1>0 DEF UpTyped, UpRec, Flying
  <2> QED
    BY <1>2, <2>1 DEF Ask
<1>3. ASSUME Enter(u) \/ GiveUp(u) \/ Remember(u) \/ Reply(u)
      PROVE  \E j : up' = [up EXCEPT ![u] = j] /\ UpTyped(j)
  <2>1. PICK pc \in {"next", "done", "replying"} :
           up[u].pc \notin {"idle", "done"} /\ up' = [up EXCEPT ![u].pc = pc]
    BY <1>0, <1>3 DEF Enter, GiveUp, Remember, Reply, Reporting
  <2>2. UpTyped([up[u] EXCEPT !.pc = pc])
    BY <1>0, <2>1 DEF UpTyped, UpRec, Flying
  <2> QED
    BY <2>1, <2>2
<1>4. ASSUME NEW look \in Looks, AddBegins(u, look)
      PROVE  \E j : up' = [up EXCEPT ![u] = j] /\ UpTyped(j)
  <2>1. up[u].pc = "next" /\ up[u].left # 0
    <3>1. up[u].pc = "next" /\ up[u].left > 0
      BY <1>4 DEF AddBegins
    <3>2. up[u].left \in 0 .. Images
      BY <1>0 DEF UpTyped, UpRec
    <3> QED
      BY <1>0, <3>1, <3>2
  <2>2. UpTyped([up[u] EXCEPT !.left = @ - 1])
    <3>1. up[u].left - 1 \in 0 .. Images
      BY <1>0, <2>1 DEF UpTyped, UpRec
    <3> QED
      BY <1>0, <2>1, <3>1 DEF UpTyped, UpRec, Flying
  <2>3. ASSUME NEW g \in Find(up[u].name)
        PROVE  UpTyped([up[u] EXCEPT !.pc = "hashing", !.gall = g, !.gen = galls[g].gen,
                                     !.pid = pidTop + 1, !.look = look])
    <3>1. g \in Galls /\ galls[g].gen \in Nat /\ pidTop + 1 \in Nat
      BY <1>0 DEF Find, GallRec, Typed
    <3>2. look \in Looks
      OBVIOUS
    <3> DEFINE gen == galls[g].gen
               pid == pidTop + 1
    <3> HIDE DEF gen, pid
    <3>3. gen \in Nat /\ pid \in Nat
      BY <3>1 DEF gen, pid
    <3>4. UpTyped([up[u] EXCEPT !.pc = "hashing", !.gall = g, !.gen = gen,
                                !.pid = pid, !.look = look])
      BY <1>0, <2>1, <3>1, <3>2, <3>3 DEF UpTyped, UpRec, Flying
    <3> QED
      BY <3>4 DEF gen, pid
  <2> QED
    <3>1. \/ up' = [up EXCEPT ![u].left = @ - 1]
          \/ \E g \in Find(up[u].name) :
                up' = [up EXCEPT ![u].pc = "hashing", ![u].gall = g, ![u].gen = galls[g].gen,
                                 ![u].pid = pidTop + 1, ![u].look = look]
      BY <1>4 DEF AddBegins
    <3>2. CASE up' = [up EXCEPT ![u].left = @ - 1]
      BY <2>2, <3>2
    <3>3. ASSUME NEW g \in Find(up[u].name),
                 up' = [up EXCEPT ![u].pc = "hashing", ![u].gall = g, ![u].gen = galls[g].gen,
                                  ![u].pid = pidTop + 1, ![u].look = look]
          PROVE  \E j : up' = [up EXCEPT ![u] = j] /\ UpTyped(j)
      <4>1. up' = [up EXCEPT ![u] =
                     [up[u] EXCEPT !.pc = "hashing", !.gall = g, !.gen = galls[g].gen,
                                   !.pid = pidTop + 1, !.look = look]]
        BY <3>3
      <4> QED
        BY <2>3, <4>1
    <3> QED
      BY <3>1, <3>2, <3>3
<1>5. ASSUME CheckDuplicated(u)
      PROVE  \E j : up' = [up EXCEPT ![u] = j] /\ UpTyped(j)
  <2>1. PICK same \in BOOLEAN : up' = [up EXCEPT ![u].pc = "checked", ![u].same = same]
    BY <1>5 DEF CheckDuplicated
  <2>2. up[u].pc = "hashing"
    BY <1>5 DEF CheckDuplicated
  <2>3. UpTyped([up[u] EXCEPT !.pc = "checked", !.same = same])
    BY <1>0, <2>2 DEF UpTyped, UpRec, Flying
  <2> QED
    BY <2>1, <2>3
<1>6. ASSUME AddRepeats(u) \/ AddFails(u) \/ AddEnds(u)
      PROVE  \E j : up' = [up EXCEPT ![u] = j] /\ UpTyped(j)
  <2>1. up[u].pc \in Flying
    BY <1>6 DEF AddRepeats, AddFails, AddEnds, MayAdd, Flying
  <2>2. up[u].left - 1 \in 0 .. Images
    BY <1>0, <2>1 DEF UpTyped, UpRec
  <2>3. UpTyped([up[u] EXCEPT !.pc = "next", !.left = @ - 1])
    BY <1>0, <2>1, <2>2 DEF UpTyped, UpRec, Flying
  <2>4. Append(up[u].pids, pidTop) \in Seq(Nat)
    BY <1>0, AppendProperties DEF UpTyped, UpRec
  <2>5. UpTyped([up[u] EXCEPT !.pc = "next", !.left = @ - 1, !.pids = Append(@, pidTop)])
    <3> DEFINE pids == Append(up[u].pids, pidTop)
    <3> HIDE DEF pids
    <3>1. pids \in Seq(Nat)
      BY <2>4 DEF pids
    <3>2. UpTyped([up[u] EXCEPT !.pc = "next", !.left = @ - 1, !.pids = pids])
      BY <1>0, <2>1, <2>2, <3>1 DEF UpTyped, UpRec, Flying
    <3> QED
      BY <3>2 DEF pids
  <2> QED
    BY <1>6, <2>3, <2>5 DEF AddRepeats, AddFails, AddEnds
<1>7. ASSUME AddCommits(u)
      PROVE  \E j : up' = [up EXCEPT ![u] = j] /\ UpTyped(j)
  <2>1. up[u].pc \in Flying
    BY <1>7 DEF AddCommits, MayAdd, Flying
  <2>2. UpTyped([up[u] EXCEPT !.pc = "thumb"])
    BY <1>0, <2>1 DEF UpTyped, UpRec, Flying
  <2> QED
    BY <1>7, <2>2 DEF AddCommits
<1> QED
  BY <1>1, <1>2, <1>3, <1>4, <1>5, <1>6, <1>7 DEF UploadNext

LEMMA UploadIsTyped ==
    ASSUME Typed, NEW u \in Uploads, UploadNext(u)
    PROVE  Typed'
<1>1. DOMAIN up' = Uploads /\ \A v \in Uploads : UpTyped(up'[v])
  <2>1. /\ DOMAIN up' = Uploads
        /\ \A v \in Uploads : v # u => up'[v] = up[v]
        /\ UpTyped(up'[u])
    BY UploadMovesItself
  <2>2. \A v \in Uploads : UpTyped(up[v])
    BY DEF Typed
  <2>3. ASSUME NEW v \in Uploads PROVE UpTyped(up'[v])
    <3>1. CASE v = u
      BY <2>1, <3>1
    <3>2. CASE v # u
      <4>1. up'[v] = up[v]
        BY <2>1, <3>2
      <4> QED
        BY <2>2, <4>1
    <3> QED
      BY <3>1, <3>2
  <2> QED
    BY <2>1, <2>3
<1>0. UpTyped(up[u])
  BY DEF Typed
<1>2. UNCHANGED <<disk, rep, rel, undoing>>
  BY DEF UploadNext, Ask, Enter, GiveUp, AddBegins, CheckDuplicated, AddRepeats,
         AddCommits, AddFails, AddEnds, Remember, Reply, saved, undo, jobs
<1>3. writes' \in Writes
  BY WritesAre
     DEF Typed, UploadNext, Ask, Enter, GiveUp, AddBegins, CheckDuplicated, AddRepeats,
         AddCommits, AddFails, AddEnds, Remember, Reply, saved, undo, Save
<1>4. busy' \subseteq Names
  <2>1. CASE Enter(u)
    <3>1. busy' = busy \cup {up[u].name} /\ up[u].pc = "waiting"
      BY <2>1 DEF Enter
    <3> QED
      BY <1>0, <3>1 DEF UpTyped, Typed
  <2>2. CASE ~ Enter(u)
    <3>1. busy' \subseteq busy
      BY <2>2 DEF UploadNext, Ask, GiveUp, AddBegins, CheckDuplicated, AddRepeats,
                  AddCommits, AddFails, AddEnds, Remember, Reply
    <3> QED
      BY <3>1 DEF Typed
  <2> QED
    BY <2>1, <2>2
<1>5. record' \in [Uploads -> [pids : Seq(Nat), reverted : BOOLEAN]]
  <2>1. CASE Remember(u)
    <3>1. up[u].pids \in Seq(Nat) /\ record' = [record EXCEPT ![u].pids = up[u].pids]
      BY <1>0, <2>1 DEF Remember, UpTyped, UpRec
    <3> DEFINE pids == up[u].pids
    <3> HIDE DEF pids
    <3>2. pids \in Seq(Nat) /\ record' = [record EXCEPT ![u].pids = pids]
      BY <3>1 DEF pids
    <3> QED
      BY <3>2 DEF Typed
  <2>2. CASE ~ Remember(u)
    <3>1. record' = record
      BY <2>2 DEF UploadNext, Ask, Enter, GiveUp, AddBegins, CheckDuplicated, AddRepeats,
                  AddCommits, AddFails, AddEnds, Reply, undo
    <3> QED
      BY <3>1 DEF Typed
  <2> QED
    BY <2>1, <2>2
<1>6. /\ pidTop' \in Nat /\ fileTop' \in Nat
      /\ galls' \in [Galls -> GallRec]
      /\ files' \subseteq Galls \X (1 .. fileTop') \X Looks
  <2>1. CASE AddCommits(u)
    <3> DEFINE g == up[u].gall
               f == <<g, fileTop + 1, up[u].look>>
               pic == [pid |-> up[u].pid, file |-> f, look |-> up[u].look, by |-> u]
    <3>1. g \in Galls /\ up[u].look \in Looks /\ up[u].pid \in Nat
      BY <1>0, <2>1 DEF AddCommits, MayAdd, UpTyped, UpRec, Flying
    <3>2. pic \in Pic /\ f \in Galls \X (1 .. fileTop + 1) \X Looks
      BY <3>1 DEF Pic, PicFiles, Typed
    <3>3. /\ pidTop' = pidTop + 1 /\ fileTop' = fileTop + 1 /\ files' = files \cup {f}
          /\ WithPics(g, Append(galls[g].pics, pic)) \/ galls' = galls
      BY <2>1 DEF AddCommits
    <3> HIDE DEF pic, f
    <3>4. Append(galls[g].pics, pic) \in Seq(Pic)
      BY <3>1, <3>2, AppendProperties DEF GallRec, Typed
    <3>5. galls' \in [Galls -> GallRec]
      BY <3>1, <3>3, <3>4, WithPicsTyped DEF Typed
    <3>6. 1 .. fileTop \subseteq 1 .. fileTop + 1
      BY DEF Typed
    <3> QED
      BY <3>2, <3>3, <3>5, <3>6 DEF Typed
  <2>2. CASE ~ AddCommits(u)
    <3>1. UNCHANGED <<galls, files, fileTop>> /\ pidTop' \in {pidTop, pidTop + 1}
     BY <2>2
       DEF UploadNext, Ask, Enter, GiveUp, AddBegins, CheckDuplicated, AddRepeats,
           AddFails, AddEnds, Remember, Reply, store
    <3> QED
      BY <3>1 DEF Typed
  <2> QED
    BY <2>1, <2>2
<1>7. RepTyped' /\ RelTyped'
  BY <1>2 DEF Typed, RepTyped, RelTyped
<1> QED
  BY <1>1, <1>2, <1>3, <1>4, <1>5, <1>6, <1>7 DEF Typed

\* Galleries after a picture was dropped, or its file and look changed.
LEMMA DropPicTyped ==
    ASSUME Typed, NEW p, DropPic(p)
    PROVE  galls' \in [Galls -> GallRec] /\ files' \subseteq files
<1>1. galls \in [Galls -> GallRec]
  BY DEF Typed
<1>0. PICK g \in Galls : \E k \in 1 .. Len(galls[g].pics) :
         /\ galls' = [galls EXCEPT ![g].pics = Without(galls[g].pics, k)]
         /\ files' = files \ {galls[g].pics[k].file}
  BY <1>1, DropPicIs
<1>2. PICK k \in 1 .. Len(galls[g].pics) :
         /\ galls' = [galls EXCEPT ![g].pics = Without(galls[g].pics, k)]
         /\ files' = files \ {galls[g].pics[k].file}
  BY <1>0
<1>3. Without(galls[g].pics, k) \in Seq(Pic)
  BY <1>1, WithoutIsDefined DEF GallRec
<1>4. WithPics(g, Without(galls[g].pics, k))
  BY <1>2 DEF WithPics
<1> QED
  BY <1>1, <1>2, <1>3, <1>4, WithPicsTyped

\* The picture a replacement changes.
Changed(x, f) == [x EXCEPT !.file = f, !.look = rep.look]
NewFile == <<rep.gall, fileTop + 1, rep.look>>

LEMMA ReplaceIs ==
    ASSUME Typed, ReplaceCommits
    PROVE  /\ NewFile \in Galls \X (1 .. fileTop + 1) \X Looks
           /\ files' = (files \ {rep.file}) \cup {NewFile}
           /\ \/ Replaced = {} /\ galls' = galls
              \/ \E k \in 1 .. Len(galls[rep.gall].pics) :
                    /\ k \in Replaced
                    /\ WithPics(rep.gall, [galls[rep.gall].pics EXCEPT
                                              ![k] = Changed(@, NewFile)])
<1>1. /\ galls \in [Galls -> GallRec] /\ rep.gall \in Galls /\ rep.look \in Looks
      /\ fileTop \in Nat
  BY DEF Typed, RepTyped, ReplaceCommits
<1>2. NewFile \in Galls \X (1 .. fileTop + 1) \X Looks
  BY <1>1 DEF NewFile
<1>3. /\ files' = (files \ {rep.file}) \cup {NewFile}
      /\ IF Replaced = {}
         THEN UNCHANGED galls
         ELSE galls' = [galls EXCEPT ![rep.gall].pics[First(Replaced)].file = NewFile,
                                     ![rep.gall].pics[First(Replaced)].look = rep.look]
  BY DEF ReplaceCommits, NewFile
<1>4. CASE Replaced # {}
  <2> DEFINE k == First(Replaced)
             g == rep.gall
             pics == galls[g].pics
  <2>1. Len(pics) \in Nat /\ DOMAIN pics = 1 .. Len(pics) /\ galls[g] \in GallRec
    BY <1>1, LenProperties DEF GallRec
  <2>2. Replaced \subseteq 1 .. Len(pics)
    BY DEF Replaced, Where
  <2>3. Replaced \in SUBSET Nat
    BY <2>1, <2>2
  <2>4. k \in Replaced /\ k \in 1 .. Len(pics)
    BY <1>4, <2>2, <2>3, FirstIsThere
  <2> HIDE DEF k
  <2>5. galls' = [galls EXCEPT ![g].pics[k].file = NewFile, ![g].pics[k].look = rep.look]
    BY <1>3, <1>4 DEF k
  <2>6. pics[k] \in Pic
    BY <1>1, <2>4, ElementOfSeq DEF GallRec
  <2>7. galls' = [galls EXCEPT ![g].pics = [pics EXCEPT ![k] = Changed(@, NewFile)]]
    BY <1>1, <2>1, <2>4, <2>5, <2>6, ZenonT(60) DEF Changed, GallRec, Pic
  <2> QED
    BY <1>2, <1>3, <2>4, <2>7 DEF WithPics
<1> QED
  BY <1>2, <1>3, <1>4

LEMMA ReplaceTyped ==
    ASSUME Typed, ReplaceCommits
    PROVE  /\ galls' \in [Galls -> GallRec]
           /\ files' \subseteq Galls \X (1 .. fileTop + 1) \X Looks
<1> DEFINE g == rep.gall
           pics == galls[g].pics
<1>1. /\ galls \in [Galls -> GallRec] /\ g \in Galls /\ rep.look \in Looks
      /\ fileTop \in Nat /\ files \subseteq Galls \X (1 .. fileTop) \X Looks
      /\ pics \in Seq(Pic)
  BY DEF Typed, RepTyped, ReplaceCommits, GallRec
<1>2. /\ NewFile \in Galls \X (1 .. fileTop + 1) \X Looks
      /\ files' = (files \ {rep.file}) \cup {NewFile}
  BY ReplaceIs
<1>3. files' \subseteq Galls \X (1 .. fileTop + 1) \X Looks
  <2>1. 1 .. fileTop \subseteq 1 .. fileTop + 1
    BY <1>1
  <2> QED
    BY <1>1, <1>2, <2>1
<1>4. CASE galls' = galls
  BY <1>1, <1>3, <1>4
<1>5. ASSUME NEW k \in 1 .. Len(pics),
             WithPics(g, [pics EXCEPT ![k] = Changed(@, NewFile)])
      PROVE  galls' \in [Galls -> GallRec]
  <2>1. pics[k] \in Pic
    BY <1>1, ElementOfSeq
  <2>2. NewFile \in PicFiles
    BY <1>1, <1>2 DEF PicFiles
  <2>3. Changed(pics[k], NewFile) \in Pic
    BY <1>1, <2>1, <2>2 DEF Pic, Changed
  <2>4. [pics EXCEPT ![k] = Changed(@, NewFile)] \in Seq(Pic)
    BY <1>1, <2>3, ExceptSeq
  <2> QED
    BY <1>1, <1>5, <2>4, WithPicsTyped
<1> QED
  BY <1>3, <1>4, <1>5, ReplaceIs

\* The loop of a reload goes on: the gallery gets pics, or what is left of it.
LEMMA ReloadIs ==
    ASSUME Typed, NEW job, NEW pics \in Seq(Pic), ReloadGoesOn(job, pics), job \in RelRec,
           job.gall \in Galls, job.pc = "hashing"
    PROVE  /\ galls' = galls \/ \E s \in Seq(Pic) : PartOf(s, pics) /\ WithPics(job.gall, s)
           /\ galls' \in [Galls -> GallRec]
           /\ writes' = writes \/ writes' = <<"top", "galls">>
           /\ \/ rel' = NoRel /\ pidTop' = pidTop /\ writes' = <<"top", "galls">>
              \/ /\ \E f \in job.todo :
                       rel' = [job EXCEPT !.file = f, !.pid = pidTop + 1, !.todo = @ \ {f}]
                 /\ pidTop' = pidTop + 1
                 /\ writes' = writes
           /\ RelTyped'
<1>1. galls \in [Galls -> GallRec]
  BY DEF Typed
<1>2. /\ OnDisk(pics) \in Seq(Pic) /\ PartOf(OnDisk(pics), pics)
      /\ PartOf(pics, pics)
  BY OnDiskIsPart, PartOfItself
<1>3. /\ \/ galls' = galls
         \/ WithPics(job.gall, pics) \/ WithPics(job.gall, OnDisk(pics))
      /\ \/ rel' = NoRel /\ pidTop' = pidTop /\ writes' = <<"top", "galls">>
         \/ /\ \E f \in job.todo :
                  rel' = [job EXCEPT !.file = f, !.pid = pidTop + 1, !.todo = @ \ {f}]
            /\ pidTop' = pidTop + 1
            /\ writes' = writes
  BY DEF ReloadGoesOn, Save
<1>4. galls' = galls \/ \E s \in Seq(Pic) : PartOf(s, pics) /\ WithPics(job.gall, s)
  BY <1>2, <1>3
<1>5. galls' \in [Galls -> GallRec]
  <2>1. ASSUME NEW s \in Seq(Pic), WithPics(job.gall, s)
        PROVE  galls' \in [Galls -> GallRec]
    BY <1>1, <2>1, WithPicsTyped
  <2> QED
    BY <1>1, <1>4, <2>1
<1>6. RelTyped'
  <2>1. CASE rel' = NoRel
    BY <2>1 DEF RelTyped, RelRec, NoRel
  <2>2. ASSUME NEW f \in job.todo,
               rel' = [job EXCEPT !.file = f, !.pid = pidTop + 1, !.todo = @ \ {f}]
        PROVE  RelTyped'
    <3>1. f \in PicFiles /\ job.todo \ {f} \in SUBSET PicFiles
      BY DEF RelRec
    <3>2. pidTop + 1 \in Nat
      BY DEF Typed
    <3> DEFINE p == pidTop + 1
               T == job.todo \ {f}
    <3> HIDE DEF p, T
    <3>3. rel' = [job EXCEPT !.file = f, !.pid = p, !.todo = T]
      BY <2>2 DEF p, T
    <3>4. p \in Nat /\ T \in SUBSET PicFiles
      BY <3>1, <3>2 DEF p, T
    <3> QED
      BY <3>1, <3>3, <3>4 DEF RelTyped, RelRec
  <2> QED
    BY <1>3, <2>1, <2>2
<1> QED
  BY <1>3, <1>4, <1>5, <1>6

\* What the loop is given when it starts, and after an await.
ReloadJob(g) == [NoRel EXCEPT !.pc = "hashing", !.gall = g, !.gen = galls[g].gen,
                              !.todo = {f \in files : f[1] = g}]
Reloaded == [pid |-> rel.pid, file |-> rel.file, look |-> rel.file[3], by |-> NoUpload]

LEMMA ReloadBeginsIs ==
    ASSUME Typed, NEW n, ReloadBegins(n)
    PROVE  \E g \in Galls :
              /\ ReloadGoesOn(ReloadJob(g), galls[g].pics)
              /\ galls[g].pics \in Seq(Pic)
              /\ ReloadJob(g) \in RelRec
              /\ ReloadJob(g).gall = g /\ ReloadJob(g).pc = "hashing"
<1>1. PICK g \in Galls : ReloadGoesOn(ReloadJob(g), galls[g].pics)
  BY DEF ReloadBegins, ReloadJob, Find
<1>2. galls[g].pics \in Seq(Pic) /\ galls[g].gen \in Nat
  BY DEF Typed, GallRec
<1>3. {f \in files : f[1] = g} \in SUBSET PicFiles
  BY DEF Typed, PicFiles
<1>4. ReloadJob(g) \in RelRec /\ ReloadJob(g).gall = g /\ ReloadJob(g).pc = "hashing"
  <2> DEFINE T == {f \in files : f[1] = g}
             n0 == galls[g].gen
  <2> HIDE DEF T, n0
  <2>1. T \in SUBSET PicFiles /\ n0 \in Nat
    BY <1>2, <1>3 DEF T, n0
  <2>2. ReloadJob(g) = [NoRel EXCEPT !.pc = "hashing", !.gall = g, !.gen = n0, !.todo = T]
    BY DEF ReloadJob, T, n0
  <2>3. ReloadJob(g) = [pc |-> "hashing", gall |-> g, gen |-> n0, todo |-> T,
                        file |-> NoUpload, pid |-> 0]
    BY <2>2, Zenon DEF NoRel
  <2> QED
    BY <2>1, <2>3 DEF RelRec
<1> QED
  BY <1>1, <1>2, <1>4

LEMMA ReloadAppendsIs ==
    ASSUME Typed, ReloadAppends
    PROVE  /\ ReloadGoesOn(rel, Append(galls[rel.gall].pics, Reloaded))
           /\ Append(galls[rel.gall].pics, Reloaded) \in Seq(Pic)
           /\ galls[rel.gall].pics \in Seq(Pic) /\ Reloaded \in Pic
           /\ rel \in RelRec /\ rel.gall \in Galls /\ rel.pc = "hashing"
<1>1. /\ ReloadGoesOn(rel, Append(galls[rel.gall].pics, Reloaded))
      /\ rel.pc = "hashing"
  BY DEF ReloadAppends, Reloaded
<1>2. rel \in RelRec /\ rel.gall \in Galls /\ rel.file \in PicFiles
  BY <1>1 DEF Typed, RelTyped
<1>3. galls[rel.gall].pics \in Seq(Pic)
  BY <1>2 DEF Typed, GallRec
<1>4. Reloaded \in Pic
  BY <1>2 DEF Reloaded, Pic, RelRec, PicFiles
<1> QED
  BY <1>1, <1>2, <1>3, <1>4, AppendProperties

LEMMA StepIsTyped == Typed /\ [Next]_vars => Typed'
<1> SUFFICES ASSUME Typed, [Next]_vars PROVE Typed'
  OBVIOUS
<1>0. (\A u \in Uploads : UpTyped(up[u])) /\ writes \in Writes /\ pidTop \in Nat
  BY DEF Typed
<1>1. CASE WriteDisk
  <2>1. writes' \in Writes
    BY <1>0, <1>1, WritesAre DEF WriteDisk
  <2>2. disk' \in [top : Nat, galls : [Galls -> GallRec]]
    <3>1. /\ disk \in [top : Nat, galls : [Galls -> GallRec]]
          /\ pidTop \in Nat /\ galls \in [Galls -> GallRec]
      BY DEF Typed
    <3>2. disk' = [disk EXCEPT !.top = pidTop] \/ disk' = [disk EXCEPT !.galls = galls]
      BY <1>1 DEF WriteDisk
    <3> HIDE DEF GallRec
    <3> QED
      BY <3>1, <3>2
  <2> QED
    BY <1>1, <2>1, <2>2 DEF WriteDisk, Typed, store, jobs, undo, RepTyped, RelTyped
<1>2. ASSUME NEW u \in Uploads, UploadNext(u) PROVE Typed'
  BY <1>2, UploadIsTyped
<1>3. ASSUME NEW u \in Uploads, UndoBegins(u) PROVE Typed'
  <2>1. record[u].pids \in Seq(Nat)
    BY DEF Typed
  <2>2. undoing' \in [of : Uploads \cup {NoUpload}, left : Seq(Nat)]
    BY <1>3, <2>1 DEF UndoBegins
  <2> QED
    BY <1>3, <2>1, <2>2 DEF UndoBegins, Typed, store, saved, jobs, RepTyped, RelTyped
<1>4. CASE UndoDeletes
  <2>1. Tail(undoing.left) \in Seq(Nat)
    BY <1>4, HeadTailProperties, EmptySeq DEF UndoDeletes, Typed
  <2>2. undoing' \in [of : Uploads \cup {NoUpload}, left : Seq(Nat)]
    <3> DEFINE t == Tail(undoing.left)
    <3> HIDE DEF t
    <3>1. t \in Seq(Nat) /\ undoing' = [undoing EXCEPT !.left = t]
      BY <1>4, <2>1 DEF UndoDeletes, t
    <3> QED
      BY <3>1 DEF Typed
  <2>3. galls' \in [Galls -> GallRec] /\ files' \subseteq files /\ writes' \in Writes
    BY <1>4, DropPicTyped, WritesAre DEF UndoDeletes, Save, Typed
  <2> QED
    BY <1>4, <2>1, <2>2, <2>3 DEF UndoDeletes, Typed, jobs, RepTyped, RelTyped
<1>5. CASE UndoEnds
  <2>1. undoing' \in [of : Uploads \cup {NoUpload}, left : Seq(Nat)]
    BY <1>5, EmptySeq DEF UndoEnds, NoUndo
  <2>2. record' \in [Uploads -> [pids : Seq(Nat), reverted : BOOLEAN]]
    BY <1>5 DEF UndoEnds, Typed
  <2> QED
    BY <1>5, <2>1, <2>2 DEF UndoEnds, Typed, store, saved, jobs, RepTyped, RelTyped
<1>6. ASSUME NEW p, Delete(p) PROVE Typed'
  <2>1. galls' \in [Galls -> GallRec] /\ files' \subseteq files /\ writes' \in Writes
    BY <1>6, DropPicTyped, WritesAre DEF Delete, Save
  <2> QED
    BY <1>6, <2>1 DEF Delete, Typed, jobs, undo, RepTyped, RelTyped
<1>7. ASSUME NEW p, NEW look \in Looks, ReplaceBegins(p, look) PROVE Typed'
  <2>1. PICK g \in Holders(p) :
          LET k == First(Where(g, LAMBDA x : x.pid = p))
          IN  rep' = [pc |-> "hashing", gall |-> g, gen |-> galls[g].gen, pid |-> p,
                      file |-> galls[g].pics[k].file, look |-> look, same |-> FALSE]
    BY <1>7 DEF ReplaceBegins
  <2>2. RepTyped'
    <3> DEFINE S == {k \in 1 .. Len(galls[g].pics) : galls[g].pics[k].pid = p}
               k == First(S)
    <3>1. Where(g, LAMBDA x : x.pid = p) = S
      BY DEF Where
    <3>2. g \in Galls /\ galls[g].pics \in Seq(Pic) /\ galls[g].gen \in Nat /\ S # {}
      BY <3>1 DEF Holders, Typed, GallRec
    <3>3. S \in SUBSET Nat
      BY <3>2, LenProperties
    <3>4. k \in S
      <4> HIDE DEF S
      <4> QED
        BY <3>2, <3>3, FirstIsThere
    <3>5. galls[g].pics[k] \in Pic /\ galls[g].pics[k].pid = p
      BY <3>2, <3>4, ElementOfSeq
    <3>6. rep' = [pc |-> "hashing", gall |-> g, gen |-> galls[g].gen, pid |-> p,
                  file |-> galls[g].pics[k].file, look |-> look, same |-> FALSE]
      BY <2>1, <3>1
    <3> HIDE DEF k, S
    <3> QED
      BY <3>2, <3>5, <3>6 DEF RepTyped, RepRec, Pic
  <2> QED
    BY <1>7, <2>2 DEF ReplaceBegins, Typed, store, saved, undo, RelTyped
<1>8. CASE ReplaceChecks \/ ReplaceFails \/ ReplaceEnds
  <2>1. RepTyped'
    <3>1. rep' = NoRep \/ (rep' = [rep EXCEPT !.pc = "checked"] /\ rep.pc = "hashing")
      BY <1>8 DEF ReplaceChecks, ReplaceFails, ReplaceEnds
    <3>2. CASE rep' = NoRep
      BY <3>2 DEF RepTyped, RepRec, NoRep
    <3>3. CASE rep' = [rep EXCEPT !.pc = "checked"] /\ rep.pc = "hashing"
      BY <3>3 DEF RepTyped, RepRec, Typed
    <3> QED
      BY <3>1, <3>2, <3>3
  <2>2. writes' \in Writes /\ files' \subseteq files
    BY <1>0, <1>8, WritesAre
       DEF ReplaceChecks, ReplaceFails, ReplaceEnds, Save, saved, store
  <2> QED
    BY <1>8, <2>1, <2>2
       DEF ReplaceChecks, ReplaceFails, ReplaceEnds, Typed, store, saved, undo, RelTyped
<1>9. CASE ReplaceCommits
  <2>1. RepTyped'
    BY <1>9 DEF ReplaceCommits, Typed, RepTyped, RepRec
  <2>2. fileTop' = fileTop + 1 /\ fileTop' \in Nat
    BY <1>9 DEF ReplaceCommits, Typed
  <2>3. galls' \in [Galls -> GallRec] /\ files' \subseteq Galls \X (1 .. fileTop') \X Looks
    BY <1>9, <2>2, ReplaceTyped
  <2> QED
    BY <1>9, <2>1, <2>2, <2>3 DEF ReplaceCommits, Typed, saved, undo, RelTyped
<1>10. ASSUME NEW n \in Names,
              OpenGall(n) \/ CloseGall(n)
              \/ \E a \in Aliases : AddAlias(n, a) \/ DelAlias(n, a)
       PROVE  Typed'
  <2>1. galls' \in [Galls -> GallRec]
    <3>1. galls \in [Galls -> GallRec] /\ <<>> \in Seq(Pic)
      BY EmptySeq DEF Typed
    <3>2. CASE OpenGall(n)
      <4>1. PICK r : r = [Closed EXCEPT !.open = TRUE, !.gen = galls[n].gen + 1]
        OBVIOUS
      <4>2. n \in Galls /\ galls' = [galls EXCEPT ![n] = r]
        BY <3>2, <4>1 DEF OpenGall
      <4>3. galls[n].gen + 1 \in Nat
        BY <3>1, <4>2 DEF GallRec
      <4>4. r \in GallRec
        BY <3>1, <4>1, <4>3 DEF Closed, GallRec
      <4> HIDE DEF GallRec
      <4> QED
        BY <3>1, <4>2, <4>4
    <3>3. CASE CloseGall(n)
      BY <3>1, <3>3 DEF CloseGall, Closed, GallRec, Find
    <3>4. ASSUME NEW a \in Aliases, AddAlias(n, a) \/ DelAlias(n, a)
          PROVE  galls' \in [Galls -> GallRec]
      <4>1. PICK g \in Galls, A \in SUBSET Aliases : galls' = [galls EXCEPT ![g].alias = A]
        <5>1. PICK g \in Galls : \/ galls' = [galls EXCEPT ![g].alias = @ \cup {a}]
                                \/ galls' = [galls EXCEPT ![g].alias = @ \ {a}]
          BY <3>4 DEF AddAlias, DelAlias, Find
        <5>2. galls[g].alias \cup {a} \in SUBSET Aliases /\ galls[g].alias \ {a} \in SUBSET Aliases
          BY <3>1 DEF GallRec
        <5> QED
          BY <5>1, <5>2
      <4> QED
        BY <3>1, <4>1 DEF GallRec
    <3> QED
      BY <1>10, <3>2, <3>3, <3>4
  <2>2. writes' \in Writes
    BY <1>10, WritesAre DEF OpenGall, CloseGall, AddAlias, DelAlias, Save
  <2> QED
    BY <1>10, <2>1, <2>2
       DEF OpenGall, CloseGall, AddAlias, DelAlias, Typed, undo, jobs, RepTyped, RelTyped
<1>11. ASSUME NEW n \in Names, ReloadBegins(n) PROVE Typed'
  <2>1. PICK g \in Galls :
           /\ ReloadGoesOn(ReloadJob(g), galls[g].pics)
           /\ galls[g].pics \in Seq(Pic)
           /\ ReloadJob(g) \in RelRec
           /\ ReloadJob(g).gall = g /\ ReloadJob(g).pc = "hashing"
    BY <1>11, ReloadBeginsIs
  <2>2. /\ galls' \in [Galls -> GallRec] /\ RelTyped'
        /\ writes' = writes \/ writes' = <<"top", "galls">>
        /\ pidTop' = pidTop \/ pidTop' = pidTop + 1
    BY <2>1, ReloadIs
  <2>3. writes' \in Writes /\ pidTop' \in Nat
    BY <1>0, <2>2, WritesAre
  <2> QED
    BY <1>11, <2>2, <2>3 DEF ReloadBegins, Typed, undo, RepTyped
<1>12. CASE ReloadAppends
  <2>1. /\ ReloadGoesOn(rel, Append(galls[rel.gall].pics, Reloaded))
        /\ Append(galls[rel.gall].pics, Reloaded) \in Seq(Pic)
        /\ rel \in RelRec /\ rel.gall \in Galls /\ rel.pc = "hashing"
    BY <1>12, ReloadAppendsIs
  <2>2. /\ galls' \in [Galls -> GallRec] /\ RelTyped'
        /\ writes' = writes \/ writes' = <<"top", "galls">>
        /\ pidTop' = pidTop \/ pidTop' = pidTop + 1
    BY <2>1, ReloadIs
  <2>3. writes' \in Writes /\ pidTop' \in Nat
    BY <1>0, <2>2, WritesAre
  <2> QED
    BY <1>12, <2>2, <2>3 DEF ReloadAppends, Typed, undo, RepTyped
<1>13. CASE ReloadFails
  BY <1>13 DEF ReloadFails, Typed, store, saved, undo, RepTyped, RelTyped, RelRec, NoRel
<1>14. ASSUME NEW g \in Galls, NEW look \in Looks, DropFile(g, look) PROVE Typed'
  <2>1. /\ files' \subseteq Galls \X (1 .. fileTop') \X Looks
        /\ fileTop' \in Nat
    <3>1. 1 .. fileTop \subseteq 1 .. fileTop + 1 /\ fileTop + 1 \in 1 .. fileTop + 1
      BY DEF Typed
    <3> QED
      BY <1>14, <3>1 DEF DropFile, Typed
  <2> QED
    BY <1>14, <2>1 DEF DropFile, Typed, saved, undo, jobs, RepTyped, RelTyped
<1>15. ASSUME NEW f, TakeFile(f) PROVE Typed'
  BY <1>15 DEF TakeFile, Typed, saved, undo, jobs, RepTyped, RelTyped
<1>16. CASE Crash
  <2>1. /\ pidTop' \in Nat /\ galls' \in [Galls -> GallRec]
        /\ UNCHANGED <<files, fileTop, disk, record>>
    BY <1>16 DEF Crash, Typed
  <2>2. /\ writes' \in Writes /\ busy' \subseteq Names /\ RepTyped' /\ RelTyped'
    BY <1>16, WritesAre DEF Crash, RepTyped, RepRec, RelTyped, RelRec, NoRep, NoRel
  <2>3. undoing' \in [of : Uploads \cup {NoUpload}, left : Seq(Nat)]
    BY <1>16, EmptySeq DEF Crash, NoUndo
  <2>4. UpTyped([NewUp EXCEPT !.pc = "done"])
    <3>1. Images \in 0 .. Images /\ <<>> \in Seq(Nat)
      BY GalleryAssumption, EmptySeq
    <3> QED
      BY <3>1 DEF UpTyped, UpRec, NewUp, Flying
  <2>5. DOMAIN up' = Uploads /\ \A u \in Uploads : UpTyped(up'[u])
    BY <1>0, <1>16, <2>4 DEF Crash
  <2> QED
    BY <2>1, <2>2, <2>3, <2>5 DEF Typed
<1>17. CASE UNCHANGED vars
  BY <1>17 DEF vars, store, saved, jobs, undo, Typed, RepTyped, RelTyped
<1> QED
  BY <1>1, <1>2, <1>3, <1>4, <1>5, <1>6, <1>7, <1>8, <1>9, <1>10, <1>11, <1>12, <1>13,
     <1>14, <1>15, <1>16, <1>17 DEF Next

LEMMA AlwaysTyped == Spec => []Typed
  BY InitIsTyped, StepIsTyped, PTL DEF Spec

----------------------------------------------------------------------------
(* Names and turns.                                                        *)

NamesOf(G, g) == {g} \cup G[g].alias
Apart(G) == \A g, h \in Galls :
    g # h /\ G[g].open /\ G[h].open => NamesOf(G, g) \cap NamesOf(G, h) = {}
SameLabels(G, H) ==
    \A g \in Galls : /\ H[g].open = G[g].open /\ H[g].gen = G[g].gen
                     /\ H[g].alias = G[g].alias

Past(u) == up[u].pc \notin {"idle", "waiting", "done"}

\* The saved galleries are as much apart as those in memory, and the block is
\* taken on the names of the uploads that are past it.
NamesInv ==
    /\ Apart(galls) /\ Apart(disk.galls)
    /\ \A u \in Uploads : Past(u) => up[u].name \in busy
    /\ \A u, v \in Uploads : u # v /\ Past(u) /\ Past(v) => up[u].name # up[v].name

LEMMA InitIsNamed == Init => NamesInv
  BY DEF Init, NamesInv, Apart, NamesOf, Closed, NewUp, Past

\* Only commands about galleries and their names, and a crash, change them.
LEMMA LabelsStay ==
    ASSUME Typed, [Next]_vars,
           ~ Crash,
           \A n \in Names : ~ OpenGall(n) /\ ~ CloseGall(n)
              /\ \A a \in Aliases : ~ AddAlias(n, a) /\ ~ DelAlias(n, a)
    PROVE  SameLabels(galls, galls')
<1>0. galls \in [Galls -> GallRec]
  BY DEF Typed
<1>1. ASSUME NEW g \in Galls, NEW s \in Seq(Pic), WithPics(g, s)
      PROVE  SameLabels(galls, galls')
  BY <1>0, <1>1, WithPicsTyped DEF SameLabels
<1>2. CASE galls' = galls
  BY <1>2 DEF SameLabels
<1>3. ASSUME NEW p, DropPic(p) PROVE SameLabels(galls, galls')
  <2>1. PICK g \in Galls : \E k \in 1 .. Len(galls[g].pics) :
           galls' = [galls EXCEPT ![g].pics = Without(galls[g].pics, k)]
    BY <1>0, <1>3, DropPicIs
  <2> QED
    BY <1>0, <2>1 DEF SameLabels, GallRec
<1>4. ASSUME NEW u \in Uploads, UploadNext(u) PROVE SameLabels(galls, galls')
  <2>1. CASE AddCommits(u)
    <3>1. galls' = galls \/ \E s : WithPics(up[u].gall, s)
      BY <2>1 DEF AddCommits
    <3>2. up[u].gall \in Galls
      BY <2>1 DEF AddCommits, MayAdd, Typed, UpTyped, Flying
    <3> QED
      BY <1>0, <3>1, <3>2, ZenonT(60) DEF SameLabels, WithPics, GallRec
  <2>2. CASE ~ AddCommits(u)
    BY <1>2, <1>4, <2>2
       DEF UploadNext, Ask, Enter, GiveUp, AddBegins, CheckDuplicated, AddRepeats,
           AddFails, AddEnds, Remember, Reply, store
  <2> QED
    BY <2>1, <2>2
<1>5. CASE UndoDeletes \/ \E p : Delete(p)
  BY <1>2, <1>3, <1>5 DEF UndoDeletes, Delete
<1>6. CASE ReplaceCommits
  <2>1. rep.gall \in Galls
    BY <1>6 DEF ReplaceCommits, Typed, RepTyped
  <2>2. galls' = galls \/ \E s : WithPics(rep.gall, s)
    BY <1>6, ReplaceIs
  <2> QED
    BY <1>0, <2>1, <2>2, ZenonT(60) DEF SameLabels, WithPics, GallRec
<1>7. ASSUME NEW n \in Names, ReloadBegins(n) PROVE SameLabels(galls, galls')
  <2>1. PICK g \in Galls :
           /\ ReloadGoesOn(ReloadJob(g), galls[g].pics)
           /\ galls[g].pics \in Seq(Pic)
           /\ ReloadJob(g) \in RelRec
           /\ ReloadJob(g).gall = g /\ ReloadJob(g).pc = "hashing"
    BY <1>7, ReloadBeginsIs
  <2>2. galls' = galls \/ \E s \in Seq(Pic) : WithPics(ReloadJob(g).gall, s)
    <3> HIDE DEF ReloadJob
    <3>1. ReloadJob(g).gall \in Galls
      BY <2>1
    <3> QED
      BY <2>1, <3>1, ReloadIs
  <2> QED
    BY <1>1, <1>2, <2>1, <2>2
<1>8. CASE ReloadAppends
  <2>1. /\ ReloadGoesOn(rel, Append(galls[rel.gall].pics, Reloaded))
        /\ Append(galls[rel.gall].pics, Reloaded) \in Seq(Pic)
        /\ rel \in RelRec /\ rel.gall \in Galls /\ rel.pc = "hashing"
    BY <1>8, ReloadAppendsIs
  <2>2. galls' = galls \/ \E s \in Seq(Pic) : WithPics(rel.gall, s)
    BY <2>1, ReloadIs
  <2> QED
    BY <1>1, <1>2, <2>1, <2>2
<1>9. CASE \/ WriteDisk \/ UndoEnds \/ ReplaceChecks \/ ReplaceFails \/ ReplaceEnds
           \/ ReloadFails \/ UNCHANGED vars
           \/ \E u \in Uploads : UndoBegins(u)
           \/ \E p, look : ReplaceBegins(p, look)
           \/ \E g, look : DropFile(g, look)
           \/ \E f : TakeFile(f)
  BY <1>2, <1>9
     DEF WriteDisk, UndoEnds, ReplaceChecks, ReplaceFails, ReplaceEnds, ReloadFails,
         UndoBegins, ReplaceBegins, DropFile, TakeFile, vars, store
<1> QED
  BY <1>4, <1>5, <1>6, <1>7, <1>8, <1>9 DEF Next

\* The saved galleries change to those in memory, when the second half is written.
LEMMA DiskIs ==
    ASSUME Typed, [Next]_vars
    PROVE  \/ disk' = disk
           \/ WriteDisk /\ writes = <<"top", "galls">> /\ writes' = <<"galls">>
              /\ disk' = [disk EXCEPT !.top = pidTop] /\ disk'.top = pidTop
              /\ disk'.galls = disk.galls
           \/ WriteDisk /\ writes = <<"galls">> /\ writes' = <<>>
              /\ disk' = [disk EXCEPT !.galls = galls] /\ disk'.top = disk.top
              /\ disk'.galls = galls
<1>1. disk \in [top : Nat, galls : [Galls -> GallRec]] /\ writes \in Writes
  BY DEF Typed
<1>2. CASE WriteDisk
  BY <1>1, <1>2, WritesAre DEF WriteDisk
<1>3. CASE ~ WriteDisk
  <2>1. ASSUME NEW u \in Uploads, UploadNext(u) PROVE disk' = disk
    BY <2>1
       DEF UploadNext, Ask, Enter, GiveUp, AddBegins, CheckDuplicated, AddRepeats,
           AddCommits, AddFails, AddEnds, Remember, Reply, saved
  <2> QED
    BY <1>3, <2>1
       DEF Next, vars, UndoBegins, UndoDeletes, UndoEnds, Delete, ReplaceBegins,
           ReplaceChecks, ReplaceCommits, ReplaceFails, ReplaceEnds, OpenGall, CloseGall,
           ReloadBegins, AddAlias, DelAlias, ReloadAppends, ReloadFails, DropFile, TakeFile,
           Crash, saved
<1> QED
  BY <1>2, <1>3

LEMMA StepIsNamed == Typed /\ NamesInv /\ [Next]_vars => NamesInv'
<1> SUFFICES ASSUME Typed, NamesInv, [Next]_vars PROVE NamesInv'
  OBVIOUS
<1>1. Apart(galls')
  <2>0. galls \in [Galls -> GallRec] /\ Apart(galls) /\ Apart(disk.galls)
    BY DEF Typed, NamesInv
  <2>1. CASE Crash
    BY <2>0, <2>1 DEF Crash
  <2>2. ASSUME NEW n \in Names, OpenGall(n) PROVE Apart(galls')
    <3>1. /\ galls' = [galls EXCEPT ![n] = [Closed EXCEPT !.open = TRUE, !.gen = galls[n].gen + 1]]
          /\ n \in Galls /\ Find(n) = {}
      BY <2>2 DEF OpenGall, NameIsFree
    <3>2. NamesOf(galls', n) = {n}
      BY <2>0, <3>1 DEF NamesOf, Closed
    <3>3. \A g \in Galls : g # n => galls'[g] = galls[g] /\ NamesOf(galls', g) = NamesOf(galls, g)
      BY <2>0, <3>1 DEF NamesOf
    <3>4. \A g \in Galls : galls[g].open => n \notin NamesOf(galls, g)
      BY <3>1 DEF Find, NamesOf
    <3> QED
      BY <2>0, <3>2, <3>3, <3>4 DEF Apart
  <2>3. ASSUME NEW n \in Names, CloseGall(n) PROVE Apart(galls')
    <3>1. PICK g \in Galls : galls' = [galls EXCEPT ![g] = [Closed EXCEPT !.gen = galls[g].gen]]
      BY <2>3 DEF CloseGall, Find
    <3>2. ~ galls'[g].open
      BY <2>0, <3>1 DEF Closed
    <3>3. \A h \in Galls : h # g => galls'[h] = galls[h] /\ NamesOf(galls', h) = NamesOf(galls, h)
      BY <2>0, <3>1 DEF NamesOf
    <3> QED
      BY <2>0, <3>2, <3>3 DEF Apart
  <2>4. ASSUME NEW n \in Names, NEW a \in Aliases, AddAlias(n, a) PROVE Apart(galls')
    <3>1. PICK g \in Galls : galls' = [galls EXCEPT ![g].alias = @ \cup {a}]
      BY <2>4 DEF AddAlias, Find
    <3>2. \A h \in Galls : galls[h].open => a \notin NamesOf(galls, h)
      BY <2>4 DEF AddAlias, NameIsFree, Find, NamesOf
    <3>3. /\ NamesOf(galls', g) = NamesOf(galls, g) \cup {a}
          /\ \A h \in Galls : galls'[h].open = galls[h].open
          /\ \A h \in Galls : h # g => NamesOf(galls', h) = NamesOf(galls, h)
      BY <2>0, <3>1 DEF NamesOf, GallRec
    <3> QED
      BY <2>0, <3>2, <3>3 DEF Apart
  <2>5. ASSUME NEW n \in Names, NEW a \in Aliases, DelAlias(n, a) PROVE Apart(galls')
    <3>1. PICK g \in Galls : galls' = [galls EXCEPT ![g].alias = @ \ {a}]
      BY <2>5 DEF DelAlias, Find
    <3>2. \A h \in Galls : /\ galls'[h].open = galls[h].open
                           /\ NamesOf(galls', h) \subseteq NamesOf(galls, h)
      BY <2>0, <3>1 DEF NamesOf, GallRec
    <3> QED
      BY <2>0, <3>2 DEF Apart
  <2>6. CASE SameLabels(galls, galls')
    <3>1. \A g \in Galls : galls'[g].open = galls[g].open /\ NamesOf(galls', g) = NamesOf(galls, g)
      BY <2>6 DEF SameLabels, NamesOf
    <3> QED
      BY <2>0, <3>1 DEF Apart
  <2> QED
    BY <2>1, <2>2, <2>3, <2>4, <2>5, <2>6, LabelsStay
<1>2. Apart(disk'.galls)
  <2>1. disk'.galls \in {disk.galls, galls}
    BY DiskIs
  <2> QED
    BY <2>1 DEF NamesInv
<1> DEFINE TurnsNext ==
             /\ \A u \in Uploads : Past(u)' => up'[u].name \in busy'
             /\ \A u, v \in Uploads : u # v /\ Past(u)' /\ Past(v)' => up'[u].name # up'[v].name
<1>3. TurnsNext
  <2>0. /\ \A u \in Uploads : Past(u) => up[u].name \in busy
        /\ \A u, v \in Uploads : u # v /\ Past(u) /\ Past(v) => up[u].name # up[v].name
        /\ DOMAIN up = Uploads
    BY DEF NamesInv, Typed
  <2>1. ASSUME NEW u \in Uploads, UploadNext(u) PROVE TurnsNext
    <3>1. /\ DOMAIN up' = Uploads
          /\ \A v \in Uploads : v # u => up'[v] = up[v] /\ (Past(v)' <=> Past(v))
      BY <2>1, UploadMovesItself DEF Past
    <3>2. up[u] \in UpRec
      BY DEF Typed, UpTyped
    <3>3. CASE Enter(u)
      <4>1. /\ up[u].name \notin busy /\ busy' = busy \cup {up[u].name}
            /\ up'[u].name = up[u].name
        BY <2>0, <3>2, <3>3 DEF Enter, UpRec
      <4>2. \A v \in Uploads : v # u /\ Past(v)' => up'[v].name \in busy /\ up'[v].name # up[u].name
        BY <2>0, <3>1, <4>1
      <4> QED
        BY <2>0, <3>1, <4>1, <4>2
    <3>4. CASE Reply(u)
      <4>1. /\ Past(u) /\ ~ Past(u)' /\ busy' = busy \ {up[u].name}
        BY <2>0, <3>2, <3>4 DEF Reply, UpRec, Past
      <4>2. \A v \in Uploads : v # u /\ Past(v) => up[v].name # up[u].name
        BY <2>0, <4>1
      <4>3. \A v \in Uploads : Past(v)' => v # u /\ Past(v) /\ up'[v] = up[v]
        BY <3>1, <4>1
      <4> QED
        BY <2>0, <4>1, <4>2, <4>3
    <3>5. CASE \E n \in Names, force \in BOOLEAN : Ask(u, n, force)
      <4>1. ~ Past(u)' /\ busy' = busy
        BY <2>0, <3>2, <3>5 DEF Ask, UpRec, Past
      <4> QED
        BY <2>0, <3>1, <4>1
    <3>6. CASE \/ GiveUp(u) \/ CheckDuplicated(u) \/ AddRepeats(u) \/ AddCommits(u)
               \/ AddFails(u) \/ AddEnds(u) \/ Remember(u)
               \/ \E look \in Looks : AddBegins(u, look)
      <4>1. busy' = busy /\ up'[u].name = up[u].name /\ (Past(u)' => Past(u))
        <5>1. CASE GiveUp(u)
          BY <2>0, <3>2, <5>1 DEF GiveUp, UpRec, Past
        <5>2. CASE CheckDuplicated(u) \/ AddRepeats(u) \/ AddCommits(u)
          BY <2>0, <3>2, <5>2, ZenonT(60) DEF CheckDuplicated, AddRepeats, AddCommits, MayAdd, UpRec, Past
        <5>3. CASE AddFails(u) \/ AddEnds(u) \/ Remember(u)
          BY <2>0, <3>2, <5>3 DEF AddFails, AddEnds, Remember, MayAdd, Reporting, UpRec, Past
        <5>4. ASSUME NEW look \in Looks, AddBegins(u, look)
              PROVE  busy' = busy /\ up'[u].name = up[u].name /\ Past(u)
          <6>1. busy' = busy /\ Past(u)
            BY <5>4 DEF AddBegins, Past
          <6>2. \/ up' = [up EXCEPT ![u].left = @ - 1]
                \/ \E g \in Find(up[u].name) :
                      up' = [up EXCEPT ![u].pc = "hashing", ![u].gall = g,
                                       ![u].gen = galls[g].gen, ![u].pid = pidTop + 1,
                                       ![u].look = look]
            BY <5>4 DEF AddBegins
          <6>3. CASE up' = [up EXCEPT ![u].left = @ - 1]
            BY <2>0, <3>2, <6>1, <6>3 DEF UpRec
          <6>4. ASSUME NEW g \in Find(up[u].name),
                       up' = [up EXCEPT ![u].pc = "hashing", ![u].gall = g,
                                        ![u].gen = galls[g].gen, ![u].pid = pidTop + 1,
                                        ![u].look = look]
                PROVE  up'[u].name = up[u].name
            BY <2>0, <3>2, <6>4 DEF UpRec
          <6> QED
            BY <6>1, <6>2, <6>3, <6>4
        <5> QED
          BY <3>6, <5>1, <5>2, <5>3, <5>4
      <4> QED
        BY <2>0, <3>1, <4>1
    <3> QED
      BY <2>1, <3>3, <3>4, <3>5, <3>6 DEF UploadNext
  <2>2. CASE Crash
    BY <2>2 DEF Crash, Past, NewUp
  <2>3. CASE UNCHANGED <<up, busy>>
    BY <2>0, <2>3 DEF Past
  <2>4. Crash \/ UNCHANGED <<up, busy>> \/ \E u \in Uploads : UploadNext(u)
    BY DEF Next, vars, WriteDisk, UndoBegins, UndoDeletes, UndoEnds, Delete, ReplaceBegins,
           ReplaceChecks, ReplaceCommits, ReplaceFails, ReplaceEnds, OpenGall, CloseGall,
           ReloadBegins, AddAlias, DelAlias, ReloadAppends, ReloadFails, DropFile, TakeFile,
           jobs
  <2> QED
    BY <2>1, <2>2, <2>3, <2>4
<1> QED
  BY <1>1, <1>2, <1>3 DEF NamesInv


\* A name or alias finds one gallery, also after a crash in the middle of a save,
\* and uploads that were given one name take turns even when others gave up
\* waiting for it.
THEOREM NamesAlwaysSound == Spec => []NamesAreSound
<1>1. Typed /\ NamesInv => NamesAreSound
  BY DEF Typed, NamesInv, Apart, NamesOf, Past, NamesAreSound, NamesFindOneGallery,
         SameNameUploadsTakeTurns
<1> QED
  BY <1>1, InitIsNamed, StepIsNamed, AlwaysTyped, PTL DEF Spec

----------------------------------------------------------------------------
(* What a step does to the pictures.                                       *)

Has(G, x) == \E g \in Galls : \E i \in DOMAIN G[g].pics : G[g].pics[i] = x
Shrinks(G, H) == \A g \in Galls : PartOf(H[g].pics, G[g].pics)
Grows(G, H, g, x) ==
    /\ PartOf(H[g].pics, Append(G[g].pics, x))
    /\ \A h \in Galls : h # g => H[h].pics = G[h].pics

\* No two pictures have the same key.
Distinct(G, key) ==
    \A g, h \in Galls : \A i \in DOMAIN G[g].pics, j \in DOMAIN G[h].pics :
        key[G[g].pics[i]] = key[G[h].pics[j]] => g = h /\ i = j
PidOf  == [x \in Pic |-> x.pid]
FileOf == [x \in Pic |-> x.file]

LEMMA Holding ==
    ASSUME NEW G \in [Galls -> GallRec]
    PROVE  /\ \A x : Has(G, x) => x \in Pic
           /\ \A g \in Galls : \A i \in DOMAIN G[g].pics : Has(G, G[g].pics[i])
           /\ \A g \in Galls : /\ G[g].pics \in Seq(Pic)
                               /\ DOMAIN G[g].pics = 1 .. Len(G[g].pics)
                               /\ Len(G[g].pics) \in Nat
<1>1. \A g \in Galls : /\ G[g].pics \in Seq(Pic)
                       /\ DOMAIN G[g].pics = 1 .. Len(G[g].pics)
                       /\ Len(G[g].pics) \in Nat
  BY LenProperties DEF GallRec
<1>2. \A g \in Galls : \A i \in DOMAIN G[g].pics : G[g].pics[i] \in Pic
  BY <1>1, ElementOfSeq
<1> QED
  BY <1>1, <1>2 DEF Has

LEMMA ShrunkHas ==
    ASSUME NEW G, NEW H, Shrinks(G, H)
    PROVE  /\ \A x : Has(H, x) => Has(G, x)
           /\ \A key : Distinct(G, key) => Distinct(H, key)
<1>1. \A g \in Galls : PartOf(H[g].pics, G[g].pics)
  BY DEF Shrinks
<1>2. ASSUME NEW x, Has(H, x) PROVE Has(G, x)
  BY <1>1, <1>2 DEF Has, PartOf
<1>3. ASSUME NEW key, Distinct(G, key), NEW g \in Galls, NEW h \in Galls,
             NEW i \in DOMAIN H[g].pics, NEW j \in DOMAIN H[h].pics,
             key[H[g].pics[i]] = key[H[h].pics[j]]
      PROVE  g = h /\ i = j
  <2>1. PICK p \in [DOMAIN H[g].pics -> DOMAIN G[g].pics] :
           /\ \A a, b \in DOMAIN H[g].pics : p[a] = p[b] => a = b
           /\ \A a \in DOMAIN H[g].pics : H[g].pics[a] = G[g].pics[p[a]]
    BY <1>1 DEF PartOf
  <2>2. PICK q \in [DOMAIN H[h].pics -> DOMAIN G[h].pics] :
           /\ \A a, b \in DOMAIN H[h].pics : q[a] = q[b] => a = b
           /\ \A a \in DOMAIN H[h].pics : H[h].pics[a] = G[h].pics[q[a]]
    BY <1>1 DEF PartOf
  <2>3. g = h /\ p[i] = q[j]
    BY <1>3, <2>1, <2>2 DEF Distinct
  <2>4. H[g].pics[j] = G[g].pics[p[j]] /\ j \in DOMAIN H[g].pics
    BY <2>1, <2>3
  <2>5. p[i] = p[j]
    BY <1>3, <2>1, <2>3, <2>4 DEF Distinct
  <2> QED
    BY <2>1, <2>3, <2>4, <2>5
<1> QED
  BY <1>2, <1>3 DEF Distinct

LEMMA GrownHas ==
    ASSUME NEW G \in [Galls -> GallRec], NEW H, NEW g \in Galls, NEW x \in Pic,
           Grows(G, H, g, x)
    PROVE  /\ \A y : Has(H, y) => Has(G, y) \/ y = x
           /\ \A key : Distinct(G, key) /\ (\A y : Has(G, y) => key[y] # key[x])
                 => Distinct(H, key)
<1> DEFINE s == Append(G[g].pics, x)
           K == [G EXCEPT ![g].pics = s]
<1>0. /\ G[g].pics \in Seq(Pic) /\ DOMAIN G[g].pics = 1 .. Len(G[g].pics)
      /\ Len(G[g].pics) \in Nat
  BY Holding
<1>1. /\ s \in Seq(Pic)
      /\ DOMAIN s = 1 .. Len(G[g].pics) + 1
      /\ \A i \in DOMAIN G[g].pics : s[i] = G[g].pics[i]
      /\ s[Len(G[g].pics) + 1] = x
  BY <1>0, AppendProperties, LenProperties
<1>2. K[g].pics = s /\ \A h \in Galls : h # g => K[h].pics = G[h].pics
  BY DEF GallRec
<1> HIDE DEF s, K
<1>3. Shrinks(K, H)
  <2>1. PartOf(H[g].pics, s) /\ \A h \in Galls : h # g => H[h].pics = G[h].pics
    BY DEF Grows, s
  <2> QED
    BY <1>2, <2>1, PartOfItself DEF Shrinks
<1>4. \A i \in DOMAIN s : i \in DOMAIN G[g].pics \/ (i = Len(G[g].pics) + 1 /\ s[i] = x)
  BY <1>0, <1>1
<1>5. ASSUME NEW y, Has(K, y) PROVE Has(G, y) \/ y = x
  BY <1>1, <1>2, <1>4, <1>5 DEF Has
<1>6. ASSUME NEW key, Distinct(G, key), \A y : Has(G, y) => key[y] # key[x]
      PROVE  Distinct(K, key)
  <2>1. \A h \in Galls : \A j \in DOMAIN G[h].pics : key[G[h].pics[j]] # key[x]
    BY <1>6 DEF Has
  <2>2. ASSUME NEW a \in Galls, NEW b \in Galls, NEW i \in DOMAIN K[a].pics,
               NEW j \in DOMAIN K[b].pics, key[K[a].pics[i]] = key[K[b].pics[j]]
        PROVE  a = b /\ i = j
    <3>1. \/ a = g /\ i = Len(G[g].pics) + 1 /\ K[a].pics[i] = x
          \/ i \in DOMAIN G[a].pics /\ K[a].pics[i] = G[a].pics[i]
      BY <1>1, <1>2, <1>4
    <3>2. \/ b = g /\ j = Len(G[g].pics) + 1 /\ K[b].pics[j] = x
          \/ j \in DOMAIN G[b].pics /\ K[b].pics[j] = G[b].pics[j]
      BY <1>1, <1>2, <1>4
    <3> QED
      BY <1>6, <2>1, <2>2, <3>1, <3>2 DEF Distinct
  <2> QED
    BY <2>2 DEF Distinct
<1> QED
  BY <1>3, <1>5, <1>6, ShrunkHas

LEMMA GrownIsDistinct ==
    ASSUME NEW G \in [Galls -> GallRec], NEW H, NEW g \in Galls, NEW x \in Pic,
           Grows(G, H, g, x), NEW key, Distinct(G, key),
           \A y : Has(G, y) => key[y] # key[x]
    PROVE  Distinct(H, key)
  BY GrownHas

\* A picture y takes the place of another.
LEMMA SwappedHas ==
    ASSUME NEW G \in [Galls -> GallRec], NEW H, NEW g \in Galls,
           NEW k \in DOMAIN G[g].pics, NEW y \in Pic,
           H[g].pics = [G[g].pics EXCEPT ![k] = y],
           \A h \in Galls : h # g => H[h].pics = G[h].pics
    PROVE  /\ \A h \in Galls : DOMAIN H[h].pics = DOMAIN G[h].pics
           /\ H[g].pics[k] = y
           /\ \A h \in Galls : \A i \in DOMAIN G[h].pics :
                 h # g \/ i # k => H[h].pics[i] = G[h].pics[i]
           /\ \A z : Has(H, z) => Has(G, z) \/ z = y
           /\ \A key : Distinct(G, key)
                       /\ (key[y] = key[G[g].pics[k]] \/ \A z : Has(G, z) => key[z] # key[y])
                 => Distinct(H, key)
<1>1. /\ \A h \in Galls : DOMAIN H[h].pics = DOMAIN G[h].pics
      /\ H[g].pics[k] = y
      /\ \A h \in Galls : \A i \in DOMAIN G[h].pics :
            h # g \/ i # k => H[h].pics[i] = G[h].pics[i]
  BY Holding
<1>2. ASSUME NEW z, Has(H, z) PROVE Has(G, z) \/ z = y
  BY <1>1, <1>2 DEF Has
<1>3. ASSUME NEW key, Distinct(G, key),
             key[y] = key[G[g].pics[k]] \/ \A z : Has(G, z) => key[z] # key[y]
      PROVE  Distinct(H, key)
  <2>1. ASSUME NEW a \in Galls, NEW b \in Galls, NEW i \in DOMAIN H[a].pics,
               NEW j \in DOMAIN H[b].pics, key[H[a].pics[i]] = key[H[b].pics[j]]
        PROVE  a = b /\ i = j
    <3>0. i \in DOMAIN G[a].pics /\ j \in DOMAIN G[b].pics
      BY <1>1
    <3>1. CASE key[y] = key[G[g].pics[k]]
      <4>1. key[H[a].pics[i]] = key[G[a].pics[i]]
        BY <1>1, <3>0, <3>1
      <4>2. key[H[b].pics[j]] = key[G[b].pics[j]]
        BY <1>1, <3>0, <3>1
      <4>3. key[G[a].pics[i]] = key[G[b].pics[j]]
        BY <2>1, <4>1, <4>2
      <4>4. Distinct(G, key)
        BY <1>3
      <4> QED
        BY <3>0, <4>3, <4>4 DEF Distinct
    <3>2. CASE \A z : Has(G, z) => key[z] # key[y]
      <4>1. key[G[a].pics[i]] # key[y] /\ key[G[b].pics[j]] # key[y]
        BY <3>0, <3>2 DEF Has
      <4> QED
        BY <1>1, <1>3, <2>1, <3>0, <4>1 DEF Distinct
    <3> QED
      BY <1>3, <3>1, <3>2
  <2> QED
    BY <2>1 DEF Distinct
<1> QED
  BY <1>1, <1>2, <1>3

\* The picture an upload adds.
Added(u) == [pid |-> up[u].pid, file |-> <<up[u].gall, fileTop + 1, up[u].look>>,
             look |-> up[u].look, by |-> u]
SwapsIn(k) ==
    /\ k \in Replaced
    /\ WithPics(rep.gall, [galls[rep.gall].pics EXCEPT ![k] = Changed(@, NewFile)])

LEMMA SameShrinks == \A G : Shrinks(G, G)
  BY PartOfItself DEF Shrinks

LEMMA WithPartShrinks ==
    ASSUME galls \in [Galls -> GallRec], NEW g \in Galls, NEW s \in Seq(Pic),
           WithPics(g, s), PartOf(s, galls[g].pics)
    PROVE  Shrinks(galls, galls')
<1>1. galls'[g].pics = s /\ \A h \in Galls : h # g => galls'[h] = galls[h]
  BY WithPicsTyped
<1> QED
  BY <1>1, PartOfItself DEF Shrinks

LEMMA DropShrinks ==
    ASSUME Typed, NEW p, DropPic(p)
    PROVE  Shrinks(galls, galls')
<1>0. galls \in [Galls -> GallRec]
  BY DEF Typed
<1>1. PICK g \in Galls : \E k \in 1 .. Len(galls[g].pics) :
         galls' = [galls EXCEPT ![g].pics = Without(galls[g].pics, k)]
  BY <1>0, DropPicIs
<1>2. PICK k \in 1 .. Len(galls[g].pics) :
         WithPics(g, Without(galls[g].pics, k))
  BY <1>1 DEF WithPics
<1>3. galls[g].pics \in Seq(Pic)
  BY <1>0 DEF GallRec
<1> QED
  BY <1>0, <1>2, <1>3, WithoutIsPart, WithPartShrinks

\* A commit leaves the pictures, or adds one.
LEMMA CommitGrows ==
    ASSUME Typed, NEW u \in Uploads, AddCommits(u)
    PROVE  \/ galls' = galls
           \/ /\ up[u].gall \in Galls /\ Added(u) \in Pic
              /\ Grows(galls, galls', up[u].gall, Added(u))
<1>0. galls \in [Galls -> GallRec]
  BY DEF Typed
<1>1. /\ up[u].gall \in Galls /\ up[u].look \in Looks /\ up[u].pid \in Nat
      /\ fileTop \in Nat
  BY DEF AddCommits, MayAdd, Typed, UpTyped, UpRec, Flying
<1>2. Added(u) \in Pic
  BY <1>1 DEF Added, Pic, PicFiles
<1>3. galls' = galls \/ WithPics(up[u].gall, Append(galls[up[u].gall].pics, Added(u)))
  BY DEF AddCommits, Added
<1>4. galls[up[u].gall].pics \in Seq(Pic)
  BY <1>0, <1>1, Holding
<1> DEFINE s == Append(galls[up[u].gall].pics, Added(u))
<1>5. s \in Seq(Pic)
  BY <1>2, <1>4, AppendProperties
<1> HIDE DEF s
<1>6. CASE WithPics(up[u].gall, s)
  <2>1. galls'[up[u].gall].pics = s /\ \A h \in Galls : h # up[u].gall => galls'[h] = galls[h]
    BY <1>0, <1>1, <1>5, <1>6, WithPicsTyped
  <2>2. Grows(galls, galls', up[u].gall, Added(u))
    BY <2>1, PartOfItself DEF Grows, s
  <2> QED
    BY <1>1, <1>2, <2>2
<1> QED
  BY <1>3, <1>6 DEF s

\* A reload that goes on leaves the pictures, or adds one.
LEMMA ReloadAppendsGrows ==
    ASSUME Typed, ReloadAppends
    PROVE  \/ Shrinks(galls, galls')
           \/ /\ rel.gall \in Galls /\ Reloaded \in Pic
              /\ Grows(galls, galls', rel.gall, Reloaded)
<1>0. galls \in [Galls -> GallRec]
  BY DEF Typed
<1>1. /\ ReloadGoesOn(rel, Append(galls[rel.gall].pics, Reloaded))
      /\ Append(galls[rel.gall].pics, Reloaded) \in Seq(Pic)
      /\ rel \in RelRec /\ rel.gall \in Galls /\ rel.pc = "hashing" /\ Reloaded \in Pic
  BY ReloadAppendsIs
<1> DEFINE a == Append(galls[rel.gall].pics, Reloaded)
<1>2. galls' = galls \/ \E s \in Seq(Pic) : PartOf(s, a) /\ WithPics(rel.gall, s)
  BY <1>1, ReloadIs
<1> HIDE DEF a
<1>3. ASSUME NEW s \in Seq(Pic), PartOf(s, a), WithPics(rel.gall, s)
      PROVE  Grows(galls, galls', rel.gall, Reloaded)
  <2>1. galls'[rel.gall].pics = s /\ \A h \in Galls : h # rel.gall => galls'[h] = galls[h]
    BY <1>0, <1>1, <1>3, WithPicsTyped
  <2> QED
    BY <1>3, <2>1 DEF Grows, a
<1> QED
  BY <1>1, <1>2, <1>3, SameShrinks

\* Every step takes pictures away, adds one, swaps one, or is a crash.
LEMMA GallsMove ==
    ASSUME Typed, [Next]_vars
    PROVE  \/ Shrinks(galls, galls')
           \/ Crash
           \/ \E u \in Uploads : /\ AddCommits(u) /\ up[u].gall \in Galls /\ Added(u) \in Pic
                                 /\ Grows(galls, galls', up[u].gall, Added(u))
           \/ /\ ReloadAppends /\ rel.gall \in Galls /\ Reloaded \in Pic
              /\ Grows(galls, galls', rel.gall, Reloaded)
           \/ /\ ReplaceCommits /\ rep.gall \in Galls
              /\ \E k \in DOMAIN galls[rep.gall].pics : SwapsIn(k)
<1>0. galls \in [Galls -> GallRec]
  BY DEF Typed
<1>1. galls' = galls => Shrinks(galls, galls')
  BY SameShrinks
<1>2. CASE UndoDeletes \/ \E p : Delete(p)
  BY <1>1, <1>2, DropShrinks DEF UndoDeletes, Delete
<1>3. ASSUME NEW u \in Uploads, UploadNext(u)
      PROVE  \/ galls' = galls
             \/ /\ AddCommits(u) /\ up[u].gall \in Galls /\ Added(u) \in Pic
                /\ Grows(galls, galls', up[u].gall, Added(u))
  <2>1. CASE AddCommits(u)
    BY <2>1, CommitGrows
  <2>2. CASE ~ AddCommits(u)
    BY <1>3, <2>2
       DEF UploadNext, Ask, Enter, GiveUp, AddBegins, CheckDuplicated, AddRepeats,
           AddFails, AddEnds, Remember, Reply, store
  <2> QED
    BY <2>1, <2>2
<1>4. CASE ReplaceCommits
  <2>1. rep.gall \in Galls
    BY <1>4 DEF ReplaceCommits, Typed, RepTyped
  <2>2. galls' = galls \/ \E k \in 1 .. Len(galls[rep.gall].pics) : SwapsIn(k)
    BY <1>4, ReplaceIs DEF SwapsIn
  <2>3. DOMAIN galls[rep.gall].pics = 1 .. Len(galls[rep.gall].pics)
    BY <1>0, <2>1, Holding
  <2> QED
    BY <1>1, <1>4, <2>1, <2>2, <2>3
<1>5. ASSUME NEW n \in Names, ReloadBegins(n) PROVE Shrinks(galls, galls')
  <2>1. PICK g \in Galls :
           /\ ReloadGoesOn(ReloadJob(g), galls[g].pics)
           /\ galls[g].pics \in Seq(Pic)
           /\ ReloadJob(g) \in RelRec
           /\ ReloadJob(g).gall = g /\ ReloadJob(g).pc = "hashing"
    BY <1>5, ReloadBeginsIs
  <2>2. galls' = galls \/ \E s \in Seq(Pic) : PartOf(s, galls[g].pics) /\ WithPics(ReloadJob(g).gall, s)
    <3> HIDE DEF ReloadJob
    <3>1. ReloadJob(g).gall \in Galls
      BY <2>1
    <3> QED
      BY <2>1, <3>1, ReloadIs
  <2> QED
    BY <1>0, <1>1, <2>1, <2>2, WithPartShrinks
<1>6. CASE ReloadAppends
  BY <1>6, ReloadAppendsGrows
<1>7. ASSUME NEW n \in Names,
             OpenGall(n) \/ CloseGall(n) \/ \E a \in Aliases : AddAlias(n, a) \/ DelAlias(n, a)
      PROVE  Shrinks(galls, galls')
  <2>1. \A g \in Galls : galls'[g].pics = <<>> \/ galls'[g].pics = galls[g].pics
    <3>1. CASE OpenGall(n)
      BY <1>0, <3>1 DEF OpenGall, Closed
    <3>2. CASE CloseGall(n)
      BY <1>0, <3>2 DEF CloseGall, Closed, Find
    <3>3. ASSUME NEW a \in Aliases, AddAlias(n, a) \/ DelAlias(n, a)
          PROVE  \A g \in Galls : galls'[g].pics = galls[g].pics
      BY <1>0, <3>3, ZenonT(60) DEF AddAlias, DelAlias, Find, GallRec
    <3> QED
      BY <1>7, <3>1, <3>2, <3>3
  <2> QED
    BY <2>1, NothingIsPart, PartOfItself DEF Shrinks
<1>8. CASE \/ WriteDisk \/ UndoEnds \/ ReplaceChecks \/ ReplaceFails \/ ReplaceEnds
           \/ ReloadFails \/ UNCHANGED vars
           \/ \E u \in Uploads : UndoBegins(u)
           \/ \E p, look : ReplaceBegins(p, look)
           \/ \E g, look : DropFile(g, look)
           \/ \E f : TakeFile(f)
  BY <1>1, <1>8
     DEF WriteDisk, UndoEnds, ReplaceChecks, ReplaceFails, ReplaceEnds, ReloadFails,
         UndoBegins, ReplaceBegins, DropFile, TakeFile, vars, store
<1> QED
  BY <1>1, <1>2, <1>3, <1>4, <1>5, <1>6, <1>7, <1>8 DEF Next

----------------------------------------------------------------------------
(* Pids: those in use, on record and on the disk are up to pid_top, and    *)
(* with one handler at a time none is given twice.                         *)

Below(s, n) == \A i \in DOMAIN s : s[i] \in 1 .. n
PidsIn(G, n) == \A g \in Galls : \A i \in DOMAIN G[g].pics : G[g].pics[i].pid \in 1 .. n

\* The saved pid_top covers the saved galleries, and the record, and covers those
\* in memory when they are the next to be saved.
Bounds ==
    /\ PidsIn(galls, pidTop) /\ PidsIn(disk.galls, disk.top) /\ disk.top <= pidTop
    /\ writes = <<"galls">> => disk.top = pidTop
    /\ \A u \in Uploads :
          /\ Below(up[u].pids, pidTop)
          /\ writes # <<"top", "galls">> => Below(up[u].pids, disk.top)
          /\ up[u].pc = "idle" => up[u].pids = <<>>
          /\ up[u].pc \in {"hashing", "checked"} => up[u].pid \in 1 .. pidTop + 1
          /\ up[u].pc = "thumb" => pidTop # 0
          /\ Below(record[u].pids, disk.top)
    /\ rel.pc = "hashing" => rel.pid \in 1 .. pidTop

Flies(u) == up[u].pc \in Flying
OneJob ==
    /\ \A u, v \in Uploads : Flies(u) /\ Flies(v) => u = v
    /\ \A u \in Uploads : Flies(u) => rep.pc = "off" /\ rel.pc = "off"
    /\ rep.pc = "off" \/ rel.pc = "off"

\* The pid a handler has chosen is nobody's.
Fresh ==
    /\ \A u \in Uploads : up[u].pc \in {"hashing", "checked"} => up[u].pid = pidTop + 1
    /\ rel.pc = "hashing" =>
          /\ rel.pid = pidTop
          /\ \A g \in Galls : \A i \in DOMAIN galls[g].pics : galls[g].pics[i].pid # pidTop
PidsInv == OneJob /\ Fresh /\ Distinct(galls, PidOf) /\ Distinct(disk.galls, PidOf)

\* How an upload goes on, and what becomes of its pid and of those it has added.
Rests(u) ==
    /\ up'[u].pc \notin Flying /\ up'[u].pc # "idle" /\ up'[u].pids = up[u].pids
    /\ pidTop' = pidTop /\ galls' = galls /\ writes' = writes
    /\ record' = record \/ Remember(u)
TakesOff(u) ==
    /\ Free /\ InFlight < MaxInFlight
    /\ up'[u].pc = "hashing" /\ up'[u].pid = pidTop + 1 /\ up'[u].pids = up[u].pids
    /\ pidTop' = pidTop /\ galls' = galls /\ writes' = writes /\ record' = record
HasChecked(u) ==
    /\ up[u].pc = "hashing" /\ up'[u].pc = "checked"
    /\ up'[u].pid = up[u].pid /\ up'[u].pids = up[u].pids
    /\ pidTop' = pidTop /\ galls' = galls /\ writes' = writes /\ record' = record
Commits(u) ==
    /\ AddCommits(u) /\ Free
    /\ up[u].pc \in {"hashing", "checked"} /\ up'[u].pc = "thumb" /\ up'[u].pids = up[u].pids
    /\ pidTop' = pidTop + 1 /\ writes' = writes /\ record' = record
Fails(u) ==
    /\ Free
    /\ up[u].pc \in {"hashing", "checked"} /\ up'[u].pc = "next" /\ up'[u].pids = up[u].pids
    /\ pidTop' = pidTop + 1 /\ galls' = galls /\ writes' = writes /\ record' = record
Lands(u) ==
    /\ Free
    /\ up[u].pc = "thumb" /\ up'[u].pc = "next" /\ up'[u].pids = Append(up[u].pids, pidTop)
    /\ pidTop' = pidTop /\ galls' = galls /\ writes' = <<"top", "galls">> /\ record' = record

LEMMA AddEndsLands ==
    ASSUME Typed, NEW u \in Uploads, AddEnds(u)
    PROVE  Lands(u)
<1>0. up[u] \in UpRec /\ DOMAIN up = Uploads
  BY DEF Typed, UpTyped
<1>1. /\ Free /\ up[u].pc = "thumb" /\ writes' = <<"top", "galls">>
      /\ pidTop' = pidTop /\ galls' = galls /\ record' = record
  BY DEF AddEnds, Save, store, undo
<1> DEFINE s == Append(up[u].pids, pidTop)
           l == up[u].left - 1
<1>2. up' = [up EXCEPT ![u].pc = "next", ![u].left = l, ![u].pids = s]
  BY DEF AddEnds
<1>3. s = Append(up[u].pids, pidTop)
  OBVIOUS
<1> HIDE DEF s, l
<1>4. up'[u].pc = "next" /\ up'[u].pids = s
  BY <1>0, <1>2 DEF UpRec
<1> QED
  BY <1>1, <1>3, <1>4 DEF Lands

LEMMA UploadGoesOn ==
    ASSUME Typed, NEW u \in Uploads, UploadNext(u)
    PROVE  /\ Rests(u) \/ TakesOff(u) \/ HasChecked(u) \/ Commits(u) \/ Fails(u) \/ Lands(u)
           /\ rep' = rep /\ rel' = rel /\ disk' = disk /\ undoing' = undoing
<1>0. up[u] \in UpRec /\ DOMAIN up = Uploads /\ pidTop \in Nat
  BY DEF Typed, UpTyped
<1>1. rep' = rep /\ rel' = rel /\ disk' = disk /\ undoing' = undoing
  BY DEF UploadNext, Ask, Enter, GiveUp, AddBegins, CheckDuplicated, AddRepeats,
         AddCommits, AddFails, AddEnds, Remember, Reply, saved, undo
<1>2. CASE \E n \in Names, force \in BOOLEAN : Ask(u, n, force)
  BY <1>0, <1>2 DEF Ask, UpRec, Flying, Rests, store, saved, undo
<1>3. CASE Enter(u) \/ GiveUp(u) \/ AddRepeats(u) \/ Reply(u)
  BY <1>0, <1>3 DEF Enter, GiveUp, AddRepeats, Reply, UpRec, Flying, Rests, store, saved, undo
<1>4. CASE Remember(u)
  BY <1>0, <1>4 DEF Remember, UpRec, Flying, Rests, store, saved
<1>5. ASSUME NEW look \in Looks, AddBegins(u, look) PROVE Rests(u) \/ TakesOff(u)
  <2>1. /\ Free /\ up[u].pc = "next"
        /\ pidTop' = pidTop /\ galls' = galls /\ writes' = writes /\ record' = record
    BY <1>5 DEF AddBegins, store, saved, undo
  <2>2. CASE up' = [up EXCEPT ![u].left = @ - 1]
    BY <1>0, <2>1, <2>2 DEF UpRec, Flying, Rests
  <2>3. ASSUME NEW g \in Find(up[u].name), InFlight < MaxInFlight,
               up' = [up EXCEPT ![u].pc = "hashing", ![u].gall = g, ![u].gen = galls[g].gen,
                                ![u].pid = pidTop + 1, ![u].look = look]
        PROVE  TakesOff(u)
    <3> DEFINE n == galls[g].gen
               p == pidTop + 1
    <3>1. up' = [up EXCEPT ![u].pc = "hashing", ![u].gall = g, ![u].gen = n,
                           ![u].pid = p, ![u].look = look]
      BY <2>3
    <3>2. p = pidTop + 1
      OBVIOUS
    <3> HIDE DEF n, p
    <3>3. up'[u].pc = "hashing" /\ up'[u].pid = p /\ up'[u].pids = up[u].pids
      BY <1>0, <3>1 DEF UpRec
    <3> QED
      BY <2>1, <2>3, <3>2, <3>3 DEF TakesOff
  <2> QED
    BY <1>5, <2>2, <2>3 DEF AddBegins
<1>6. CASE CheckDuplicated(u)
  BY <1>0, <1>6 DEF CheckDuplicated, UpRec, HasChecked, store, saved, undo
<1>7. CASE AddCommits(u)
  BY <1>0, <1>7 DEF AddCommits, MayAdd, UpRec, Commits, saved, undo
<1>8. CASE AddFails(u)
  BY <1>0, <1>8 DEF AddFails, MayAdd, UpRec, Fails, saved, undo
<1>9. CASE AddEnds(u)
  BY <1>1, <1>9, AddEndsLands
<1> QED
  BY <1>1, <1>2, <1>3, <1>4, <1>5, <1>6, <1>7, <1>8, <1>9 DEF UploadNext

\* An upload that makes a thumbnail goes on by saving.
LEMMA ThumbOnlyLands ==
    ASSUME Typed, NEW u \in Uploads, UploadNext(u), up[u].pc = "thumb"
    PROVE  Lands(u)
<1>1. AddEnds(u)
  BY DEF UploadNext, Ask, Enter, GiveUp, AddBegins, CheckDuplicated, AddRepeats, AddCommits,
         AddFails, MayAdd, Remember, Reporting, Reply
<1>2. Lands(u)
  BY <1>1, AddEndsLands
<1> QED
  BY <1>2

\* How the reload goes on.
RelGoesOn ==
    \/ rel' = NoRel
    \/ /\ rel'.pc = "hashing" /\ rel'.pid = pidTop + 1 /\ pidTop' = pidTop + 1
       /\ Free /\ writes' = writes
       /\ ReloadAppends \/ (InFlight < MaxInFlight /\ Shrinks(galls, galls'))
RelMoves == rel' = rel \/ RelGoesOn

LEMMA ReloadMoves ==
    ASSUME Typed
    PROVE  /\ \A n : ReloadBegins(n) =>
                 /\ RelGoesOn /\ Free /\ InFlight < MaxInFlight /\ rel.pc = "off"
                 /\ writes' = writes \/ writes' = <<"top", "galls">>
                 /\ pidTop' = pidTop \/ (rel'.pc = "hashing" /\ pidTop' = pidTop + 1)
           /\ ReloadAppends =>
                 /\ RelGoesOn /\ Free /\ rel.pc = "hashing"
                 /\ writes' = writes \/ writes' = <<"top", "galls">>
                 /\ pidTop' = pidTop \/ (rel'.pc = "hashing" /\ pidTop' = pidTop + 1)
<1>0. galls \in [Galls -> GallRec] /\ pidTop \in Nat
  BY DEF Typed
<1>1. ASSUME NEW job \in RelRec, NEW f, job.pc = "hashing",
             rel' = [job EXCEPT !.file = f, !.pid = pidTop + 1, !.todo = @ \ {f}]
      PROVE  rel'.pc = "hashing" /\ rel'.pid = pidTop + 1
  <2> DEFINE p == pidTop + 1
             T == job.todo \ {f}
  <2>1. rel' = [job EXCEPT !.file = f, !.pid = p, !.todo = T]
    BY <1>1
  <2>2. p = pidTop + 1
    OBVIOUS
  <2> HIDE DEF p, T
  <2>3. rel'.pc = "hashing" /\ rel'.pid = p
    BY <1>1, <2>1 DEF RelRec
  <2> QED
    BY <2>2, <2>3
<1>2. ASSUME NEW n, ReloadBegins(n)
      PROVE  /\ RelGoesOn /\ Free /\ InFlight < MaxInFlight /\ rel.pc = "off"
             /\ writes' = writes \/ writes' = <<"top", "galls">>
             /\ pidTop' = pidTop \/ (rel'.pc = "hashing" /\ pidTop' = pidTop + 1)
  <2>0. Free /\ InFlight < MaxInFlight /\ rel.pc = "off"
    BY <1>2 DEF ReloadBegins
  <2>1. PICK g \in Galls :
           /\ ReloadGoesOn(ReloadJob(g), galls[g].pics)
           /\ galls[g].pics \in Seq(Pic)
           /\ ReloadJob(g) \in RelRec
           /\ ReloadJob(g).gall = g /\ ReloadJob(g).pc = "hashing"
    BY <1>2, ReloadBeginsIs
  <2> HIDE DEF ReloadJob
  <2>4. ReloadJob(g).gall \in Galls
    BY <2>1
  <2>2. /\ galls' = galls \/ \E s \in Seq(Pic) :
              PartOf(s, galls[g].pics) /\ WithPics(ReloadJob(g).gall, s)
        /\ \/ rel' = NoRel /\ pidTop' = pidTop /\ writes' = <<"top", "galls">>
           \/ /\ \E f \in ReloadJob(g).todo :
                    rel' = [ReloadJob(g) EXCEPT !.file = f, !.pid = pidTop + 1,
                                                !.todo = @ \ {f}]
              /\ pidTop' = pidTop + 1 /\ writes' = writes
    BY <2>1, <2>4, ReloadIs
  <2>3. Shrinks(galls, galls')
    <3>1. galls' = galls \/ \E s \in Seq(Pic) : PartOf(s, galls[g].pics) /\ WithPics(g, s)
      BY <2>1, <2>2
    <3> QED
      BY <1>0, <3>1, SameShrinks, WithPartShrinks
  <2>5. \/ rel' = NoRel /\ pidTop' = pidTop
        \/ rel'.pc = "hashing" /\ rel'.pid = pidTop + 1 /\ pidTop' = pidTop + 1 /\ writes' = writes
    BY <1>1, <2>1, <2>2
  <2> QED
    BY <2>0, <2>2, <2>3, <2>5 DEF RelGoesOn
<1>3. ASSUME ReloadAppends
      PROVE  /\ RelGoesOn /\ Free /\ rel.pc = "hashing"
             /\ writes' = writes \/ writes' = <<"top", "galls">>
             /\ pidTop' = pidTop \/ (rel'.pc = "hashing" /\ pidTop' = pidTop + 1)
  <2>1. /\ ReloadGoesOn(rel, Append(galls[rel.gall].pics, Reloaded))
        /\ Append(galls[rel.gall].pics, Reloaded) \in Seq(Pic)
        /\ rel \in RelRec /\ rel.gall \in Galls /\ rel.pc = "hashing"
    BY <1>3, ReloadAppendsIs
  <2>2. /\ \/ rel' = NoRel /\ pidTop' = pidTop /\ writes' = <<"top", "galls">>
           \/ /\ \E f \in rel.todo :
                    rel' = [rel EXCEPT !.file = f, !.pid = pidTop + 1, !.todo = @ \ {f}]
              /\ pidTop' = pidTop + 1 /\ writes' = writes
    BY <2>1, ReloadIs
  <2>3. Free
    BY <1>3 DEF ReloadAppends
  <2>4. \/ rel' = NoRel /\ pidTop' = pidTop
        \/ rel'.pc = "hashing" /\ rel'.pid = pidTop + 1 /\ pidTop' = pidTop + 1 /\ writes' = writes
    BY <1>1, <2>1, <2>2
  <2> QED
    BY <1>3, <2>1, <2>2, <2>3, <2>4 DEF RelGoesOn
<1> QED
  BY <1>2, <1>3

\* What a step other than a crash does to pid_top, the uploads, the record and the
\* reload.
LEMMA StepMoves ==
    ASSUME Typed, [Next]_vars, ~ Crash
    PROVE  /\ \/ pidTop' = pidTop
              \/ pidTop' = pidTop + 1 /\ writes = <<>>
           /\ writes' = writes \/ writes' = <<"top", "galls">> \/ WriteDisk
           /\ \/ \E u \in Uploads : UploadNext(u) /\ rel' = rel
              \/ /\ up' = up
                 /\ \A u \in Uploads : record'[u].pids = record[u].pids
                 /\ pidTop' = pidTop \/ (rel'.pc = "hashing" /\ RelGoesOn)
           /\ RelMoves
<1>0. /\ record \in [Uploads -> [pids : Seq(Nat), reverted : BOOLEAN]] /\ pidTop \in Nat
      /\ rel.pc # "off" => rel.pc = "hashing"
  BY DEF Typed, RelTyped, RelRec
<1>1. ASSUME NEW u \in Uploads, UploadNext(u)
      PROVE  /\ \/ pidTop' = pidTop
                \/ pidTop' = pidTop + 1 /\ writes = <<>>
             /\ writes' = writes \/ writes' = <<"top", "galls">>
             /\ rel' = rel
  BY <1>1, UploadGoesOn
     DEF Rests, TakesOff, HasChecked, Commits, Fails, Lands, Free
<1>2. CASE (\E n : ReloadBegins(n)) \/ ReloadAppends
  <2>1. up' = up /\ record' = record
    BY <1>2 DEF ReloadBegins, ReloadAppends, undo
  <2> QED
    BY <1>2, <2>1, ReloadMoves DEF Free, RelMoves
<1>3. CASE UndoEnds
  <2>1. /\ record' = [record EXCEPT ![undoing.of].reverted = TRUE]
        /\ up' = up /\ pidTop' = pidTop /\ writes' = writes /\ rel' = rel /\ rel.pc' = rel.pc
    BY <1>3 DEF UndoEnds, store, saved, jobs
  <2>2. \A u \in Uploads : record'[u].pids = record[u].pids
    BY <1>0, <2>1
  <2> QED
    BY <2>1, <2>2 DEF RelMoves
<1>4. CASE \/ WriteDisk \/ UndoDeletes \/ ReplaceChecks \/ ReplaceCommits
           \/ ReplaceFails \/ ReplaceEnds \/ ReloadFails \/ UNCHANGED vars
           \/ \E u \in Uploads : UndoBegins(u)
           \/ \E p : Delete(p) \/ \E look : ReplaceBegins(p, look)
           \/ \E g, look : DropFile(g, look)
           \/ \E f : TakeFile(f)
           \/ \E n : OpenGall(n) \/ CloseGall(n) \/ \E a : AddAlias(n, a) \/ DelAlias(n, a)
  <2>1. pidTop' = pidTop /\ up' = up /\ record' = record /\ (rel' = rel \/ rel' = NoRel)
    BY <1>4
       DEF WriteDisk, ReplaceChecks, ReplaceCommits, ReplaceFails, ReplaceEnds, ReloadFails,
           UndoBegins, UndoDeletes, Delete, ReplaceBegins, DropFile, TakeFile, OpenGall,
           CloseGall, AddAlias, DelAlias, vars, store, jobs, undo
  <2>2. writes' = writes \/ writes' = <<"top", "galls">> \/ WriteDisk
    BY <1>4
       DEF ReplaceChecks, ReplaceCommits, ReplaceFails, ReplaceEnds, ReloadFails,
           UndoBegins, UndoDeletes, Delete, ReplaceBegins, DropFile, TakeFile, OpenGall,
           CloseGall, AddAlias, DelAlias, Save, vars, saved
  <2> QED
    BY <2>1, <2>2 DEF RelMoves, RelGoesOn
<1> QED
  BY <1>1, <1>2, <1>3, <1>4 DEF Next, RelMoves

LEMMA PidsAndHas ==
    ASSUME NEW G, NEW n
    PROVE  PidsIn(G, n) <=> \A x : Has(G, x) => x.pid \in 1 .. n
  BY DEF PidsIn, Has

LEMMA BelowMore ==
    ASSUME NEW m \in Nat, NEW n \in Nat, m <= n
    PROVE  /\ \A s : Below(s, m) => Below(s, n)
           /\ \A G : PidsIn(G, m) => PidsIn(G, n)
  BY DEF Below, PidsIn

LEMMA BelowAppended ==
    ASSUME NEW s \in Seq(Nat), NEW n \in Nat, NEW p \in 1 .. n, Below(s, n)
    PROVE  Below(Append(s, p), n)
<1>1. /\ DOMAIN s = 1 .. Len(s) /\ Len(s) \in Nat
      /\ DOMAIN Append(s, p) = 1 .. Len(s) + 1
      /\ \A i \in 1 .. Len(s) : Append(s, p)[i] = s[i]
      /\ Append(s, p)[Len(s) + 1] = p
  BY AppendProperties, LenProperties
<1>2. ASSUME NEW i \in 1 .. Len(s) + 1 PROVE Append(s, p)[i] \in 1 .. n
  <2>1. CASE i = Len(s) + 1
    BY <1>1, <2>1
  <2>2. CASE i # Len(s) + 1
    <3>1. i \in 1 .. Len(s)
      BY <1>1, <2>2
    <3> QED
      BY <1>1, <3>1 DEF Below
  <2> QED
    BY <2>1, <2>2
<1> QED
  BY <1>1, <1>2 DEF Below

LEMMA NoneBelow == \A n : Below(<<>>, n)
  BY DEF Below

LEMMA InitIsBounded == Init => Bounds
<1> SUFFICES ASSUME Init PROVE Bounds
  OBVIOUS
<1>1. PidsIn(galls, pidTop) /\ PidsIn(disk.galls, disk.top)
  BY DEF Init, Closed, PidsIn
<1>2. pidTop = 0 /\ disk.top = 0 /\ writes # <<"galls">>
  BY WritesAre DEF Init
<1>3. \A u \in Uploads : up[u].pc = "idle" /\ up[u].pids = <<>> /\ record[u].pids = <<>>
  BY DEF Init, NewUp
<1>4. rel.pc = "off"
  BY DEF Init, NoRel
<1> QED
  BY <1>1, <1>2, <1>3, <1>4, NoneBelow DEF Bounds

\* A crash: memory is what was saved.
LEMMA CrashIs ==
    ASSUME Typed, Crash
    PROVE  /\ pidTop' = disk.top /\ galls' = disk.galls /\ writes' = <<>> /\ disk' = disk
           /\ rep'.pc = "off" /\ rel'.pc = "off" /\ undoing' = NoUndo
           /\ record' = record
           /\ \A u \in Uploads :
                 \/ up[u].pc = "idle" /\ up'[u] = up[u]
                 \/ up'[u].pc = "done" /\ up'[u].pids = <<>>
  BY DEF Crash, NewUp, NoRep, NoRel

LEMMA SwapHas ==
    ASSUME Typed, ReplaceCommits, rep.gall \in Galls,
           NEW k \in DOMAIN galls[rep.gall].pics, SwapsIn(k)
    PROVE  /\ Has(galls, galls[rep.gall].pics[k])
           /\ Changed(galls[rep.gall].pics[k], NewFile)
                 = [galls[rep.gall].pics[k] EXCEPT !.file = NewFile, !.look = rep.look]
           /\ Changed(galls[rep.gall].pics[k], NewFile).pid = galls[rep.gall].pics[k].pid
           /\ Changed(galls[rep.gall].pics[k], NewFile).by = galls[rep.gall].pics[k].by
           /\ Changed(galls[rep.gall].pics[k], NewFile).file = NewFile
           /\ \A z : Has(galls', z) =>
                 Has(galls, z) \/ z = Changed(galls[rep.gall].pics[k], NewFile)
           /\ Distinct(galls, PidOf) => Distinct(galls', PidOf)
           /\ Distinct(galls, FileOf) /\ (\A z : Has(galls, z) => z.file # NewFile)
                 => Distinct(galls', FileOf)
<1> DEFINE g == rep.gall
           x == galls[g].pics[k]
           y == Changed(x, NewFile)
           s == [galls[g].pics EXCEPT ![k] = y]
<1>0. galls \in [Galls -> GallRec] /\ Has(galls, x) /\ x \in Pic
      /\ galls[g].pics \in Seq(Pic) /\ DOMAIN galls[g].pics = 1 .. Len(galls[g].pics)
      /\ Len(galls[g].pics) \in Nat
  BY Holding DEF Typed
<1>1. NewFile \in PicFiles /\ rep.look \in Looks
  <2>1. NewFile \in Galls \X (1 .. fileTop + 1) \X Looks
    BY ReplaceIs
  <2> QED
    BY <2>1 DEF PicFiles, Typed, RepTyped, ReplaceCommits
<1>2. /\ y = [x EXCEPT !.file = NewFile, !.look = rep.look]
      /\ y \in Pic /\ y.pid = x.pid /\ y.by = x.by /\ y.file = NewFile
  <2> HIDE DEF x
  <2> DEFINE f == NewFile
  <2>1. y = [x EXCEPT !.file = f, !.look = rep.look] /\ f \in PicFiles
    BY <1>1 DEF Changed
  <2> HIDE DEF f, y
  <2>2. y \in Pic /\ y.pid = x.pid /\ y.by = x.by /\ y.file = f
    BY <1>0, <1>1, <2>1 DEF Pic
  <2> QED
    BY <2>1, <2>2 DEF f
<1> HIDE DEF y
<1>3. WithPics(g, s)
  BY DEF SwapsIn, y
<1>4. s \in Seq(Pic)
  BY <1>0, <1>2, ExceptSeq
<1>5. galls'[g].pics = [galls[g].pics EXCEPT ![k] = y]
      /\ \A h \in Galls : h # g => galls'[h].pics = galls[h].pics
  <2> HIDE DEF s
  <2>1. galls'[g].pics = s /\ \A h \in Galls : h # g => galls'[h] = galls[h]
    BY <1>0, <1>3, <1>4, WithPicsTyped
  <2> QED
    BY <2>1 DEF s
<1>6. /\ \A z : Has(galls', z) => Has(galls, z) \/ z = y
      /\ \A key : Distinct(galls, key)
                  /\ (key[y] = key[x] \/ \A z : Has(galls, z) => key[z] # key[y])
            => Distinct(galls', key)
  <2> HIDE DEF x
  <2>1. x = galls[g].pics[k]
    BY DEF x
  <2> HIDE DEF g
  <2>2. g \in Galls /\ k \in DOMAIN galls[g].pics
    BY DEF g
  <2> QED
    BY <1>0, <1>2, <1>5, <2>1, <2>2, SwappedHas
<1>7. Distinct(galls, PidOf) => Distinct(galls', PidOf)
  <2>1. PidOf[y] = PidOf[x]
    BY <1>0, <1>2 DEF PidOf
  <2> QED
    BY <1>6, <2>1
<1>8. Distinct(galls, FileOf) /\ (\A z : Has(galls, z) => z.file # NewFile)
         => Distinct(galls', FileOf)
  <2>1. FileOf[y] = NewFile /\ \A z : Has(galls, z) => z \in Pic /\ FileOf[z] = z.file
    BY <1>0, <1>2, Holding DEF FileOf
  <2> QED
    BY <1>6, <2>1
<1> QED
  BY <1>0, <1>2, <1>6, <1>7, <1>8 DEF y

LEMMA WriteIs ==
    ASSUME Typed, WriteDisk
    PROVE  \/ /\ writes = <<"top", "galls">> /\ writes' = <<"galls">>
              /\ disk'.top = pidTop /\ disk'.galls = disk.galls
           \/ /\ writes = <<"galls">> /\ writes' = <<>>
              /\ disk'.top = disk.top /\ disk'.galls = galls
<1>1. disk \in [top : Nat, galls : [Galls -> GallRec]] /\ writes \in Writes
  BY DEF Typed
<1> QED
  BY <1>1, WritesAre DEF WriteDisk

\* An upload leaves the others and their record alone.
LEMMA OthersStay ==
    ASSUME Typed, NEW u \in Uploads, NEW v \in Uploads, u # v, UploadNext(v)
    PROVE  up'[u] = up[u] /\ record'[u] = record[u]
<1>1. up'[u] = up[u]
  BY UploadMovesItself
<1>2. record' = record \/ Remember(v)
  BY UploadGoesOn DEF Rests, TakesOff, HasChecked, Commits, Fails, Lands
<1>3. DOMAIN record = Uploads
  BY DEF Typed
<1> QED
  BY <1>1, <1>2, <1>3 DEF Remember

LEMMA StepIsBounded == Typed /\ Bounds /\ [Next]_vars => Bounds'
<1> SUFFICES ASSUME Typed, Bounds, [Next]_vars PROVE Bounds'
  OBVIOUS
<1>0. /\ galls \in [Galls -> GallRec] /\ pidTop \in Nat /\ disk.top \in Nat
      /\ disk'.top \in Nat /\ pidTop' \in Nat
      /\ \A u \in Uploads : up[u].pids \in Seq(Nat)
  BY StepIsTyped DEF Typed, UpTyped, UpRec
<1>1. CASE Crash
  <2>1. /\ pidTop' = disk.top /\ galls' = disk.galls /\ writes' = <<>> /\ disk' = disk
        /\ rel'.pc = "off" /\ record' = record
        /\ \A u \in Uploads :
              \/ up[u].pc = "idle" /\ up'[u] = up[u]
              \/ up'[u].pc = "done" /\ up'[u].pids = <<>>
    BY <1>1, CrashIs
  <2>2. \A u \in Uploads : up'[u].pids = <<>>
                           /\ up'[u].pc \notin Flying
    BY <2>1 DEF Bounds, Flying
  <2> QED
    BY <1>0, <2>1, <2>2, WritesAre, NoneBelow DEF Bounds, Flying
<1>2. CASE ~ Crash
  <2>1. /\ \/ pidTop' = pidTop
           \/ pidTop' = pidTop + 1 /\ writes = <<>>
        /\ writes' = writes \/ writes' = <<"top", "galls">> \/ WriteDisk
        /\ \/ \E u \in Uploads : UploadNext(u) /\ rel' = rel
           \/ /\ up' = up
              /\ \A u \in Uploads : record'[u].pids = record[u].pids
              /\ pidTop' = pidTop \/ (rel'.pc = "hashing" /\ RelGoesOn)
        /\ RelMoves
    BY <1>2, StepMoves
  <2>2. pidTop <= pidTop'
    BY <1>0, <2>1
  <2>3. PidsIn(galls', pidTop')
    <3>1. PidsIn(galls, pidTop')
      BY <1>0, <2>2, BelowMore DEF Bounds
    <3>2. \A x : Has(galls, x) => x.pid \in 1 .. pidTop'
      BY <3>1, PidsAndHas
    <3>3. CASE Shrinks(galls, galls')
      BY <3>2, <3>3, ShrunkHas, PidsAndHas
    <3>4. ASSUME NEW u \in Uploads, AddCommits(u), up[u].gall \in Galls, Added(u) \in Pic,
                 Grows(galls, galls', up[u].gall, Added(u))
          PROVE  PidsIn(galls', pidTop')
      <4>1. Added(u).pid \in 1 .. pidTop'
        <5>1. up[u].pid \in 1 .. pidTop + 1 /\ pidTop' = pidTop + 1
          BY <3>4 DEF AddCommits, MayAdd, Bounds
        <5> QED
          BY <5>1 DEF Added
      <4> QED
        BY <1>0, <3>2, <3>4, <4>1, GrownHas, PidsAndHas
    <3>5. ASSUME ReloadAppends, rel.gall \in Galls, Reloaded \in Pic,
                 Grows(galls, galls', rel.gall, Reloaded)
          PROVE  PidsIn(galls', pidTop')
      <4>1. Reloaded.pid \in 1 .. pidTop'
        <5>1. rel.pid \in 1 .. pidTop
          BY <3>5 DEF ReloadAppends, Bounds
        <5> QED
          BY <1>0, <2>2, <5>1 DEF Reloaded
      <4> QED
        BY <1>0, <3>2, <3>5, <4>1, GrownHas, PidsAndHas
    <3>6. ASSUME ReplaceCommits, rep.gall \in Galls, NEW k \in DOMAIN galls[rep.gall].pics, SwapsIn(k)
          PROVE  PidsIn(galls', pidTop')
      BY <1>0, <3>2, <3>6, SwapHas, PidsAndHas
    <3> QED
      BY <1>2, <3>3, <3>4, <3>5, <3>6, GallsMove
  <2>4. /\ PidsIn(disk'.galls, disk'.top) /\ disk'.top <= pidTop' /\ disk.top <= disk'.top
        /\ writes' = <<"galls">> => disk'.top = pidTop'
        /\ disk'.top = disk.top \/ disk'.top = pidTop'
    <3>1. CASE disk' = disk /\ ~ WriteDisk
      <4>1. disk'.top <= pidTop'
        BY <1>0, <2>2, <3>1 DEF Bounds
      <4>2. writes' = <<"galls">> => writes = <<"galls">> /\ pidTop' = pidTop
        BY <2>1, <3>1, WritesAre
      <4> QED
        BY <1>0, <3>1, <4>1, <4>2 DEF Bounds
    <3>2. CASE WriteDisk
      <4>1. pidTop' = pidTop
        BY <3>2 DEF WriteDisk, store
      <4>2. \/ writes = <<"top", "galls">> /\ disk'.top = pidTop /\ disk'.galls = disk.galls
            \/ writes = <<"galls">> /\ writes' = <<>> /\ disk'.top = disk.top /\ disk'.galls = galls
        BY <3>2, WriteIs
      <4> QED
        BY <1>0, <4>1, <4>2, BelowMore, WritesAre DEF Bounds
    <3> QED
      BY <3>1, <3>2, DiskIs
  <2>5. ASSUME NEW u \in Uploads
        PROVE  /\ Below(up'[u].pids, pidTop')
               /\ writes' # <<"top", "galls">> => Below(up'[u].pids, disk'.top)
               /\ up'[u].pc = "idle" => up'[u].pids = <<>>
               /\ up'[u].pc \in {"hashing", "checked"} => up'[u].pid \in 1 .. pidTop' + 1
               /\ up'[u].pc = "thumb" => pidTop' # 0
               /\ Below(record'[u].pids, disk'.top)
    <3>1. /\ Below(up[u].pids, pidTop') /\ Below(record[u].pids, disk'.top)
          /\ writes # <<"top", "galls">> => Below(up[u].pids, disk'.top)
      BY <1>0, <2>2, <2>4, BelowMore DEF Bounds
    <3>2. writes' # <<"top", "galls">> => Below(up[u].pids, disk'.top)
      <4>1. CASE writes = <<"top", "galls">> /\ WriteDisk
        <5>1. pidTop' = pidTop /\ disk'.top = pidTop
          BY <4>1, WriteIs, WritesAre DEF WriteDisk, store
        <5> QED
          BY <5>1 DEF Bounds
      <4>2. CASE writes # <<"top", "galls">>
        BY <3>1, <4>2
      <4> QED
        BY <2>1, <4>1, <4>2
    <3>3. CASE up'[u] = up[u] /\ record'[u].pids = record[u].pids
      <4>1. up[u].pc \in {"hashing", "checked"} => up[u].pid \in 1 .. pidTop' + 1
        BY <1>0, <2>2 DEF Bounds
      <4>2. up[u].pc = "thumb" => pidTop' # 0
        BY <1>0, <2>1 DEF Bounds
      <4> QED
        BY <3>1, <3>2, <3>3, <4>1, <4>2 DEF Bounds
    <3>4. CASE UploadNext(u)
      <4>0. Rests(u) \/ TakesOff(u) \/ HasChecked(u) \/ Commits(u) \/ Fails(u) \/ Lands(u)
        BY <3>4, UploadGoesOn
      <4>1. CASE Rests(u)
        <5>1. Below(record'[u].pids, disk'.top)
          <6>1. CASE Remember(u)
            <7>1. writes = <<>> /\ record' = [record EXCEPT ![u].pids = up[u].pids]
              BY <6>1 DEF Remember
            <7>2. record'[u].pids = up[u].pids
              BY <7>1 DEF Typed
            <7> QED
              BY <3>1, <7>1, <7>2, WritesAre
          <6> QED
            BY <3>1, <4>1, <6>1 DEF Rests
        <5> QED
          BY <3>1, <3>2, <4>1, <5>1 DEF Rests, Flying
      <4>2. CASE TakesOff(u)
        <5>1. pidTop + 1 \in 1 .. pidTop' + 1
          BY <1>0, <4>2 DEF TakesOff
        <5> QED
          BY <3>1, <3>2, <4>2, <5>1 DEF TakesOff
      <4>3. CASE HasChecked(u) \/ Commits(u) \/ Fails(u)
        <5>1. HasChecked(u) => up[u].pid \in 1 .. pidTop' + 1
          BY <1>0, <2>2 DEF Bounds, HasChecked
        <5>2. Commits(u) => pidTop' # 0
          BY <1>0 DEF Commits
        <5> QED
          BY <3>1, <3>2, <4>3, <5>1, <5>2 DEF HasChecked, Commits, Fails
      <4>4. CASE Lands(u)
        <5>1. pidTop \in 1 .. pidTop' /\ pidTop' = pidTop
          BY <1>0, <4>4 DEF Lands, Bounds
        <5>2. Below(Append(up[u].pids, pidTop), pidTop')
          BY <1>0, <3>1, <5>1, BelowAppended
        <5> QED
          BY <3>1, <4>4, <5>2 DEF Lands
      <4> QED
        BY <4>0, <4>1, <4>2, <4>3, <4>4
    <3>5. CASE \E v \in Uploads : v # u /\ UploadNext(v)
      BY <3>3, <3>5, OthersStay
    <3> QED
      BY <2>1, <3>3, <3>4, <3>5
  <2>6. rel'.pc = "hashing" => rel'.pid \in 1 .. pidTop'
    <3>1. CASE rel' = rel
      BY <1>0, <2>2, <3>1 DEF Bounds
    <3>2. CASE RelGoesOn
      BY <1>0, <3>2 DEF RelGoesOn, NoRel
    <3> QED
      BY <2>1, <3>1, <3>2 DEF RelMoves
  <2> QED
    BY <2>3, <2>4, <2>5, <2>6 DEF Bounds
<1> QED
  BY <1>1, <1>2

LEMMA AlwaysBounded == Spec => [](Typed /\ Bounds)
  BY InitIsTyped, InitIsBounded, StepIsTyped, StepIsBounded, PTL DEF Spec

LEMMA SeqBelow ==
    ASSUME NEW s \in Seq(Nat), NEW n, Below(s, n)
    PROVE  s \in Seq(1 .. n)
<1>1. Len(s) \in Nat /\ DOMAIN s = 1 .. Len(s) /\ s \in [1 .. Len(s) -> Nat]
  BY LenProperties
<1>2. s \in [1 .. Len(s) -> 1 .. n]
  BY <1>1 DEF Below
<1>3. Seq(1 .. n) = UNION {[1 .. m -> 1 .. n] : m \in Nat}
  BY SeqDef
<1> QED
  BY <1>1, <1>2, <1>3

LEMMA TypesHold == Typed /\ Bounds => TypeOK
<1> SUFFICES ASSUME Typed, Bounds PROVE TypeOK
  OBVIOUS
<1>1. galls \in [Galls -> GallRec] /\ pidTop \in Nat /\ disk.top \in Nat /\ fileTop \in Nat
      /\ disk.top <= pidTop
  BY DEF Typed, Bounds
<1>2. ASSUME NEW g \in Galls
      PROVE  /\ galls[g].alias \subseteq Aliases
             /\ \A x \in PicsOf(g) : x.pid \in 1..pidTop /\ x.look \in Looks
  <2>1. galls[g].alias \subseteq Aliases
    BY <1>1 DEF GallRec
  <2>2. ASSUME NEW i \in 1 .. Len(galls[g].pics)
        PROVE  galls[g].pics[i].pid \in 1..pidTop /\ galls[g].pics[i].look \in Looks
    <3>1. i \in DOMAIN galls[g].pics
      BY <1>1, Holding
    <3>2. galls[g].pics[i] \in Pic
      BY <1>1, <3>1, Holding
    <3> QED
      BY <3>1, <3>2 DEF Bounds, PidsIn, Pic
  <2> QED
    BY <2>1, <2>2 DEF PicsOf
<1>3. ASSUME NEW u \in Uploads
      PROVE  /\ up[u].pc \in {"idle", "waiting", "next", "hashing", "checked", "thumb",
                              "replying", "done"}
             /\ up[u].left \in 0..Images
             /\ up[u].pids \in Seq(1..pidTop)
             /\ record[u].pids \in Seq(1..pidTop)
  <2>1. up[u] \in UpRec /\ record[u].pids \in Seq(Nat)
    BY DEF Typed, UpTyped
  <2>2. Below(up[u].pids, pidTop) /\ Below(record[u].pids, pidTop)
    BY <1>1, BelowMore DEF Bounds
  <2>3. up[u].pids \in Seq(Nat)
    BY <2>1 DEF UpRec
  <2>4. up[u].pids \in Seq(1 .. pidTop) /\ record[u].pids \in Seq(1 .. pidTop)
    BY <2>1, <2>2, <2>3, SeqBelow
  <2> QED
    BY <2>1, <2>4 DEF UpRec
<1>4. writes \in Seq({"top", "galls"})
  <2> DEFINE S == {"top", "galls"}
  <2>1. <<>> \in Seq(S) /\ <<"galls">> \in Seq(S) /\ <<"top", "galls">> \in Seq(S)
    OBVIOUS
  <2> QED
    BY <2>1 DEF Typed, Writes
<1>5. files \subseteq Galls \X (1..fileTop) \X Looks /\ busy \subseteq Names
      /\ undoing.of \in Uploads \cup {NoUpload}
  BY DEF Typed
<1>6. /\ rep.pc \in {"off", "hashing", "checked", "thumb"}
      /\ rel.pc \in {"off", "hashing"}
  BY DEF Typed, RepTyped, RelTyped, RepRec, RelRec
<1> QED
  BY <1>1, <1>2, <1>3, <1>4, <1>5, <1>6 DEF TypeOK

\* Every variable has its type, and pid_top covers the pids in use and on record, for
\* any number of handlers in flight and after any crash.
THEOREM TypesAreRight == Spec => []TypeOK
  BY AlwaysBounded, TypesHold, PTL

\* When a handler sets out it is the only one.
LEMMA NobodyInFlight ==
    ASSUME Typed, MaxInFlight = 1, InFlight < MaxInFlight
    PROVE  (\A u \in Uploads : ~ Flies(u)) /\ rep.pc = "off" /\ rel.pc = "off"
<1> DEFINE S == {u \in Uploads : up[u].pc \in {"hashing", "checked", "thumb"}}
<1>1. IsFiniteSet(S) /\ Cardinality(S) \in Nat
  <2>1. IsFiniteSet(S)
    BY GalleryAssumption, FS_Subset
  <2> QED
    BY <2>1, FS_CardinalityType
<1>2. Cardinality(S) + (IF rep.pc # "off" THEN 1 ELSE 0) + (IF rel.pc # "off" THEN 1 ELSE 0) < 1
  BY DEF InFlight
<1> HIDE DEF S
<1>3. Cardinality(S) = 0 /\ rep.pc = "off" /\ rel.pc = "off"
  BY <1>1, <1>2
<1>4. S = {}
  BY <1>1, <1>3, FS_EmptySet
<1> QED
  BY <1>3, <1>4 DEF S, Flies, Flying

LEMMA ReplaceMoves ==
    ASSUME Typed, [Next]_vars, ~ Crash
    PROVE  \/ rep' = rep
           \/ /\ rel' = rel /\ up' = up
              /\ rep'.pc = "off" \/ rep.pc # "off" \/ InFlight < MaxInFlight
<1>1. CASE \E u \in Uploads : UploadNext(u)
  BY <1>1, UploadGoesOn
<1>2. CASE \/ ReplaceChecks \/ ReplaceCommits \/ ReplaceFails \/ ReplaceEnds
           \/ \E p, look : ReplaceBegins(p, look)
  BY <1>2 DEF ReplaceChecks, ReplaceCommits, ReplaceFails, ReplaceEnds, ReplaceBegins, NoRep
<1>3. CASE \/ WriteDisk \/ UndoDeletes \/ UndoEnds \/ ReloadAppends \/ ReloadFails
           \/ UNCHANGED vars
           \/ \E u \in Uploads : UndoBegins(u)
           \/ \E p : Delete(p)
           \/ \E g, look : DropFile(g, look)
           \/ \E f : TakeFile(f)
           \/ \E n : \/ OpenGall(n) \/ CloseGall(n) \/ ReloadBegins(n)
                     \/ \E a : AddAlias(n, a) \/ DelAlias(n, a)
  BY <1>3 DEF WriteDisk, ReloadAppends, ReloadFails, ReloadBegins, UndoBegins, UndoDeletes,
              UndoEnds, Delete, DropFile, TakeFile, OpenGall, CloseGall, AddAlias, DelAlias,
              vars, jobs
<1> QED
  BY <1>1, <1>2, <1>3 DEF Next

\* While an upload, or the reload, is in flight, pid_top is its own.
LEMMA OnlyOneMoves ==
    ASSUME Typed, Bounds, OneJob, MaxInFlight = 1, [Next]_vars, ~ Crash
    PROVE  /\ \A u \in Uploads : Flies(u) /\ up'[u] = up[u] =>
                 pidTop' = pidTop /\ ~ ReloadAppends
           /\ rel.pc = "hashing" /\ rel' = rel =>
                 /\ pidTop' = pidTop
                 /\ \A u \in Uploads : up'[u].pids = up[u].pids
                 /\ \A u \in Uploads : ~ AddCommits(u)
           /\ rel.pc = "hashing" => ~ ReplaceCommits
<1>0. pidTop \in Nat /\ (rel.pc # "off" => rel.pc = "hashing")
  BY DEF Typed, RelTyped, RelRec
<1>1. /\ \/ \E u \in Uploads : UploadNext(u) /\ rel' = rel
         \/ /\ up' = up
            /\ pidTop' = pidTop \/ (rel'.pc = "hashing" /\ RelGoesOn)
      /\ RelMoves
  BY StepMoves
<1>2. ASSUME NEW u \in Uploads, Flies(u), up'[u] = up[u]
      PROVE  pidTop' = pidTop /\ ~ ReloadAppends
  <2>1. rel.pc = "off" /\ ~ (InFlight < MaxInFlight)
    BY <1>2, NobodyInFlight DEF OneJob
  <2>2. ~ ReloadAppends
    BY <2>1 DEF ReloadAppends
  <2>3. ASSUME NEW v \in Uploads, UploadNext(v) PROVE pidTop' = pidTop
    <3>1. CASE v = u
      BY <1>0, <1>2, <2>3, <3>1, UploadGoesOn
         DEF Rests, TakesOff, HasChecked, Commits, Fails, Lands, Flies, Flying
    <3>2. CASE v # u
      <4>1. ~ Flies(v)
        BY <1>2, <3>2 DEF OneJob
      <4> QED
        BY <2>3, <4>1, UploadGoesOn
           DEF Rests, TakesOff, HasChecked, Commits, Fails, Lands, Flies, Flying
    <3> QED
      BY <3>1, <3>2
  <2>4. CASE rel' = rel /\ up' = up
    BY <1>1, <2>1, <2>2, <2>3, <2>4
  <2>5. CASE RelGoesOn
    BY <1>1, <2>1, <2>2, <2>3, <2>5 DEF RelGoesOn, NoRel
  <2> QED
    BY <1>1, <2>2, <2>3, <2>4, <2>5 DEF RelMoves
<1>3. ASSUME rel.pc = "hashing", rel' = rel
      PROVE  /\ pidTop' = pidTop
             /\ \A u \in Uploads : up'[u].pids = up[u].pids
             /\ \A u \in Uploads : ~ AddCommits(u)
  <2>1. \A u \in Uploads : ~ Flies(u)
    BY <1>3 DEF OneJob
  <2>2. \A u \in Uploads : ~ AddCommits(u)
    BY <2>1 DEF AddCommits, MayAdd, Flies, Flying
  <2>3. ASSUME NEW v \in Uploads, UploadNext(v)
        PROVE  pidTop' = pidTop /\ \A u \in Uploads : up'[u].pids = up[u].pids
    <3>1. pidTop' = pidTop /\ up'[v].pids = up[v].pids
      BY <2>1, <2>3, UploadGoesOn
         DEF Rests, TakesOff, HasChecked, Commits, Fails, Lands, Flies, Flying
    <3> QED
      BY <2>3, <3>1, OthersStay
  <2>4. CASE up' = up
    <3>1. rel.pid \in 1 .. pidTop
      BY <1>3 DEF Bounds
    <3> QED
      BY <1>0, <1>1, <1>3, <2>2, <2>3, <2>4, <3>1 DEF RelGoesOn, NoRel
  <2> QED
    BY <1>1, <2>2, <2>3, <2>4
<1>4. rel.pc = "hashing" => ~ ReplaceCommits
  BY DEF OneJob, ReplaceCommits
<1> QED
  BY <1>2, <1>3, <1>4

LEMMA InitIsDistinct == Init => PidsInv
<1> SUFFICES ASSUME Init PROVE PidsInv
  OBVIOUS
<1>1. \A u \in Uploads : up[u].pc = "idle"
  BY DEF Init, NewUp
<1>2. rep.pc = "off" /\ rel.pc = "off"
  BY DEF Init, NoRep, NoRel
<1>3. \A g \in Galls : DOMAIN galls[g].pics = {} /\ disk.galls = galls
  BY DEF Init, Closed
<1> QED
  BY <1>1, <1>2, <1>3 DEF PidsInv, OneJob, Fresh, Distinct, Flies, Flying

LEMMA StepIsAlone ==
    ASSUME Typed, OneJob, MaxInFlight = 1, [Next]_vars
    PROVE  OneJob'
<1>1. CASE Crash
  BY <1>1, CrashIs DEF OneJob, Flies, Flying
<1>2. CASE ~ Crash
  <2>0. rel.pc # "off" => rel.pc = "hashing"
    BY DEF Typed, RelTyped, RelRec
  <2>1. /\ \/ \E u \in Uploads : UploadNext(u) /\ rel' = rel
           \/ up' = up
        /\ RelMoves
    BY <1>2, StepMoves
  <2>2. ASSUME NEW u \in Uploads, UploadNext(u), rel' = rel PROVE OneJob'
    <3>1. rep' = rep /\ \A v \in Uploads : v # u => up'[v] = up[v]
      BY <2>2, UploadGoesOn, UploadMovesItself
    <3>2. CASE TakesOff(u)
      <4>1. (\A v \in Uploads : ~ Flies(v)) /\ rep.pc = "off" /\ rel.pc = "off"
        BY <3>2, NobodyInFlight DEF TakesOff
      <4> QED
        BY <2>2, <3>1, <4>1 DEF OneJob, Flies
    <3>3. CASE ~ TakesOff(u)
      <4>1. up'[u].pc \in Flying => Flies(u)
        BY <2>2, <3>3, UploadGoesOn
           DEF Rests, HasChecked, Commits, Fails, Lands, Flies, Flying
      <4> QED
        BY <2>2, <3>1, <4>1 DEF OneJob, Flies
    <3> QED
      BY <3>2, <3>3
  <2>3. CASE up' = up
    <3>1. CASE InFlight < MaxInFlight
      <4>1. (\A v \in Uploads : ~ Flies(v)) /\ rep.pc = "off" /\ rel.pc = "off"
        BY <3>1, NobodyInFlight
      <4>2. rep' = rep \/ rel' = rel
        BY <1>2, ReplaceMoves
      <4> QED
        BY <2>3, <4>1, <4>2 DEF OneJob, Flies
    <3>2. CASE ~ (InFlight < MaxInFlight)
      <4>1. rep'.pc # "off" => rep.pc # "off"
        BY <1>2, <3>2, ReplaceMoves
      <4>2. rel'.pc # "off" => rel.pc # "off"
        BY <2>0, <2>1, <3>2 DEF RelMoves, RelGoesOn, NoRel, ReloadAppends
      <4> QED
        BY <2>3, <4>1, <4>2 DEF OneJob, Flies
    <3> QED
      BY <3>1, <3>2
  <2> QED
    BY <2>1, <2>2, <2>3
<1> QED
  BY <1>1, <1>2

LEMMA StepIsFresh ==
    ASSUME Typed, Bounds, OneJob, Fresh, MaxInFlight = 1, [Next]_vars
    PROVE  Fresh'
<1>0. /\ galls \in [Galls -> GallRec] /\ pidTop \in Nat
      /\ \A x : Has(galls, x) => x.pid \in 1 .. pidTop
      /\ rel.pc = "hashing" => rel.pid \in 1 .. pidTop
  BY PidsAndHas DEF Typed, Bounds
<1>1. CASE Crash
  BY <1>1, CrashIs DEF Fresh
<1>2. CASE ~ Crash
  <2>1. ASSUME NEW u \in Uploads, up'[u].pc \in {"hashing", "checked"}
        PROVE  up'[u].pid = pidTop' + 1
    <3>1. CASE up'[u] = up[u]
      <4>1. Flies(u)
        BY <2>1, <3>1 DEF Flies, Flying
      <4>2. pidTop' = pidTop
        BY <1>2, <3>1, <4>1, OnlyOneMoves
      <4> QED
        BY <2>1, <3>1, <4>2 DEF Fresh
    <3>2. CASE UploadNext(u)
      BY <2>1, <3>2, UploadGoesOn
         DEF Rests, TakesOff, HasChecked, Commits, Fails, Lands, Flying, Fresh
    <3>3. CASE \E v \in Uploads : v # u /\ UploadNext(v)
      BY <3>1, <3>3, OthersStay
    <3> QED
      BY <1>2, <3>1, <3>2, <3>3, StepMoves
  <2>2. ASSUME rel'.pc = "hashing"
        PROVE  rel'.pid = pidTop' /\ \A x : Has(galls', x) => x.pid # pidTop'
    <3>1. CASE RelGoesOn
      <4>1. /\ rel'.pid = pidTop' /\ pidTop' = pidTop + 1
            /\ ReloadAppends \/ Shrinks(galls, galls')
        BY <2>2, <3>1 DEF RelGoesOn, NoRel
      <4>2. CASE ReloadAppends
        <5>1. \/ Shrinks(galls, galls')
              \/ /\ rel.gall \in Galls /\ Reloaded \in Pic
                 /\ Grows(galls, galls', rel.gall, Reloaded)
          BY <1>0, <4>2, ReloadAppendsGrows
        <5>2. Reloaded.pid \in 1 .. pidTop
          BY <1>0, <4>2 DEF ReloadAppends, Reloaded
        <5> QED
          BY <1>0, <4>1, <5>1, <5>2, GrownHas, ShrunkHas
      <4> QED
        BY <1>0, <4>1, <4>2, ShrunkHas
    <3>2. CASE rel' = rel /\ ~ RelGoesOn
      <4>1. /\ pidTop' = pidTop /\ \A u \in Uploads : ~ AddCommits(u)
            /\ ~ ReplaceCommits /\ ~ ReloadAppends
        BY <1>2, <2>2, <3>2, OnlyOneMoves, ReloadMoves
      <4>2. Shrinks(galls, galls')
        BY <1>2, <4>1, GallsMove
      <4>3. rel.pid = pidTop /\ \A x : Has(galls, x) => x.pid # pidTop
        BY <2>2, <3>2 DEF Fresh, Has
      <4> QED
        BY <3>2, <4>1, <4>2, <4>3, ShrunkHas
    <3> QED
      BY <1>2, <3>1, <3>2, StepMoves DEF RelMoves
  <2>3. (\A x : Has(galls', x) => x.pid # pidTop') =>
          \A g \in Galls : \A i \in DOMAIN galls'[g].pics : galls'[g].pics[i].pid # pidTop'
    BY DEF Has
  <2> QED
    BY <2>1, <2>2, <2>3 DEF Fresh
<1> QED
  BY <1>1, <1>2

LEMMA StepIsDistinct ==
    ASSUME Typed, Bounds, PidsInv, MaxInFlight = 1, [Next]_vars
    PROVE  Distinct(galls', PidOf)
<1>0. /\ galls \in [Galls -> GallRec] /\ pidTop \in Nat
      /\ \A x : Has(galls, x) => x \in Pic /\ x.pid \in 1 .. pidTop
      /\ Distinct(galls, PidOf) /\ Distinct(disk.galls, PidOf) /\ Fresh
      /\ \A x \in Pic : PidOf[x] = x.pid
  BY PidsAndHas, Holding DEF Typed, Bounds, PidsInv, PidOf
<1>a. galls \in [Galls -> GallRec] /\ Distinct(galls, PidOf)
  BY <1>0
<1>1. CASE Crash
  BY <1>0, <1>1, CrashIs
<1>2. CASE Shrinks(galls, galls')
  BY <1>a, <1>2, ShrunkHas
<1>3. ASSUME NEW u \in Uploads, AddCommits(u), up[u].gall \in Galls, Added(u) \in Pic,
             Grows(galls, galls', up[u].gall, Added(u))
      PROVE  Distinct(galls', PidOf)
  <2>1. PidOf[Added(u)] = pidTop + 1
    <3>1. up[u].pid = pidTop + 1
      BY <1>0, <1>3 DEF AddCommits, MayAdd, Fresh
    <3> QED
      BY <1>0, <1>3, <3>1 DEF Added
  <2>2. \A x : Has(galls, x) => PidOf[x] # PidOf[Added(u)]
    BY <1>0, <2>1
  <2> QED
    BY <1>a, <1>3, <2>2, GrownIsDistinct
<1>4. ASSUME ReloadAppends, rel.gall \in Galls, Reloaded \in Pic,
             Grows(galls, galls', rel.gall, Reloaded)
      PROVE  Distinct(galls', PidOf)
  <2>1. rel.pid = pidTop /\ \A x : Has(galls, x) => x.pid # pidTop
    BY <1>0, <1>4 DEF ReloadAppends, Fresh, Has
  <2>2. PidOf[Reloaded] = rel.pid
    BY <1>0, <1>4 DEF Reloaded
  <2>3. \A x : Has(galls, x) => PidOf[x] # PidOf[Reloaded]
    BY <1>0, <2>1, <2>2
  <2> QED
    BY <1>a, <1>4, <2>3, GrownIsDistinct
<1>5. ASSUME ReplaceCommits, rep.gall \in Galls,
             NEW k \in DOMAIN galls[rep.gall].pics, SwapsIn(k)
      PROVE  Distinct(galls', PidOf)
  BY <1>a, <1>5, SwapHas
<1> QED
  BY <1>1, <1>2, <1>3, <1>4, <1>5, GallsMove

LEMMA StepKeepsPids == MaxInFlight = 1 /\ Typed /\ Bounds /\ PidsInv /\ [Next]_vars => PidsInv'
<1> SUFFICES ASSUME MaxInFlight = 1, Typed, Bounds, PidsInv, [Next]_vars PROVE PidsInv'
  OBVIOUS
<1>1. OneJob' /\ Fresh' /\ Distinct(galls', PidOf)
  BY StepIsAlone, StepIsFresh, StepIsDistinct DEF PidsInv
<1>2. disk'.galls = disk.galls \/ disk'.galls = galls
  BY DiskIs
<1> QED
  BY <1>1, <1>2 DEF PidsInv

LEMMA PidsAreDistinct ==
    ASSUME Typed, Distinct(galls, PidOf)
    PROVE  UniquePids
<1>1. galls \in [Galls -> GallRec]
  BY DEF Typed
<1>2. ASSUME NEW a \in Places, NEW b \in Places, PicAt(a).pid = PicAt(b).pid PROVE a = b
  <2>1. /\ a[1] \in Galls /\ a[2] \in DOMAIN galls[a[1]].pics /\ a = <<a[1], a[2]>>
        /\ b[1] \in Galls /\ b[2] \in DOMAIN galls[b[1]].pics /\ b = <<b[1], b[2]>>
    BY DEF Places
  <2>2. PicAt(a) \in Pic /\ PicAt(b) \in Pic
    BY <1>1, <2>1, Holding DEF PicAt
  <2>3. PidOf[PicAt(a)] = PidOf[PicAt(b)]
    BY <1>2, <2>2 DEF PidOf
  <2>4. a[1] = b[1] /\ a[2] = b[2]
    BY <2>1, <2>3 DEF Distinct, PicAt
  <2> QED
    BY <2>1, <2>4
<1> QED
  BY <1>2 DEF UniquePids

LEMMA AlwaysDistinct ==
    ASSUME MaxInFlight = 1
    PROVE  Spec => [](Typed /\ Bounds /\ PidsInv)
  BY AlwaysBounded, InitIsDistinct, StepKeepsPids, PTL DEF Spec

\* With one handler at a time a pid is given to one picture, over all galleries, over
\* deletions and reloads, and over crashes at any point of a save.
THEOREM PidsAlwaysUnique ==
    ASSUME MaxInFlight = 1
    PROVE  Spec => [](TypeOK /\ UniquePids)
<1>1. Typed /\ Bounds /\ PidsInv => TypeOK /\ UniquePids
  BY TypesHold, PidsAreDistinct DEF PidsInv
<1> QED
  BY <1>1, AlwaysDistinct, PTL

----------------------------------------------------------------------------
(* Whose pictures they are.                                                *)

\* The pictures of G with pid n are u's; with a pid of the sequence s.
By(G, n, u) == \A x : Has(G, x) /\ x.pid = n => x.by = u
Own(s, G, u) == \A k \in DOMAIN s : By(G, s[k], u)
Avoids(s, n) == \A k \in DOMAIN s : s[k] # n

\* The pids an upload has returned, or has on record, are those of its own pictures,
\* in memory and on the disk; so are those an undo has still to delete.
OwnInv ==
    /\ \A u \in Uploads :
          /\ Own(up[u].pids, galls, u) /\ Own(up[u].pids, disk.galls, u)
          /\ Own(record[u].pids, galls, u) /\ Own(record[u].pids, disk.galls, u)
          /\ up[u].pc = "thumb" => By(galls, pidTop, u) /\ By(disk.galls, pidTop, u)
    /\ rel.pc = "hashing" =>
          \A u \in Uploads : Avoids(up[u].pids, pidTop) /\ Avoids(record[u].pids, pidTop)
    /\ undoing # NoUndo => undoing.of \in Uploads /\ Own(undoing.left, galls, undoing.of)

LEMMA OwnNothing == \A G, u : Own(<<>>, G, u)
  BY DEF Own

LEMMA InitIsOwn == Init => OwnInv
<1> SUFFICES ASSUME Init PROVE OwnInv
  OBVIOUS
<1>1. \A u \in Uploads : up[u].pids = <<>> /\ record[u].pids = <<>> /\ up[u].pc = "idle"
  BY DEF Init, NewUp
<1>2. rel.pc = "off" /\ undoing = NoUndo
  BY DEF Init, NoRel
<1> QED
  BY <1>1, <1>2, OwnNothing DEF OwnInv

LEMMA OwnAppended ==
    ASSUME NEW s \in Seq(Nat), NEW n \in Nat, NEW G, NEW u, Own(s, G, u), By(G, n, u)
    PROVE  Own(Append(s, n), G, u)
<1>1. /\ DOMAIN s = 1 .. Len(s) /\ Len(s) \in Nat
      /\ DOMAIN Append(s, n) = 1 .. Len(s) + 1
      /\ \A i \in 1 .. Len(s) : Append(s, n)[i] = s[i]
      /\ Append(s, n)[Len(s) + 1] = n
  BY AppendProperties, LenProperties
<1>2. ASSUME NEW k \in 1 .. Len(s) + 1 PROVE By(G, Append(s, n)[k], u)
  <2>1. CASE k = Len(s) + 1
    BY <1>1, <2>1
  <2>2. CASE k # Len(s) + 1
    <3>1. k \in 1 .. Len(s)
      BY <1>1, <2>2
    <3> QED
      BY <1>1, <3>1 DEF Own
  <2> QED
    BY <2>1, <2>2
<1> QED
  BY <1>1, <1>2 DEF Own

LEMMA OwnTail ==
    ASSUME NEW s \in Seq(Nat), s # <<>>, NEW G, NEW u, Own(s, G, u)
    PROVE  Own(Tail(s), G, u) /\ By(G, Head(s), u)
<1>1. /\ DOMAIN s = 1 .. Len(s) /\ Len(s) \in Nat /\ Len(s) # 0
      /\ Tail(s) \in Seq(Nat) /\ Len(Tail(s)) = Len(s) - 1
      /\ \A i \in 1 .. Len(Tail(s)) : Tail(s)[i] = s[i + 1]
      /\ Head(s) = s[1]
  BY HeadTailProperties, LenProperties, EmptySeq
<1>2. DOMAIN Tail(s) = 1 .. Len(s) - 1
  BY <1>1, LenProperties
<1>3. \A i \in 1 .. Len(s) - 1 : i + 1 \in DOMAIN s /\ Tail(s)[i] = s[i + 1]
  BY <1>1
<1>4. 1 \in DOMAIN s
  BY <1>1
<1> QED
  BY <1>1, <1>2, <1>3, <1>4 DEF Own

\* A step that is no crash gives no picture to a pid that was given before, but for
\* the one the reload has chosen.
LEMMA GivenStays ==
    ASSUME Typed, Bounds, Fresh, [Next]_vars, ~ Crash, NEW u, NEW n \in 1 .. pidTop,
           By(galls, n, u), ReloadAppends => n # pidTop
    PROVE  By(galls', n, u)
<1>0. /\ galls \in [Galls -> GallRec] /\ pidTop \in Nat
  BY DEF Typed
<1>1. CASE Shrinks(galls, galls')
  BY <1>1, ShrunkHas DEF By
<1>2. ASSUME NEW v \in Uploads, AddCommits(v), up[v].gall \in Galls, Added(v) \in Pic,
             Grows(galls, galls', up[v].gall, Added(v))
      PROVE  By(galls', n, u)
  <2>1. Added(v).pid = pidTop + 1
    BY <1>2 DEF AddCommits, MayAdd, Fresh, Added
  <2>2. \A x : Has(galls', x) => Has(galls, x) \/ x = Added(v)
    BY <1>0, <1>2, GrownHas
  <2> QED
    BY <1>0, <2>1, <2>2 DEF By
<1>3. ASSUME ReloadAppends, rel.gall \in Galls, Reloaded \in Pic,
             Grows(galls, galls', rel.gall, Reloaded)
      PROVE  By(galls', n, u)
  <2>1. Reloaded.pid = pidTop
    BY <1>3 DEF ReloadAppends, Fresh, Reloaded
  <2> QED
    BY <1>0, <1>3, <2>1, GrownHas DEF By
<1>4. ASSUME ReplaceCommits, rep.gall \in Galls,
             NEW k \in DOMAIN galls[rep.gall].pics, SwapsIn(k)
      PROVE  By(galls', n, u)
  <2> DEFINE x == galls[rep.gall].pics[k]
             y == Changed(x, NewFile)
  <2>1. /\ Has(galls, x) /\ y.pid = x.pid /\ y.by = x.by
        /\ \A z : Has(galls', z) => Has(galls, z) \/ z = y
    BY <1>4, SwapHas
  <2> HIDE DEF x, y
  <2> QED
    BY <2>1 DEF By
<1> QED
  BY <1>1, <1>2, <1>3, <1>4, GallsMove

LEMMA OwnStays ==
    ASSUME Typed, Bounds, Fresh, [Next]_vars, ~ Crash, NEW u, NEW s,
           Below(s, pidTop), Own(s, galls, u), ReloadAppends => Avoids(s, pidTop)
    PROVE  Own(s, galls', u)
  BY GivenStays DEF Own, Below, Avoids

\* What an undo has still to delete stays its own.
LEMMA UndoMoves ==
    ASSUME Typed, [Next]_vars, ~ Crash
    PROVE  \/ undoing' = undoing
           \/ undoing' = NoUndo
           \/ UndoDeletes
           \/ /\ \E u \in Uploads : undoing' = [of |-> u, left |-> record[u].pids]
              /\ galls' = galls
<1>1. CASE \E u \in Uploads : UploadNext(u)
  BY <1>1, UploadGoesOn
<1>2. CASE UndoEnds \/ \E u \in Uploads : UndoBegins(u)
  BY <1>2 DEF UndoEnds, UndoBegins, store
<1>3. CASE \/ WriteDisk \/ ReloadAppends \/ ReloadFails \/ UNCHANGED vars
           \/ ReplaceChecks \/ ReplaceCommits \/ ReplaceFails \/ ReplaceEnds
           \/ \E p : Delete(p) \/ \E look : ReplaceBegins(p, look)
           \/ \E g, look : DropFile(g, look)
           \/ \E f : TakeFile(f)
           \/ \E n : \/ OpenGall(n) \/ CloseGall(n) \/ ReloadBegins(n)
                     \/ \E a : AddAlias(n, a) \/ DelAlias(n, a)
  BY <1>3 DEF WriteDisk, ReloadAppends, ReloadFails, ReloadBegins, Delete, DropFile, TakeFile,
              OpenGall, CloseGall, AddAlias, DelAlias, ReplaceChecks, ReplaceCommits,
              ReplaceFails, ReplaceEnds, ReplaceBegins, vars, undo
<1> QED
  BY <1>1, <1>2, <1>3 DEF Next

LEMMA UndoingOnlyShrinks ==
    ASSUME Typed, [Next]_vars, ~ Crash, undoing # NoUndo
    PROVE  Shrinks(galls, galls')
<1>1. ~ Free
  BY DEF Free
<1>2. ~ ReloadAppends /\ ~ ReplaceCommits /\ \A u \in Uploads : ~ AddCommits(u)
  BY <1>1 DEF ReloadAppends, ReplaceCommits, AddCommits
<1> QED
  BY <1>2, GallsMove

\* A commit adds one picture, of the upload's.
LEMMA CommitAdds ==
    ASSUME Typed, [Next]_vars, ~ Crash, NEW u \in Uploads, AddCommits(u)
    PROVE  \A x : Has(galls', x) => Has(galls, x) \/ x.by = u
<1>0. galls \in [Galls -> GallRec]
  BY DEF Typed
<1>1. /\ up[u].gall \in Galls /\ up[u].look \in Looks /\ up[u].pid \in Nat
      /\ fileTop \in Nat
  BY DEF AddCommits, MayAdd, Typed, UpTyped, UpRec, Flying
<1>2. Added(u) \in Pic /\ Added(u).by = u
  BY <1>1 DEF Added, Pic, PicFiles
<1>3. galls' = galls \/ Grows(galls, galls', up[u].gall, Added(u))
  BY CommitGrows
<1> QED
  BY <1>0, <1>1, <1>2, <1>3, GrownHas

\* While an undo deletes, nothing else changes the galleries.
LEMMA UndoingTouchesNothing ==
    ASSUME [Next]_vars, ~ Crash, undoing # NoUndo, galls' # galls
    PROVE  UndoDeletes
<1>1. ~ Free
  BY DEF Free
<1>2. \A u \in Uploads : UploadNext(u) => galls' = galls
  BY <1>1, ZenonT(60) DEF UploadNext, Ask, Enter, GiveUp, AddBegins, CheckDuplicated, AddRepeats,
              AddCommits, AddFails, AddEnds, Remember, Reply, store
<1>3. \/ WriteDisk \/ UndoEnds \/ ReplaceChecks \/ ReplaceCommits \/ ReplaceFails
      \/ ReplaceEnds \/ ReloadAppends \/ ReloadFails \/ UNCHANGED vars
      \/ \E u : UndoBegins(u)
      \/ \E p : Delete(p) \/ \E look : ReplaceBegins(p, look)
      \/ \E g, look : DropFile(g, look)
      \/ \E f : TakeFile(f)
      \/ \E n : \/ OpenGall(n) \/ CloseGall(n) \/ ReloadBegins(n)
                \/ \E a : AddAlias(n, a) \/ DelAlias(n, a)
      => galls' = galls
  BY <1>1 DEF WriteDisk, UndoEnds, ReplaceChecks, ReplaceCommits, ReplaceFails, ReplaceEnds,
              ReloadAppends, ReloadFails, UndoBegins, Delete, ReplaceBegins, DropFile, TakeFile,
              OpenGall, CloseGall, ReloadBegins, AddAlias, DelAlias, vars, store
<1> QED
  BY <1>2, <1>3 DEF Next

LEMMA StepKeepsOwn ==
    ASSUME MaxInFlight = 1, Typed, Bounds, PidsInv, OwnInv, [Next]_vars
    PROVE  OwnInv'
<1>0. /\ pidTop \in Nat /\ disk.top \in Nat /\ disk.top <= pidTop
      /\ OneJob /\ Fresh
      /\ undoing \in [of : Uploads \cup {NoUpload}, left : Seq(Nat)]
      /\ \A u \in Uploads : /\ Below(up[u].pids, pidTop) /\ Below(record[u].pids, pidTop)
                            /\ up[u].pids \in Seq(Nat) /\ record[u].pids \in Seq(Nat)
  BY BelowMore DEF Typed, UpTyped, UpRec, Bounds, PidsInv
<1>1. CASE Crash
  <2>1. /\ galls' = disk.galls /\ disk' = disk /\ rel'.pc = "off" /\ undoing' = NoUndo
        /\ record' = record
        /\ \A u \in Uploads :
              \/ up[u].pc = "idle" /\ up'[u] = up[u]
              \/ up'[u].pc = "done" /\ up'[u].pids = <<>>
    BY <1>1, CrashIs
  <2>2. \A u \in Uploads : up'[u].pids = <<>> /\ up'[u].pc # "thumb"
    BY <2>1 DEF Bounds
  <2> QED
    BY <2>1, <2>2, OwnNothing DEF OwnInv
<1>2. CASE ~ Crash
  <2>0. ReloadAppends => rel.pc = "hashing"
    BY DEF ReloadAppends
  <2>1. ASSUME NEW u \in Uploads
        PROVE  /\ Own(up[u].pids, galls', u) /\ Own(up[u].pids, disk'.galls, u)
               /\ Own(record[u].pids, galls', u) /\ Own(record[u].pids, disk'.galls, u)
    <3>1. Own(up[u].pids, galls', u) /\ Own(record[u].pids, galls', u)
      BY <1>0, <1>2, <2>0, OwnStays DEF OwnInv
    <3>2. disk'.galls = disk.galls \/ disk'.galls = galls
      BY DiskIs
    <3> QED
      BY <3>1, <3>2 DEF OwnInv
  <2>2. ASSUME NEW u \in Uploads
        PROVE  /\ up'[u].pids = up[u].pids \/ Lands(u)
               /\ record'[u].pids = record[u].pids \/ record'[u].pids = up[u].pids
    <3>1. CASE UploadNext(u)
      <4>1. record' = record \/ Remember(u)
        BY <3>1, UploadGoesOn DEF Rests, TakesOff, HasChecked, Commits, Fails, Lands
      <4>2. record'[u].pids = record[u].pids \/ record'[u].pids = up[u].pids
        BY <4>1 DEF Remember, Typed
      <4> QED
        BY <3>1, <4>2, UploadGoesOn DEF Rests, TakesOff, HasChecked, Commits, Fails, Lands
    <3>2. CASE \E v \in Uploads : v # u /\ UploadNext(v)
      BY <3>2, OthersStay
    <3>3. CASE up' = up /\ record'[u].pids = record[u].pids
      BY <3>3
    <3> QED
      BY <1>2, <3>1, <3>2, <3>3, StepMoves
  <2>3. ASSUME NEW u \in Uploads
        PROVE  /\ Own(up'[u].pids, galls', u) /\ Own(up'[u].pids, disk'.galls, u)
               /\ Own(record'[u].pids, galls', u) /\ Own(record'[u].pids, disk'.galls, u)
    <3>1. CASE Lands(u)
      <4>1. /\ up[u].pc = "thumb" /\ up'[u].pids = Append(up[u].pids, pidTop)
            /\ galls' = galls
        BY <3>1 DEF Lands
      <4>2. By(galls', pidTop, u) /\ By(disk'.galls, pidTop, u)
        BY <4>1, DiskIs DEF OwnInv
      <4>3. Own(up'[u].pids, galls', u) /\ Own(up'[u].pids, disk'.galls, u)
        BY <1>0, <2>1, <4>1, <4>2, OwnAppended
      <4> QED
        BY <2>1, <2>2, <4>3
    <3> QED
      BY <2>1, <2>2, <3>1
  <2>4. ASSUME NEW u \in Uploads, up'[u].pc = "thumb"
        PROVE  By(galls', pidTop', u) /\ By(disk'.galls, pidTop', u)
    <3>1. CASE Commits(u)
      <4>1. /\ AddCommits(u) /\ pidTop' = pidTop + 1
        BY <3>1 DEF Commits
      <4>2. \A x : Has(galls, x) => x.pid # pidTop'
        BY <1>0, <4>1, PidsAndHas DEF Bounds
      <4>3. \A x : Has(disk.galls, x) => x.pid # pidTop'
        BY <1>0, <4>1, PidsAndHas DEF Bounds
      <4>4. By(galls', pidTop', u)
        BY <1>2, <4>1, <4>2, CommitAdds DEF By
      <4> QED
        BY <4>2, <4>3, <4>4, DiskIs DEF By
    <3>2. CASE up'[u] = up[u]
      <4>1. Flies(u) /\ up[u].pc = "thumb"
        BY <2>4, <3>2 DEF Flies, Flying
      <4>2. pidTop' = pidTop /\ ~ ReloadAppends
        BY <1>0, <1>2, <3>2, <4>1, OnlyOneMoves
      <4>3. By(galls, pidTop, u) /\ By(disk.galls, pidTop, u) /\ pidTop \in 1 .. pidTop
        BY <1>0, <4>1 DEF OwnInv, Bounds
      <4>4. By(galls', pidTop, u)
        BY <1>0, <1>2, <4>2, <4>3, GivenStays
      <4> QED
        BY <4>2, <4>3, <4>4, DiskIs
    <3>3. CASE UploadNext(u)
      BY <2>4, <3>1, <3>3, UploadGoesOn
         DEF Rests, TakesOff, HasChecked, Fails, Lands, Flying
    <3>4. CASE \E v \in Uploads : v # u /\ UploadNext(v)
      BY <3>2, <3>4, OthersStay
    <3> QED
      BY <1>2, <3>2, <3>3, <3>4, StepMoves
  <2>5. ASSUME rel'.pc = "hashing", NEW u \in Uploads
        PROVE  Avoids(up'[u].pids, pidTop') /\ Avoids(record'[u].pids, pidTop')
    <3>1. CASE RelGoesOn
      <4>1. pidTop' = pidTop + 1 /\ Free
        BY <2>5, <3>1 DEF RelGoesOn, NoRel
      <4>2. ~ Lands(u)
        BY <1>0, <4>1 DEF Lands
      <4>3. Avoids(up[u].pids, pidTop') /\ Avoids(record[u].pids, pidTop')
        BY <1>0, <4>1 DEF Below, Avoids
      <4> QED
        BY <2>2, <4>2, <4>3
    <3>2. CASE rel' = rel
      <4>1. pidTop' = pidTop /\ up'[u].pids = up[u].pids
        BY <1>0, <1>2, <2>5, <3>2, OnlyOneMoves
      <4> QED
        BY <2>2, <2>5, <3>2, <4>1 DEF OwnInv
    <3> QED
      BY <1>2, <3>1, <3>2, StepMoves DEF RelMoves
  <2>6. ASSUME undoing' # NoUndo
        PROVE  undoing'.of \in Uploads /\ Own(undoing'.left, galls', undoing'.of)
    <3>1. CASE undoing' = undoing
      <4>1. Shrinks(galls, galls') /\ undoing.of \in Uploads
            /\ Own(undoing.left, galls, undoing.of)
        BY <1>2, <2>6, <3>1, UndoingOnlyShrinks DEF OwnInv
      <4>2. Own(undoing.left, galls', undoing.of)
        BY <4>1, ShrunkHas DEF Own, By
      <4> QED
        BY <3>1, <4>1, <4>2
    <3>2. CASE UndoDeletes
      <4>1. undoing.left # <<>> /\ undoing' = [undoing EXCEPT !.left = Tail(@)]
        BY <3>2 DEF UndoDeletes
      <4>2. undoing # NoUndo /\ undoing'.of = undoing.of /\ undoing'.left = Tail(undoing.left)
        BY <1>0, <4>1 DEF NoUndo
      <4>3. Shrinks(galls, galls') /\ undoing.of \in Uploads
            /\ Own(undoing.left, galls, undoing.of)
        BY <1>2, <4>2, UndoingOnlyShrinks DEF OwnInv
      <4>4. Own(Tail(undoing.left), galls, undoing.of)
        BY <1>0, <4>1, <4>3, OwnTail
      <4>5. Own(Tail(undoing.left), galls', undoing.of)
        BY <4>3, <4>4, ShrunkHas DEF Own, By
      <4> QED
        BY <4>2, <4>3, <4>5
    <3>3. ASSUME NEW u \in Uploads, undoing' = [of |-> u, left |-> record[u].pids],
                 galls' = galls
          PROVE  undoing'.of \in Uploads /\ Own(undoing'.left, galls', undoing'.of)
      BY <3>3 DEF OwnInv
    <3> QED
      BY <1>2, <2>6, <3>1, <3>2, <3>3, UndoMoves
  <2> QED
    BY <2>3, <2>4, <2>5, <2>6 DEF OwnInv
<1> QED
  BY <1>1, <1>2

\* What goes is the picture with the pid that is next.
LEMMA UndoneHasPid ==
    ASSUME Typed, OwnInv, [Next]_vars
    PROVE  UndoneIsOwn
<1> SUFFICES ASSUME undoing'.of = undoing.of, undoing # NoUndo,
                    NEW g \in Galls, NEW x \in PicsOf(g) \ PicsOf(g)'
             PROVE  x.by = undoing.of
  BY DEF UndoneIsOwn
<1>0. /\ galls \in [Galls -> GallRec]
      /\ undoing \in [of : Uploads \cup {NoUpload}, left : Seq(Nat)]
      /\ undoing.of \in Uploads /\ Own(undoing.left, galls, undoing.of)
  BY DEF Typed, OwnInv
<1>1. ~ Crash
  BY <1>0, GalleryAssumption DEF Crash, NoUndo
<1>2. galls' # galls
  BY DEF PicsOf
<1>3. UndoDeletes
  BY <1>1, <1>2, UndoingTouchesNothing
<1>4. undoing.left # <<>> /\ DropPic(Head(undoing.left))
  BY <1>2, <1>3 DEF UndoDeletes
<1>5. PICK h \in Galls : \E k \in 1 .. Len(galls[h].pics) :
         /\ galls[h].pics[k].pid = Head(undoing.left)
         /\ galls' = [galls EXCEPT ![h].pics = Without(galls[h].pics, k)]
  <2>1. PICK p : p = Head(undoing.left)
    OBVIOUS
  <2>2. DropPic(p)
    BY <1>4, <2>1
  <2>3. galls \in [Galls -> GallRec]
    BY <1>0
  <2>5. PICK h \in Galls : \E k \in 1 .. Len(galls[h].pics) :
           /\ galls[h].pics[k].pid = p
           /\ galls' = [galls EXCEPT ![h].pics = Without(galls[h].pics, k)]
    BY <2>2, <2>3, DropPicIs
  <2> QED
    BY <2>1, <2>5
<1>6. PICK k \in 1 .. Len(galls[h].pics) :
         /\ galls[h].pics[k].pid = Head(undoing.left)
         /\ galls' = [galls EXCEPT ![h].pics = Without(galls[h].pics, k)]
  BY <1>5
<1>7. PICK i \in 1 .. Len(galls[g].pics) : x = galls[g].pics[i]
  BY DEF PicsOf
<1>8. g = h /\ i = k
  <2>1. galls[h].pics \in Seq(Pic)
    BY <1>0, Holding
  <2> DEFINE w == Without(galls[h].pics, k)
  <2>2. w \in Seq(Pic) /\ \A j \in DOMAIN galls[h].pics : j # k =>
           \E l \in DOMAIN w : w[l] = galls[h].pics[j]
    BY <2>1, WithoutIsPart
  <2>3. DOMAIN w = 1 .. Len(w) /\ DOMAIN galls[g].pics = 1 .. Len(galls[g].pics)
    BY <1>0, <2>2, LenProperties, Holding
  <2>4. galls' = [galls EXCEPT ![h].pics = w]
    BY <1>6
  <2> HIDE DEF w
  <2>5. galls'[h].pics = w /\ \A f \in Galls : f # h => galls'[f] = galls[f]
    BY <1>0, <2>4 DEF GallRec
  <2>6. \A j \in 1 .. Len(galls'[g].pics) : galls'[g].pics[j] # x
    BY DEF PicsOf
  <2> QED
    BY <1>7, <2>2, <2>3, <2>5, <2>6
<1>9. Has(galls, x) /\ x.pid = Head(undoing.left)
  BY <1>0, <1>6, <1>7, <1>8, Holding
<1> QED
  BY <1>0, <1>4, <1>9, OwnTail DEF By

\* With one handler at a time an undo removes pictures of the upload it undoes, and
\* no others, whatever is deleted, reloaded or lost in a crash in between.
THEOREM UndoAlwaysRemovesOwn ==
    ASSUME MaxInFlight = 1
    PROVE  Spec => UndoRemovesOwn
<1> DEFINE Inv == Typed /\ Bounds /\ PidsInv /\ OwnInv
<1>1. Init => Inv
  BY InitIsTyped, InitIsBounded, InitIsDistinct, InitIsOwn
<1>2. Inv /\ [Next]_vars => Inv'
  BY StepIsTyped, StepIsBounded, StepKeepsPids, StepKeepsOwn
<1>3. Inv /\ [Next]_vars => [UndoneIsOwn]_vars
  BY UndoneHasPid
<1> QED
  BY <1>1, <1>2, <1>3, PTL DEF Spec, UndoRemovesOwn

----------------------------------------------------------------------------
(* Files: without a reload a file has one picture, and what is not saved   *)
(* is in the hands of a handler that saves it.                             *)

Numbered(G) == \A x : Has(G, x) => x.file[2] <= fileTop

FilesInv ==
    /\ rel.pc = "off"
    /\ Distinct(galls, FileOf) /\ Distinct(disk.galls, FileOf)
    /\ Numbered(galls) /\ Numbered(disk.galls)
    /\ writes = <<>> /\ rep.pc # "thumb" /\ (\A u \in Uploads : up[u].pc # "thumb")
         => disk.galls = galls

LEMMA InitIsFiled == Init => FilesInv
<1> SUFFICES ASSUME Init PROVE FilesInv
  OBVIOUS
<1>1. rel.pc = "off" /\ disk.galls = galls
  BY DEF Init, NoRel
<1>2. \A g \in Galls : DOMAIN galls[g].pics = {}
  BY DEF Init, Closed
<1> QED
  BY <1>1, <1>2 DEF FilesInv, Distinct, Numbered, Has

LEMMA NoReload ==
    ASSUME "reload" \notin Admitted, rel.pc = "off", [Next]_vars
    PROVE  rel'.pc = "off"
<1>1. ASSUME NEW u \in Uploads, UploadNext(u) PROVE rel' = rel
  BY <1>1 DEF UploadNext, Ask, Enter, GiveUp, AddBegins, CheckDuplicated, AddRepeats,
              AddCommits, AddFails, AddEnds, Remember, Reply
<1>2. \A n : ~ ReloadBegins(n)
  BY DEF ReloadBegins, Command
<1>3. ~ ReloadAppends /\ ~ ReloadFails
  BY DEF ReloadAppends, ReloadFails
<1>4. CASE \/ WriteDisk \/ UndoDeletes \/ UndoEnds \/ UNCHANGED vars
           \/ ReplaceChecks \/ ReplaceCommits \/ ReplaceFails \/ ReplaceEnds
           \/ \E u \in Uploads : UndoBegins(u)
           \/ \E p : Delete(p) \/ \E look : ReplaceBegins(p, look)
           \/ \E g, look : DropFile(g, look)
           \/ \E f : TakeFile(f)
           \/ \E n : OpenGall(n) \/ CloseGall(n) \/ \E a : AddAlias(n, a) \/ DelAlias(n, a)
  BY <1>4 DEF WriteDisk, ReplaceChecks, ReplaceCommits, ReplaceFails, ReplaceEnds,
              UndoBegins, UndoDeletes, UndoEnds, Delete, ReplaceBegins, DropFile, TakeFile,
              OpenGall, CloseGall, AddAlias, DelAlias, vars, jobs
<1>5. CASE Crash
  BY <1>5 DEF Crash, NoRel
<1> QED
  BY <1>1, <1>2, <1>3, <1>4, <1>5 DEF Next

LEMMA FilesAreCounted ==
    ASSUME Typed, [Next]_vars
    PROVE  /\ fileTop <= fileTop'
           /\ ReplaceCommits \/ (\E u \in Uploads : AddCommits(u)) => fileTop' = fileTop + 1
<1>0. fileTop \in Nat
  BY DEF Typed
<1>1. ASSUME NEW u \in Uploads, UploadNext(u) PROVE fileTop' = fileTop \/ fileTop' = fileTop + 1
  BY <1>1 DEF UploadNext, Ask, Enter, GiveUp, AddBegins, CheckDuplicated, AddRepeats,
              AddCommits, AddFails, AddEnds, Remember, Reply, store
<1>2. fileTop' = fileTop \/ fileTop' = fileTop + 1
  BY <1>1
     DEF Next, vars, WriteDisk, UndoBegins, UndoDeletes, UndoEnds, Delete, ReplaceBegins,
         ReplaceChecks, ReplaceCommits, ReplaceFails, ReplaceEnds, OpenGall, CloseGall,
         ReloadBegins, AddAlias, DelAlias, ReloadAppends, ReloadFails, DropFile, TakeFile,
         Crash, store
<1>3. ReplaceCommits => fileTop' = fileTop + 1
  BY DEF ReplaceCommits
<1>4. \A u : AddCommits(u) => fileTop' = fileTop + 1
  BY DEF AddCommits
<1> QED
  BY <1>0, <1>2, <1>3, <1>4

\* The number of the file that a commit adds is new.
LEMMA NewNumbers ==
    ASSUME Typed
    PROVE  /\ \A u : AddCommits(u) => Added(u).file[2] = fileTop + 1
           /\ NewFile[2] = fileTop + 1
           /\ \A G : Numbered(G) => \A x : Has(G, x) => x.file # NewFile
<1>0. fileTop \in Nat
  BY DEF Typed
<1>1. NewFile[2] = fileTop + 1
  BY DEF NewFile
<1>2. \A u : Added(u).file[2] = fileTop + 1
  BY DEF Added
<1> HIDE DEF NewFile
<1>3. ASSUME NEW G, Numbered(G), NEW x, Has(G, x) PROVE x.file # NewFile
  BY <1>0, <1>1, <1>3 DEF Numbered
<1> QED
  BY <1>1, <1>2, <1>3

LEMMA StepIsNumbered ==
    ASSUME Typed, FilesInv, [Next]_vars
    PROVE  /\ Distinct(galls', FileOf)
           /\ \A x : Has(galls', x) => x.file[2] <= fileTop'
<1> DEFINE Good(G) == Distinct(G, FileOf) /\ \A x : Has(G, x) => x.file[2] <= fileTop'
<1>0. /\ galls \in [Galls -> GallRec] /\ fileTop \in Nat /\ fileTop' \in Nat
      /\ fileTop <= fileTop'
      /\ \A x : Has(galls, x) => x \in Pic /\ x.file[2] \in Nat /\ x.file[2] <= fileTop
      /\ (\A x \in Pic : FileOf[x] = x.file) /\ Distinct(galls, FileOf)
  <2>1. galls \in [Galls -> GallRec] /\ fileTop \in Nat /\ fileTop' \in Nat
    BY StepIsTyped DEF Typed
  <2>2. \A x \in Pic : x.file[2] \in Nat
    BY DEF Pic, PicFiles
  <2> QED
    BY <2>1, <2>2, FilesAreCounted, Holding DEF FilesInv, Numbered, FileOf
<1>1. Good(galls)
  BY <1>0 DEF FilesInv
<1>2. CASE Crash
  <2>1. galls' = disk.galls /\ fileTop' = fileTop
    BY <1>2 DEF Crash
  <2> QED
    BY <2>1 DEF FilesInv, Numbered
<1>3. CASE Shrinks(galls, galls')
  BY <1>1, <1>3, ShrunkHas
<1>4. ASSUME NEW u \in Uploads, AddCommits(u), up[u].gall \in Galls, Added(u) \in Pic,
             Grows(galls, galls', up[u].gall, Added(u))
      PROVE  Good(galls')
  <2>1. Added(u).file[2] = fileTop + 1 /\ fileTop' = fileTop + 1
    BY <1>4, NewNumbers, FilesAreCounted
  <2>2. \A x : Has(galls, x) => FileOf[x] # FileOf[Added(u)]
    BY <1>0, <1>4, <2>1
  <2>3. \A x : Has(galls', x) => Has(galls, x) \/ x = Added(u)
    BY <1>0, <1>4, GrownHas
  <2>4. Distinct(galls', FileOf)
    <3>1. galls \in [Galls -> GallRec] /\ Distinct(galls, FileOf)
      BY <1>0
    <3>2. up[u].gall \in Galls /\ Added(u) \in Pic /\ Grows(galls, galls', up[u].gall, Added(u))
      BY <1>4
    <3> QED
      BY <2>2, <3>1, <3>2, GrownIsDistinct
  <2> QED
    BY <1>0, <2>1, <2>3, <2>4
<1>5. ASSUME ReplaceCommits, rep.gall \in Galls,
             NEW k \in DOMAIN galls[rep.gall].pics, SwapsIn(k)
      PROVE  Good(galls')
  <2>1. NewFile[2] = fileTop + 1 /\ fileTop' = fileTop + 1
        /\ \A x : Has(galls, x) => x.file # NewFile
    BY <1>5, NewNumbers, FilesAreCounted DEF FilesInv
  <2>2. Distinct(galls', FileOf)
    BY <1>1, <1>5, <2>1, SwapHas
  <2> DEFINE y == Changed(galls[rep.gall].pics[k], NewFile)
  <2>3. y.file = NewFile /\ \A z : Has(galls', z) => Has(galls, z) \/ z = y
    BY <1>5, SwapHas
  <2> HIDE DEF y
  <2> QED
    BY <1>0, <2>1, <2>2, <2>3
<1>6. ~ ReloadAppends
  BY DEF FilesInv, ReloadAppends
<1> QED
  BY <1>2, <1>3, <1>4, <1>5, <1>6, GallsMove

\* Who changes the galleries saves them at once, or before it lets go of the picture.
LEMMA ChangesAreSaved ==
    ASSUME Typed, rel.pc = "off", [Next]_vars, ~ Crash
    PROVE  /\ \/ galls' = galls
              \/ writes' = <<"top", "galls">>
              \/ \E u \in Uploads : up'[u].pc = "thumb"
              \/ rep'.pc = "thumb"
              \/ "reload" \in Admitted
           /\ rep.pc = "thumb" => rep'.pc = "thumb" \/ writes' = <<"top", "galls">>
           /\ \A u \in Uploads :
                 up[u].pc = "thumb" => up'[u].pc = "thumb" \/ writes' = <<"top", "galls">>
<1> DEFINE A == \/ galls' = galls
                \/ writes' = <<"top", "galls">>
                \/ \E u \in Uploads : up'[u].pc = "thumb"
                \/ rep'.pc = "thumb"
                \/ "reload" \in Admitted
           B == rep.pc = "thumb" => rep'.pc = "thumb" \/ writes' = <<"top", "galls">>
           C == \A u \in Uploads :
                   up[u].pc = "thumb" => up'[u].pc = "thumb" \/ writes' = <<"top", "galls">>
<1>0. rep \in RepRec
  BY DEF Typed, RepTyped
<1>1. ASSUME NEW u \in Uploads, UploadNext(u) PROVE A /\ B /\ C
  <2>1. A
    BY <1>1, UploadGoesOn DEF Rests, TakesOff, HasChecked, Commits, Fails, Lands
  <2>2. B
    BY <1>1, UploadGoesOn
  <2>3. up[u].pc = "thumb" => up'[u].pc = "thumb" \/ writes' = <<"top", "galls">>
    BY <1>1, ThumbOnlyLands DEF Lands
  <2>4. C
    BY <1>1, <2>3, OthersStay
  <2> QED
    BY <2>1, <2>2, <2>4
<1>2. CASE ReplaceCommits \/ ReplaceEnds
  <2>1. rep'.pc = "thumb" \/ writes' = <<"top", "galls">>
    BY <1>0, <1>2 DEF ReplaceCommits, ReplaceEnds, Save, RepRec
  <2>2. up' = up
    BY <1>2 DEF ReplaceCommits, ReplaceEnds
  <2> QED
    BY <2>1, <2>2
<1>3. CASE \/ UndoDeletes \/ \E p : Delete(p)
           \/ \E n : \/ OpenGall(n) \/ CloseGall(n)
                     \/ \E a : AddAlias(n, a) \/ DelAlias(n, a)
  BY <1>3 DEF UndoDeletes, Delete, OpenGall, CloseGall, AddAlias, DelAlias, Save, jobs
<1>4. CASE \E n : ReloadBegins(n)
  BY <1>4 DEF ReloadBegins, Command
<1>5. CASE \/ WriteDisk \/ UndoEnds \/ ReplaceChecks \/ ReplaceFails \/ ReloadFails
           \/ ReloadAppends \/ UNCHANGED vars
           \/ \E u : UndoBegins(u)
           \/ \E p, look : ReplaceBegins(p, look)
           \/ \E g, look : DropFile(g, look)
           \/ \E f : TakeFile(f)
  BY <1>5 DEF WriteDisk, UndoEnds, ReplaceChecks, ReplaceFails, ReloadFails, ReloadAppends,
              UndoBegins, ReplaceBegins, DropFile, TakeFile, vars, store, jobs
<1> QED
  BY <1>1, <1>2, <1>3, <1>4, <1>5 DEF Next

LEMMA StepIsFiled == "reload" \notin Admitted /\ Typed /\ FilesInv /\ [Next]_vars => FilesInv'
<1> SUFFICES ASSUME "reload" \notin Admitted, Typed, FilesInv, [Next]_vars PROVE FilesInv'
  OBVIOUS
<1>1. rel'.pc = "off"
  BY NoReload DEF FilesInv
<1>2. Distinct(galls', FileOf) /\ \A x : Has(galls', x) => x.file[2] <= fileTop'
  BY StepIsNumbered
<1>3. Distinct(disk'.galls, FileOf) /\ \A x : Has(disk'.galls, x) => x.file[2] <= fileTop'
  <2>1. fileTop \in Nat /\ fileTop' \in Nat /\ fileTop <= fileTop'
        /\ disk.galls \in [Galls -> GallRec] /\ galls \in [Galls -> GallRec]
    BY StepIsTyped, FilesAreCounted DEF Typed
  <2>2. \A x \in Pic : x.file[2] \in Nat
    BY DEF Pic, PicFiles
  <2>3. ASSUME NEW G \in {galls, disk.galls} PROVE \A x : Has(G, x) => x.file[2] <= fileTop'
    <3>1. \A x : Has(G, x) => x \in Pic /\ x.file[2] <= fileTop
      BY <2>1, <2>3, Holding DEF FilesInv, Numbered
    <3> QED
      BY <2>1, <2>2, <3>1
  <2> QED
    BY <2>3, DiskIs DEF FilesInv
<1>4. ASSUME writes' = <<>>, rep'.pc # "thumb", \A u \in Uploads : up'[u].pc # "thumb"
      PROVE  disk'.galls = galls'
  <2>1. CASE Crash
    BY <2>1, CrashIs
  <2>2. CASE WriteDisk
    <3>1. disk'.galls = galls /\ galls' = galls
      BY <1>4, <2>2, WriteIs, WritesAre DEF WriteDisk, store
    <3> QED
      BY <3>1
  <2>3. CASE ~ Crash /\ ~ WriteDisk
    <3>1. writes' # <<"top", "galls">>
      BY <1>4, WritesAre
    <3>2. writes = <<>> /\ disk' = disk
      BY <1>4, <2>3, <3>1, StepMoves, DiskIs
    <3>3. /\ galls' = galls /\ rep.pc # "thumb"
          /\ \A u \in Uploads : up[u].pc # "thumb"
      BY <1>4, <2>3, <3>1, ChangesAreSaved DEF FilesInv
    <3> QED
      BY <3>2, <3>3 DEF FilesInv
  <2> QED
    BY <2>1, <2>2, <2>3
<1> QED
  BY <1>1, <1>2, <1>3, <1>4 DEF FilesInv, Numbered

LEMMA FilesAreDistinct ==
    ASSUME Typed, FilesInv
    PROVE  OneRecordPerFile /\ UnsavedOnlyInFlight
<1>1. galls \in [Galls -> GallRec]
  BY DEF Typed
<1>2. ASSUME NEW a \in Places, NEW b \in Places, PicAt(a).file = PicAt(b).file PROVE a = b
  <2>1. /\ a[1] \in Galls /\ a[2] \in DOMAIN galls[a[1]].pics /\ a = <<a[1], a[2]>>
        /\ b[1] \in Galls /\ b[2] \in DOMAIN galls[b[1]].pics /\ b = <<b[1], b[2]>>
    BY DEF Places
  <2>2. PicAt(a) \in Pic /\ PicAt(b) \in Pic
    BY <1>1, <2>1, Holding DEF PicAt
  <2>3. FileOf[PicAt(a)] = FileOf[PicAt(b)]
    BY <1>2, <2>2 DEF FileOf
  <2>4. a[1] = b[1] /\ a[2] = b[2]
    BY <2>1, <2>3 DEF Distinct, PicAt, FilesInv
  <2> QED
    BY <2>1, <2>4
<1>3. UnsavedOnlyInFlight
  BY DEF FilesInv, UnsavedOnlyInFlight, Free
<1> QED
  BY <1>2, <1>3 DEF OneRecordPerFile

\* Without the reload command no file is of two pictures, and the galleries on the
\* disk are those in memory whenever no handler has still to save; also after a
\* crash, or when copies fail and files are put in and taken out by hand.
THEOREM FilesNeverShared ==
    ASSUME "reload" \notin Admitted
    PROVE  Spec => [](OneRecordPerFile /\ UnsavedOnlyInFlight)
<1>1. Typed /\ FilesInv => OneRecordPerFile /\ UnsavedOnlyInFlight
  BY FilesAreDistinct
<1> QED
  BY <1>1, AlwaysTyped, InitIsFiled, StepIsFiled, PTL DEF Spec

----------------------------------------------------------------------------
(* Every picture has its file, while copies succeed and nobody else        *)
(* touches the directory.                                                  *)

Undisturbed == Admitted \cap {"reload", "drop", "copyfail", "crash"} = {}

\* A picture with the file to be replaced is the one that was found when the command
\* began, and the Gallery object found then is still the current one.
TheOne(g, i) ==
    galls[g].pics[i].file = rep.file =>
        g = rep.gall /\ galls[g].pics[i].pid = rep.pid /\ Current(rep)
FoundInv ==
    /\ \A x : Has(galls, x) => x.file \in files
    /\ \A g \in Galls : \A i \in DOMAIN galls[g].pics : galls[g].open
    /\ rep.pc \in {"hashing", "checked"} =>
          /\ rep.file[2] <= fileTop
          /\ \A g \in Galls : \A i \in DOMAIN galls[g].pics : TheOne(g, i)

LEMMA InitIsFound == Init => FoundInv
<1> SUFFICES ASSUME Init PROVE FoundInv
  OBVIOUS
<1>1. \A g \in Galls : DOMAIN galls[g].pics = {}
  BY DEF Init, Closed
<1> QED
  BY <1>1 DEF FoundInv, Has, Init, NoRep

LEMMA UndisturbedSteps ==
    ASSUME Undisturbed, [Next]_vars
    PROVE  /\ ~ Crash /\ ~ ReplaceFails /\ \A u : ~ AddFails(u)
           /\ \A f : ~ TakeFile(f)
           /\ \A n : ~ ReloadBegins(n)
           /\ "reload" \notin Admitted
  BY DEF Undisturbed, Crash, ReplaceFails, AddFails, TakeFile, ReloadBegins, Command

\* A gallery keeps its object or loses its pictures.
LEMMA LabelsOrNothing ==
    ASSUME Typed, [Next]_vars, ~ Crash, NEW g \in Galls
    PROVE  \/ galls'[g].open = galls[g].open /\ galls'[g].gen = galls[g].gen
           \/ DOMAIN galls'[g].pics = {}
<1>0. galls \in [Galls -> GallRec]
  BY DEF Typed
<1>1. ASSUME NEW n, OpenGall(n) PROVE galls'[g] = galls[g] \/ DOMAIN galls'[g].pics = {}
  BY <1>0, <1>1 DEF OpenGall, Closed
<1>2. ASSUME NEW n, CloseGall(n) PROVE galls'[g] = galls[g] \/ DOMAIN galls'[g].pics = {}
  BY <1>0, <1>2 DEF CloseGall, Closed
<1>3. ASSUME NEW n, NEW a, AddAlias(n, a) \/ DelAlias(n, a)
      PROVE  galls'[g].open = galls[g].open /\ galls'[g].gen = galls[g].gen
  BY <1>0, <1>3, ZenonT(60) DEF AddAlias, DelAlias, Find, GallRec
<1> QED
  BY <1>1, <1>2, <1>3, LabelsStay DEF SameLabels

LEMMA DropKeepsFiles ==
    ASSUME Typed, FilesInv, FoundInv, NEW p, DropPic(p)
    PROVE  \A x : Has(galls', x) => x.file \in files'
<1>0. galls \in [Galls -> GallRec] /\ Distinct(galls, FileOf)
      /\ \A x \in Pic : FileOf[x] = x.file
  BY DEF Typed, FilesInv, FileOf
<1>1. PICK g \in Galls : \E k \in 1 .. Len(galls[g].pics) :
         /\ galls' = [galls EXCEPT ![g].pics = Without(galls[g].pics, k)]
         /\ files' = files \ {galls[g].pics[k].file}
  BY <1>0, DropPicIs
<1>2. PICK k \in 1 .. Len(galls[g].pics) :
         /\ galls' = [galls EXCEPT ![g].pics = Without(galls[g].pics, k)]
         /\ files' = files \ {galls[g].pics[k].file}
  BY <1>1
<1>3. galls[g].pics \in Seq(Pic) /\ DOMAIN galls[g].pics = 1 .. Len(galls[g].pics)
  BY <1>0, Holding
<1> DEFINE w == Without(galls[g].pics, k)
<1>4. \A i \in DOMAIN w : \E j \in DOMAIN galls[g].pics : j # k /\ w[i] = galls[g].pics[j]
  BY <1>3, WithoutIsPart
<1>5. galls' = [galls EXCEPT ![g].pics = w]
  BY <1>2
<1> HIDE DEF w
<1>6. galls'[g].pics = w /\ \A h \in Galls : h # g => galls'[h] = galls[h]
  BY <1>0, <1>5 DEF GallRec
<1>7. ASSUME NEW x, Has(galls', x) PROVE x.file \in files'
  <2>1. PICK h \in Galls : \E j \in DOMAIN galls[h].pics :
           (h # g \/ j # k) /\ x = galls[h].pics[j]
    BY <1>4, <1>6, <1>7 DEF Has
  <2>2. PICK j \in DOMAIN galls[h].pics : (h # g \/ j # k) /\ x = galls[h].pics[j]
    BY <2>1
  <2>3. /\ galls[h].pics[j] \in Pic /\ galls[g].pics[k] \in Pic
        /\ Has(galls, x)
    BY <1>0, <1>3, <2>2, Holding
  <2>4. galls[h].pics[j].file # galls[g].pics[k].file
    <3>1. FileOf[galls[h].pics[j]] # FileOf[galls[g].pics[k]]
      BY <1>0, <1>3, <2>2 DEF Distinct
    <3> QED
      BY <1>0, <2>3, <3>1
  <2>5. x.file \in files
    BY <2>3 DEF FoundInv
  <2> QED
    BY <1>2, <2>2, <2>4, <2>5
<1> QED
  BY <1>7

LEMMA ReplaceKeepsFiles ==
    ASSUME Typed, FilesInv, FoundInv, ReplaceCommits
    PROVE  \A x : Has(galls', x) => x.file \in files'
<1>0. /\ galls \in [Galls -> GallRec] /\ rep.gall \in Galls /\ rep.pc = "checked"
      /\ Distinct(galls, FileOf) /\ \A x \in Pic : FileOf[x] = x.file
      /\ files' = (files \ {rep.file}) \cup {NewFile}
  BY ReplaceIs DEF Typed, RepTyped, FilesInv, FileOf, ReplaceCommits
<1>1. \A g \in Galls : \A i \in DOMAIN galls[g].pics :
         galls[g].pics[i].file = rep.file => g = rep.gall /\ i \in Replaced
  <2>1. ASSUME NEW g \in Galls, NEW i \in DOMAIN galls[g].pics,
               galls[g].pics[i].file = rep.file
        PROVE  g = rep.gall /\ i \in Replaced
    <3>1. g = rep.gall /\ galls[g].pics[i].pid = rep.pid /\ Current(rep)
      BY <1>0, <2>1 DEF FoundInv, TheOne
    <3>2. i \in 1 .. Len(galls[rep.gall].pics)
      BY <1>0, <2>1, <3>1, Holding
    <3> QED
      BY <2>1, <3>1, <3>2 DEF Replaced, Where
  <2> QED
    BY <2>1
<1>2. CASE Replaced = {} /\ galls' = galls
  <2>1. ASSUME NEW x, Has(galls, x) PROVE x.file \in files /\ x.file # rep.file
    BY <1>1, <1>2, <2>1 DEF FoundInv, Has
  <2> QED
    BY <1>0, <1>2, <2>1
<1>3. ASSUME NEW k \in 1 .. Len(galls[rep.gall].pics), k \in Replaced,
             WithPics(rep.gall, [galls[rep.gall].pics EXCEPT ![k] = Changed(@, NewFile)])
      PROVE  \A x : Has(galls', x) => x.file \in files'
  <2> DEFINE y == Changed(galls[rep.gall].pics[k], NewFile)
             s == [galls[rep.gall].pics EXCEPT ![k] = y]
  <2>1. k \in DOMAIN galls[rep.gall].pics /\ SwapsIn(k)
        /\ galls[rep.gall].pics \in Seq(Pic) /\ galls[rep.gall].pics[k] \in Pic
    BY <1>0, <1>3, Holding, ElementOfSeq DEF SwapsIn
  <2>2. y.file = NewFile
    BY <1>0, <2>1, SwapHas
  <2>3. galls[rep.gall].pics[k].file = rep.file
    BY <1>3 DEF Replaced, Where
  <2>4. galls' = [galls EXCEPT ![rep.gall].pics = s]
    BY <1>3 DEF WithPics
  <2> HIDE DEF y
  <2>5. galls'[rep.gall].pics = s /\ \A h \in Galls : h # rep.gall => galls'[h] = galls[h]
    <3> HIDE DEF s
    <3> QED
      BY <1>0, <2>4 DEF GallRec
  <2>6. ASSUME NEW x, Has(galls', x) PROVE x.file \in files'
    <3>1. PICK h \in Galls : \E i \in DOMAIN galls'[h].pics : galls'[h].pics[i] = x
      BY <2>6 DEF Has
    <3>2. PICK i \in DOMAIN galls'[h].pics : galls'[h].pics[i] = x
      BY <3>1
    <3>3. CASE h = rep.gall /\ i = k
      BY <1>0, <2>1, <2>2, <2>5, <3>2, <3>3
    <3>4. CASE h # rep.gall \/ i # k
      <4>1. i \in DOMAIN galls[h].pics /\ x = galls[h].pics[i]
        BY <2>5, <3>2, <3>4
      <4>2. Has(galls, x) /\ x \in Pic
        BY <1>0, <4>1, Holding
      <4>3. x.file # rep.file
        <5>1. FileOf[x] # FileOf[galls[rep.gall].pics[k]]
          BY <1>0, <2>1, <3>4, <4>1 DEF Distinct
        <5> QED
          BY <1>0, <2>1, <2>3, <4>2, <5>1
      <4> QED
        BY <1>0, <4>2, <4>3 DEF FoundInv
    <3> QED
      BY <3>3, <3>4
  <2> QED
    BY <2>6
<1> QED
  BY <1>2, <1>3, ReplaceIs

\* Files go only with their pictures.
LEMMA FilesGoWithPictures ==
    ASSUME Undisturbed, [Next]_vars
    PROVE  \/ files \subseteq files'
           \/ ReplaceCommits
           \/ \E p : DropPic(p)
<1>1. \A u : UploadNext(u) => files \subseteq files'
  BY UndisturbedSteps, ZenonT(60)
     DEF UploadNext, Ask, Enter, GiveUp, AddBegins, CheckDuplicated, AddRepeats, AddCommits,
         AddEnds, Remember, Reply, store
<1>2. CASE UndoDeletes \/ \E p : Delete(p)
  BY <1>2 DEF UndoDeletes, Delete
<1>3. CASE \/ WriteDisk \/ UndoEnds \/ UNCHANGED vars \/ ReplaceChecks \/ ReplaceEnds
           \/ ReloadAppends \/ ReloadFails
           \/ \E u \in Uploads : UndoBegins(u)
           \/ \E p, look : ReplaceBegins(p, look)
           \/ \E g, look : DropFile(g, look)
           \/ \E n : OpenGall(n) \/ CloseGall(n) \/ \E a : AddAlias(n, a) \/ DelAlias(n, a)
  BY <1>3 DEF WriteDisk, UndoEnds, ReplaceChecks, ReplaceEnds, ReloadAppends, ReloadFails,
              UndoBegins, ReplaceBegins, DropFile, OpenGall, CloseGall, AddAlias, DelAlias,
              vars, store
<1> QED
  BY <1>1, <1>2, <1>3, UndisturbedSteps DEF Next

LEMMA NoneReloads == Undisturbed => "reload" \notin Admitted
  BY DEF Undisturbed

\* The replace command has found its picture.
LEMMA FoundWhenBegun ==
    ASSUME Typed, FilesInv, NEW p, NEW look, ReplaceBegins(p, look)
    PROVE  /\ galls' = galls /\ fileTop' = fileTop /\ rep'.file[2] <= fileTop
           /\ \A g \in Galls : \A i \in DOMAIN galls[g].pics : TheOne(g, i)'
<1>0. /\ galls \in [Galls -> GallRec] /\ galls' = galls /\ fileTop' = fileTop
      /\ Distinct(galls, FileOf) /\ \A x \in Pic : FileOf[x] = x.file
  BY DEF Typed, FilesInv, FileOf, ReplaceBegins, store
<1>1. PICK g \in Holders(p) :
         rep' = [pc |-> "hashing", gall |-> g, gen |-> galls[g].gen, pid |-> p,
                 file |-> galls[g].pics[First(Where(g, LAMBDA x : x.pid = p))].file,
                 look |-> look, same |-> FALSE]
  BY DEF ReplaceBegins
<1> DEFINE S == {k \in 1 .. Len(galls[g].pics) : galls[g].pics[k].pid = p}
           k == First(S)
<1>2. Where(g, LAMBDA x : x.pid = p) = S
  BY DEF Where
<1>3. g \in Galls /\ galls[g].open /\ S # {}
  BY <1>2 DEF Holders
<1>4. DOMAIN galls[g].pics = 1 .. Len(galls[g].pics) /\ Len(galls[g].pics) \in Nat
  BY <1>0, <1>3, Holding
<1>5. S \in SUBSET Nat
  BY <1>4
<1>6. k \in S
  <2> HIDE DEF S
  <2> QED
    BY <1>3, <1>5, FirstIsThere
<1>7. /\ rep'.gall = g /\ rep'.gen = galls[g].gen /\ rep'.pid = p
      /\ rep'.file = galls[g].pics[k].file
  BY <1>1, <1>2
<1>8. k \in DOMAIN galls[g].pics /\ galls[g].pics[k].pid = p
  BY <1>4, <1>6
<1> HIDE DEF k, S
<1>9. Has(galls, galls[g].pics[k]) /\ galls[g].pics[k] \in Pic
  BY <1>0, <1>3, <1>8, Holding
<1>10. rep'.file[2] <= fileTop
  BY <1>7, <1>9 DEF FilesInv, Numbered
<1>11. ASSUME NEW h \in Galls, NEW i \in DOMAIN galls[h].pics,
              galls[h].pics[i].file = rep'.file
       PROVE  h = g /\ i = k
  <2>1. galls[h].pics[i] \in Pic
    BY <1>0, Holding
  <2>2. FileOf[galls[h].pics[i]] = FileOf[galls[g].pics[k]]
    BY <1>0, <1>7, <1>9, <1>11, <2>1
  <2> QED
    BY <1>0, <1>3, <1>8, <2>2 DEF Distinct
<1> QED
  BY <1>0, <1>3, <1>7, <1>8, <1>10, <1>11 DEF TheOne, Current

\* It goes on with what it found, until it commits.
LEMMA ReplaceGoesOn ==
    ASSUME Typed, [Next]_vars, rep'.pc \in {"hashing", "checked"},
           ~ \E p, look : ReplaceBegins(p, look)
    PROVE  /\ rep.pc \in {"hashing", "checked"} /\ ~ ReplaceCommits
           /\ rep'.gall = rep.gall /\ rep'.gen = rep.gen /\ rep'.pid = rep.pid
           /\ rep'.file = rep.file
<1>0. rep \in RepRec
  BY DEF Typed, RepTyped
<1>1. CASE ReplaceChecks
  BY <1>0, <1>1 DEF ReplaceChecks, NoRep, RepRec, ReplaceCommits
<1>2. CASE ReplaceCommits \/ ReplaceFails \/ ReplaceEnds \/ Crash
  BY <1>0, <1>2 DEF ReplaceCommits, ReplaceFails, ReplaceEnds, Crash, NoRep, RepRec
<1>3. CASE ~ (ReplaceChecks \/ ReplaceCommits \/ ReplaceFails \/ ReplaceEnds \/ Crash)
  <2>1. ASSUME NEW u \in Uploads, UploadNext(u) PROVE rep' = rep
    BY <2>1, UploadGoesOn
  <2>2. rep' = rep
    BY <1>3, <2>1
       DEF Next, vars, WriteDisk, UndoBegins, UndoDeletes, UndoEnds, Delete, OpenGall,
           CloseGall, ReloadBegins, AddAlias, DelAlias, ReloadAppends, ReloadFails, DropFile,
           TakeFile, jobs
  <2> QED
    BY <1>3, <2>2
<1> QED
  BY <1>1, <1>2, <1>3

LEMMA StepIsFound ==
    Undisturbed /\ Typed /\ FilesInv /\ FoundInv /\ [Next]_vars => FoundInv'
<1> SUFFICES ASSUME Undisturbed, Typed, FilesInv, FoundInv, [Next]_vars PROVE FoundInv'
  OBVIOUS
<1>0. /\ galls \in [Galls -> GallRec] /\ fileTop \in Nat /\ fileTop' \in Nat
      /\ fileTop <= fileTop' /\ ~ Crash /\ ~ ReloadAppends
  BY StepIsTyped, FilesAreCounted, UndisturbedSteps DEF Typed, FilesInv, ReloadAppends
<1>1. \A x : Has(galls', x) => x.file \in files'
  <2>1. CASE ReplaceCommits
    BY <2>1, ReplaceKeepsFiles
  <2>2. CASE \E p : DropPic(p)
    BY <2>2, DropKeepsFiles
  <2>3. CASE files \subseteq files' /\ ~ ReplaceCommits
    <3>1. CASE Shrinks(galls, galls')
      BY <2>3, <3>1, ShrunkHas DEF FoundInv
    <3>2. ASSUME NEW u \in Uploads, AddCommits(u), up[u].gall \in Galls, Added(u) \in Pic,
                 Grows(galls, galls', up[u].gall, Added(u))
          PROVE  \A x : Has(galls', x) => x.file \in files'
      <4>1. Added(u).file \in files'
        BY <3>2 DEF AddCommits, Added
      <4>2. \A x : Has(galls', x) => Has(galls, x) \/ x = Added(u)
        BY <1>0, <3>2, GrownHas
      <4> QED
        BY <2>3, <4>1, <4>2 DEF FoundInv
    <3> QED
      BY <1>0, <2>3, <3>1, <3>2, GallsMove
  <2> QED
    BY <2>1, <2>2, <2>3, FilesGoWithPictures
<1>2. ASSUME NEW g \in Galls, NEW i \in DOMAIN galls'[g].pics
      PROVE  /\ galls'[g].open = galls[g].open /\ galls'[g].gen = galls[g].gen
             /\ galls[g].open
             /\ \/ \E j \in DOMAIN galls[g].pics : galls'[g].pics[i] = galls[g].pics[j]
                \/ ReplaceCommits
                \/ galls'[g].pics[i].file[2] = fileTop + 1
  <2>1. galls'[g].open = galls[g].open /\ galls'[g].gen = galls[g].gen
    BY <1>0, LabelsOrNothing
  <2>2. CASE Shrinks(galls, galls')
    <3>1. PartOf(galls'[g].pics, galls[g].pics)
      BY <2>2 DEF Shrinks
    <3>2. \E j \in DOMAIN galls[g].pics : galls'[g].pics[i] = galls[g].pics[j]
      BY <3>1 DEF PartOf
    <3> QED
      BY <2>1, <3>2 DEF FoundInv
  <2>3. ASSUME NEW u \in Uploads, AddCommits(u), up[u].gall \in Galls, Added(u) \in Pic,
               Grows(galls, galls', up[u].gall, Added(u))
        PROVE  /\ galls[g].open
               /\ \/ \E j \in DOMAIN galls[g].pics : galls'[g].pics[i] = galls[g].pics[j]
                  \/ galls'[g].pics[i].file[2] = fileTop + 1
    <3>1. CASE g # up[u].gall \/ galls' = galls
      <4>1. galls'[g].pics = galls[g].pics
        BY <2>3, <3>1 DEF Grows
      <4> QED
        BY <4>1 DEF FoundInv
    <3>2. CASE g = up[u].gall /\ galls' # galls
      <4>1. galls[g].open
        BY <2>3, <3>2 DEF AddCommits, Current
      <4>2. PICK j \in DOMAIN Append(galls[g].pics, Added(u)) :
               galls'[g].pics[i] = Append(galls[g].pics, Added(u))[j]
        BY <2>3, <3>2 DEF Grows, PartOf
      <4>3. /\ galls[g].pics \in Seq(Pic) /\ DOMAIN galls[g].pics = 1 .. Len(galls[g].pics)
            /\ Len(galls[g].pics) \in Nat
        BY <1>0, Holding
      <4>4. \/ j \in DOMAIN galls[g].pics /\ galls'[g].pics[i] = galls[g].pics[j]
            \/ galls'[g].pics[i] = Added(u)
        BY <2>3, <4>2, <4>3, AppendProperties
      <4> QED
        BY <2>3, <4>1, <4>4, NewNumbers
    <3> QED
      BY <3>1, <3>2
  <2>4. ASSUME ReplaceCommits, rep.gall \in Galls,
               NEW k \in DOMAIN galls[rep.gall].pics, SwapsIn(k)
        PROVE  galls[g].open
    <3>1. Current(rep)
      BY <2>4 DEF SwapsIn, Replaced
    <3>2. CASE g = rep.gall
      BY <3>1, <3>2 DEF Current
    <3>3. CASE g # rep.gall
      <4>1. galls'[g] = galls[g]
        BY <1>0, <2>4, <3>3 DEF SwapsIn, WithPics
      <4> QED
        BY <4>1 DEF FoundInv
    <3> QED
      BY <3>2, <3>3
  <2> QED
    BY <1>0, <2>1, <2>2, <2>3, <2>4, GallsMove
<1>3. ASSUME rep'.pc \in {"hashing", "checked"}
      PROVE  /\ rep'.file[2] <= fileTop'
             /\ \A g \in Galls : \A i \in DOMAIN galls'[g].pics : TheOne(g, i)'
  <2>1. CASE \E p, look : ReplaceBegins(p, look)
    <3>1. PICK p, look : ReplaceBegins(p, look)
      BY <2>1
    <3>2. /\ galls' = galls /\ rep'.file[2] <= fileTop'
          /\ \A g \in Galls : \A i \in DOMAIN galls[g].pics : TheOne(g, i)'
      BY <1>0, <3>1, FoundWhenBegun
    <3> QED
      BY <3>2
  <2>2. CASE ~ \E p, look : ReplaceBegins(p, look)
    <3>1. /\ rep.pc \in {"hashing", "checked"} /\ ~ ReplaceCommits
          /\ rep'.gall = rep.gall /\ rep'.gen = rep.gen /\ rep'.pid = rep.pid
          /\ rep'.file = rep.file
      BY <1>3, <2>2, ReplaceGoesOn
    <3>2. /\ rep.file[2] \in Nat /\ rep.file[2] <= fileTop
      BY <3>1 DEF Typed, RepTyped, PicFiles, FoundInv
    <3>3. ASSUME NEW g \in Galls, NEW i \in DOMAIN galls'[g].pics,
                 galls'[g].pics[i].file = rep.file
          PROVE  g = rep.gall /\ galls'[g].pics[i].pid = rep.pid /\ Current(rep)'
      <4>1. PICK j \in DOMAIN galls[g].pics : galls'[g].pics[i] = galls[g].pics[j]
        BY <1>0, <1>2, <3>1, <3>2, <3>3
      <4>2. g = rep.gall /\ galls[g].pics[j].pid = rep.pid /\ Current(rep)
        BY <3>1, <3>3, <4>1 DEF FoundInv, TheOne
      <4> QED
        BY <1>2, <3>1, <3>3, <4>1, <4>2 DEF Current
    <3> QED
      BY <1>0, <3>1, <3>2, <3>3 DEF TheOne
  <2> QED
    BY <2>1, <2>2
<1> QED
  BY <1>1, <1>2, <1>3 DEF FoundInv

LEMMA FilesAreFound ==
    ASSUME Typed, FoundInv
    PROVE  FilesExist
<1>1. galls \in [Galls -> GallRec]
  BY DEF Typed
<1>2. \A g \in Galls : \A i \in 1 .. Len(galls[g].pics) : Has(galls, galls[g].pics[i])
  BY <1>1, Holding
<1> QED
  BY <1>2 DEF FoundInv, FilesExist, PicsOf

\* While no copy fails, nobody else touches the directories and the process does not
\* crash, every picture has its file, though a replacement races deletions, undos,
\* closes and other uploads.
THEOREM FilesAlwaysExist ==
    ASSUME Undisturbed
    PROVE  Spec => []FilesExist
<1> DEFINE Inv == Typed /\ FilesInv /\ FoundInv
<1>1. Init => Inv
  BY InitIsTyped, InitIsFiled, InitIsFound
<1>2. Inv /\ [Next]_vars => Inv'
  BY StepIsTyped, StepIsFiled, StepIsFound, NoneReloads
<1>3. Inv => FilesExist
  BY FilesAreFound
<1> QED
  BY <1>1, <1>2, <1>3, PTL DEF Spec


----------------------------------------------------------------------------
(* Uploads to one gallery take turns, while galleries have no aliases.     *)

Untitled == Admitted \cap {"alias", "replace", "reload"} = {}

\* An upload that was found to repeat nothing does not until it commits.
IsNew(u) == \A i \in DOMAIN galls[up[u].gall].pics :
                galls[up[u].gall].pics[i].look # up[u].look
TurnInv ==
    /\ \A g \in Galls : galls[g].alias = {} /\ disk.galls[g].alias = {}
    /\ rep.pc = "off" /\ rel.pc = "off"
    /\ \A u \in Uploads : up[u].pc \in Flying => up[u].gall = up[u].name
    /\ \A u \in Uploads : up[u].pc = "checked" /\ ~ up[u].same /\ Current(up[u]) => IsNew(u)

LEMMA InitIsInTurn == Init => TurnInv
  BY DEF Init, TurnInv, Closed, NoRep, NoRel, NewUp, Flying

LEMMA UntitledSteps ==
    ASSUME Untitled, TurnInv
    PROVE  /\ \A n, a : ~ AddAlias(n, a) /\ ~ DelAlias(n, a)
           /\ \A p, look : ~ ReplaceBegins(p, look)
           /\ \A n : ~ ReloadBegins(n)
           /\ ~ ReplaceChecks /\ ~ ReplaceCommits /\ ~ ReplaceFails /\ ~ ReplaceEnds
           /\ ~ ReloadAppends /\ ~ ReloadFails
  BY DEF Untitled, TurnInv, AddAlias, DelAlias, ReplaceBegins, ReloadBegins, Command,
         ReplaceChecks, ReplaceCommits, ReplaceFails, ReplaceEnds, ReloadAppends, ReloadFails

\* Where an upload is on its way after a step.
LEMMA UploadIsAt ==
    ASSUME Typed, NEW u \in Uploads, UploadNext(u), up'[u].pc \in Flying
    PROVE  /\ up'[u].name = up[u].name
           /\ \/ up'[u].gall \in Find(up[u].name)
              \/ up'[u].gall = up[u].gall /\ up[u].pc \in Flying
           /\ up'[u].pc = "checked" =>
                 CheckDuplicated(u) /\ up'[u].look = up[u].look /\ up'[u].gen = up[u].gen
<1>0. up[u] \in UpRec /\ DOMAIN up = Uploads
  BY DEF Typed, UpTyped
<1>1. ASSUME NEW look \in Looks, AddBegins(u, look)
      PROVE  /\ up'[u].name = up[u].name /\ up'[u].gall \in Find(up[u].name)
             /\ up'[u].pc # "checked"
  <2>1. CASE up' = [up EXCEPT ![u].left = @ - 1] /\ up[u].pc = "next"
    <3>1. up'[u].pc = "next"
      BY <1>0, <2>1 DEF UpRec
    <3> QED
      BY <3>1 DEF Flying
  <2>2. ASSUME NEW g \in Find(up[u].name),
               up' = [up EXCEPT ![u].pc = "hashing", ![u].gall = g, ![u].gen = galls[g].gen,
                                ![u].pid = pidTop + 1, ![u].look = look]
        PROVE  /\ up'[u].name = up[u].name /\ up'[u].gall = g
               /\ up'[u].pc = "hashing"
    <3> DEFINE n == galls[g].gen
               p == pidTop + 1
    <3> HIDE DEF n, p
    <3>1. up' = [up EXCEPT ![u].pc = "hashing", ![u].gall = g, ![u].gen = n,
                           ![u].pid = p, ![u].look = look]
      BY <2>2 DEF n, p
    <3> QED
      BY <1>0, <3>1 DEF UpRec
  <2> QED
    BY <1>1, <2>1, <2>2 DEF AddBegins
<1>2. CASE CheckDuplicated(u)
  <2>1. PICK same \in BOOLEAN : up' = [up EXCEPT ![u].pc = "checked", ![u].same = same]
    BY <1>2 DEF CheckDuplicated
  <2>2. up[u].pc = "hashing"
    BY <1>2 DEF CheckDuplicated
  <2>3. /\ up'[u].name = up[u].name /\ up'[u].gall = up[u].gall
        /\ up'[u].look = up[u].look /\ up'[u].gen = up[u].gen
    BY <1>0, <2>1 DEF UpRec
  <2> QED
    BY <1>2, <2>2, <2>3 DEF Flying
<1>3. CASE AddCommits(u)
  BY <1>0, <1>3 DEF AddCommits, MayAdd, UpRec, Flying
<1>4. CASE \E n \in Names, force \in BOOLEAN : Ask(u, n, force)
  BY <1>0, <1>4 DEF Ask, UpRec, Flying
<1>5. CASE Enter(u) \/ GiveUp(u) \/ AddRepeats(u) \/ AddFails(u) \/ Reply(u) \/ Remember(u)
  BY <1>0, <1>5 DEF Enter, GiveUp, AddRepeats, AddFails, Reply, Remember, UpRec, Flying
<1>6. CASE AddEnds(u)
  BY <1>0, <1>6, AddEndsLands DEF Lands, Flying
<1> QED
  BY <1>1, <1>2, <1>3, <1>4, <1>5, <1>6 DEF UploadNext

\* Other steps than its own leave an upload as it is, but for a crash.
LEMMA UploadStays ==
    ASSUME Typed, [Next]_vars, NEW u \in Uploads, ~ UploadNext(u)
    PROVE  up'[u] = up[u] \/ Crash
<1>1. ASSUME NEW v \in Uploads, UploadNext(v) PROVE up'[u] = up[u]
  BY <1>1, UploadMovesItself
<1>2. CASE ~ \E v \in Uploads : UploadNext(v)
  BY <1>2 DEF Next, vars, jobs, WriteDisk, UndoBegins, UndoDeletes, UndoEnds, Delete,
              ReplaceBegins, ReplaceChecks, ReplaceCommits, ReplaceFails, ReplaceEnds,
              OpenGall, CloseGall, ReloadBegins, AddAlias, DelAlias, ReloadAppends,
              ReloadFails, DropFile, TakeFile
<1> QED
  BY <1>1, <1>2

LEMMA CrashLandsAll ==
    ASSUME Typed, Crash, NEW u \in Uploads
    PROVE  up'[u].pc \notin Flying
  BY DEF Typed, UpTyped, UpRec, Crash, NewUp, Flying

LEMMA UntitledGalls ==
    ASSUME Untitled, Typed, TurnInv, [Next]_vars
    PROVE  /\ \A g \in Galls : galls'[g].alias = {} /\ disk'.galls[g].alias = {}
           /\ rep'.pc = "off" /\ rel'.pc = "off"
<1>0. galls \in [Galls -> GallRec]
  BY DEF Typed
<1>1. \A g \in Galls : galls[g].alias = {} /\ disk.galls[g].alias = {}
  BY DEF TurnInv
<1>2. \A g \in Galls : galls'[g].alias = {}
  <2>1. CASE Crash
    BY <1>1, <2>1 DEF Crash
  <2>2. ASSUME NEW n, OpenGall(n) \/ CloseGall(n)
        PROVE  \A g \in Galls : galls'[g].alias = {}
    <3>1. CASE OpenGall(n)
      BY <1>0, <1>1, <3>1 DEF OpenGall, Closed
    <3>2. CASE CloseGall(n)
      BY <1>0, <1>1, <3>2 DEF CloseGall, Closed
    <3> QED
      BY <2>2, <3>1, <3>2
  <2>3. CASE SameLabels(galls, galls')
    BY <1>1, <2>3 DEF SameLabels
  <2> QED
    BY <2>1, <2>2, <2>3, LabelsStay, UntitledSteps
<1>3. \A g \in Galls : disk'.galls[g].alias = {}
  BY <1>1, DiskIs
<1>4. rep'.pc = "off" /\ rel'.pc = "off"
  <2>1. CASE Crash
    BY <2>1 DEF Crash, NoRep, NoRel
  <2>2. ASSUME NEW u \in Uploads, UploadNext(u) PROVE rep' = rep /\ rel' = rel
    BY <2>2, UploadGoesOn
  <2>3. CASE ~ Crash
    <3>1. rep' = rep /\ rel' = rel
      BY <2>2, <2>3, UntitledSteps
         DEF Next, vars, jobs, WriteDisk, UndoBegins, UndoDeletes, UndoEnds, Delete,
             OpenGall, CloseGall, DropFile, TakeFile
    <3> QED
      BY <3>1 DEF TurnInv
  <2> QED
    BY <2>1, <2>3
<1> QED
  BY <1>2, <1>3, <1>4

\* What a gallery gets while an upload is past the check is not from another upload.
LEMMA NothingComesBetween ==
    ASSUME Untitled, Typed, NamesInv, TurnInv, [Next]_vars, ~ Crash,
           NEW u \in Uploads, up[u].pc \in Flying, ~ AddCommits(u)
    PROVE  PartOf(galls'[up[u].gall].pics, galls[up[u].gall].pics)
<1>0. up[u].gall \in Galls /\ up[u].gall = up[u].name
  BY DEF Typed, UpTyped, TurnInv
<1>1. CASE Shrinks(galls, galls')
  BY <1>0, <1>1 DEF Shrinks
<1>2. ASSUME NEW v \in Uploads, AddCommits(v), Grows(galls, galls', up[v].gall, Added(v))
      PROVE  galls'[up[u].gall].pics = galls[up[u].gall].pics
  <2>1. up[v].pc \in Flying /\ u # v
    BY <1>2 DEF AddCommits, MayAdd, Flying
  <2>2. up[v].gall = up[v].name /\ up[u].name # up[v].name
    BY <2>1 DEF TurnInv, NamesInv, Past, Flying
  <2> QED
    BY <1>0, <1>2, <2>2 DEF Grows
<1> QED
  BY <1>0, <1>1, <1>2, GallsMove, UntitledSteps, PartOfItself

LEMMA StepIsInTurn ==
    Untitled /\ Typed /\ NamesInv /\ TurnInv /\ [Next]_vars => TurnInv'
<1> SUFFICES ASSUME Untitled, Typed, NamesInv, TurnInv, [Next]_vars PROVE TurnInv'
  OBVIOUS
<1>0. galls \in [Galls -> GallRec]
  BY DEF Typed
<1>1. ASSUME NEW u \in Uploads, up'[u].pc \in Flying
      PROVE  up'[u].gall = up'[u].name
  <2>1. CASE UploadNext(u)
    <3>1. \A g \in Find(up[u].name) : g = up[u].name
      BY DEF Find, TurnInv
    <3> QED
      BY <1>1, <2>1, <3>1, UploadIsAt DEF TurnInv
  <2>2. CASE ~ UploadNext(u)
    BY <1>1, <2>2, UploadStays, CrashLandsAll DEF TurnInv
  <2> QED
    BY <2>1, <2>2
<1>2. ASSUME NEW u \in Uploads, up'[u].pc = "checked", ~ up'[u].same, Current(up[u])',
             up'[u].pc \in Flying
      PROVE  IsNew(u)'
  <2>0. ~ Crash
    BY <1>2, CrashLandsAll
  <2>1. CASE UploadNext(u)
    <3>1. /\ CheckDuplicated(u) /\ galls' = galls
          /\ up'[u].look = up[u].look /\ up'[u].gen = up[u].gen
      BY <1>2, <2>1, UploadIsAt DEF CheckDuplicated, store
    <3>2. up'[u].gall = up[u].gall /\ up[u].gall \in Galls
      BY <3>1 DEF CheckDuplicated, Typed, UpTyped, UpRec, Flying
    <3>3. Current(up[u])
      BY <1>2, <3>1, <3>2 DEF Current
    <3>4. Where(up[u].gall, LAMBDA x : x.look = up[u].look) = {}
      <4>1. DOMAIN up = Uploads /\ up[u] \in UpRec
        BY DEF Typed, UpTyped
      <4> DEFINE S == Where(up[u].gall, LAMBDA x : x.look = up[u].look)
      <4>2. PICK same \in BOOLEAN :
               /\ same <=> S # {}
               /\ up' = [up EXCEPT ![u].pc = "checked", ![u].same = same]
        BY <3>1, <3>3 DEF CheckDuplicated
      <4> HIDE DEF S
      <4>3. up'[u].same = same
        BY <4>1, <4>2 DEF UpRec
      <4>4. S = {}
        BY <1>2, <4>2, <4>3
      <4> QED
        BY <4>4 DEF S
    <3>5. \A i \in 1 .. Len(galls[up[u].gall].pics) :
             galls[up[u].gall].pics[i].look # up[u].look
      BY <3>4 DEF Where
    <3> QED
      BY <1>0, <3>1, <3>2, <3>5, Holding DEF IsNew
  <2>2. CASE ~ UploadNext(u)
    <3>1. up'[u] = up[u] /\ ~ AddCommits(u)
      BY <2>0, <2>2, UploadStays DEF UploadNext
    <3>2. up[u].gall \in Galls
      BY <1>2, <3>1 DEF Typed, UpTyped
    <3>3. CASE DOMAIN galls'[up[u].gall].pics = {}
      BY <3>1, <3>3 DEF IsNew
    <3>4. CASE galls'[up[u].gall].open = galls[up[u].gall].open
               /\ galls'[up[u].gall].gen = galls[up[u].gall].gen
      <4>1. Current(up[u])
        BY <1>2, <3>1, <3>4 DEF Current
      <4>2. IsNew(u)
        BY <1>2, <3>1, <4>1 DEF TurnInv
      <4>3. PartOf(galls'[up[u].gall].pics, galls[up[u].gall].pics)
        BY <1>2, <2>0, <3>1, NothingComesBetween
      <4> QED
        BY <3>1, <4>2, <4>3 DEF IsNew, PartOf
    <3> QED
      BY <2>0, <3>2, <3>3, <3>4, LabelsOrNothing
  <2> QED
    BY <2>1, <2>2
<1>3. \A u \in Uploads : up'[u].pc = "checked" => up'[u].pc \in Flying
  BY DEF Flying
<1> QED
  BY <1>1, <1>2, <1>3, UntitledGalls DEF TurnInv

LEMMA CommitIsNew ==
    ASSUME Typed, TurnInv, [Next]_vars
    PROVE  AddedIsNew
<1> SUFFICES ASSUME NEW u \in Uploads, up[u].pc = "checked", up'[u].pc = "thumb",
                    Current(up[u]), NEW x \in PicsOf(up[u].gall)
             PROVE  x.look # up[u].look
  BY DEF AddedIsNew
<1>1. up[u].gall \in Galls /\ galls \in [Galls -> GallRec]
  BY DEF Typed, UpTyped, Flying
<1>2. UploadNext(u)
  BY UploadStays, CrashLandsAll DEF Flying
<1>3. AddCommits(u)
  BY <1>2, UploadGoesOn
     DEF Rests, TakesOff, HasChecked, Commits, Fails, Lands, Flying
<1>4. IsNew(u)
  BY <1>3 DEF AddCommits, MayAdd, TurnInv
<1> QED
  BY <1>1, <1>4, Holding DEF IsNew, PicsOf

\* A picture added after the duplicate check repeats none that its gallery holds then,
\* however galleries are closed and opened, pictures deleted and undone, and the process
\* restarted between the check and the addition.
THEOREM CheckAlwaysHolds ==
    ASSUME Untitled
    PROVE  Spec => [][AddedIsNew]_vars
<1> DEFINE Inv == Typed /\ NamesInv /\ TurnInv
<1>1. Init => Inv
  BY InitIsTyped, InitIsNamed, InitIsInTurn
<1>2. Inv /\ [Next]_vars => Inv'
  BY StepIsTyped, StepIsNamed, StepIsInTurn
<1>3. Inv /\ [Next]_vars => [AddedIsNew]_vars
  BY CommitIsNew
<1> QED
  BY <1>1, <1>2, <1>3, PTL DEF Spec
=============================================================================
