----------------------------- MODULE BesideProofs -----------------------------
(***************************************************************************)
(* Theorems about Beside.  A step of Beside is one of the part that the    *)
(* behaviour is of and leaves the others alone, so that an invariant of a  *)
(* part (PartsProofs) is one of Beside.                                    *)
(***************************************************************************)
EXTENDS Beside, PartsProofs

-----------------------------------------------------------------------------
(* Skills (Skills) *)

\* A function on 0..n each of whose values is made of the one before it.
IsRecursion(g, V, v, n, F) ==
  g \in [0..n -> V] /\ g[0] = v /\ \A k \in 1..n : g[k] = F[<<g[k - 1], k>>]

\* A function whose values are made one from the other exists.
LEMMA Recursion ==
  ASSUME NEW V, NEW v \in V, NEW n \in Nat, NEW F \in [V \X (1..n) -> V]
  PROVE  \E g : IsRecursion(g, V, v, n, F)
<1> DEFINE Made(g, m) == g \in [0..m -> V] /\ g[0] = v /\ \A k \in 1..m : g[k] = F[<<g[k - 1], k>>]
           T == {m \in Nat : m <= n => \E g : Made(g, m)}
<1>1. 0 \in T
  <2>1. Made([k \in 0..0 |-> v], 0)
    OBVIOUS
  <2> QED BY <2>1
<1>2. ASSUME NEW m \in Nat, m \in T PROVE m + 1 \in T
  <2>1. CASE m + 1 <= n
    <3>1. PICK g : Made(g, m)
      BY <1>2, <2>1
    <3> DEFINE h == [k \in 0..m + 1 |-> IF k = m + 1 THEN F[<<g[m], m + 1>>] ELSE g[k]]
    <3>2. m + 1 \in 1..n /\ m \in 0..m /\ m + 1 \in 0..m + 1 /\ (m + 1) - 1 = m
      BY <2>1
    <3>3. <<g[m], m + 1>> \in V \X (1..n)
      BY <3>1, <3>2
    <3>4. F[<<g[m], m + 1>>] \in V
      BY <3>3
    <3>5. \A k \in 0..m + 1 : k # m + 1 => k \in 0..m
      OBVIOUS
    <3>6. h \in [0..m + 1 -> V]
      BY <3>1, <3>4, <3>5
    <3>7. h[m + 1] = F[<<g[m], m + 1>>] /\ \A k \in 0..m : h[k] = g[k]
      <4>1. \A k \in 0..m : k \in 0..m + 1 /\ k # m + 1
        OBVIOUS
      <4> QED BY <3>2, <4>1
    <3> HIDE DEF h
    <3>8. ASSUME NEW k \in 1..m + 1 PROVE h[k] = F[<<h[k - 1], k>>]
      <4>1. CASE k = m + 1
        BY <3>2, <3>7, <4>1
      <4>2. CASE k # m + 1
        <5>1. k \in 1..m /\ k \in 0..m /\ k - 1 \in 0..m
          BY <4>2
        <5> QED BY <3>1, <3>7, <5>1
      <4> QED BY <4>1, <4>2
    <3>9. h[0] = v
      BY <3>1, <3>7
    <3>10. Made(h, m + 1)
      BY <3>6, <3>8, <3>9
    <3> QED BY <3>10
  <2>2. CASE ~(m + 1 <= n)
    BY <2>2
  <2> QED BY <2>1, <2>2
<1>3. n \in T
  <2> HIDE DEF T
  <2> QED BY <1>1, <1>2, NatInduct
<1>4. PICK g : Made(g, n)
  BY <1>3
<1> QED BY <1>4 DEF IsRecursion

\* What is in a set at first and stays there with each step is always in it.
LEMMA Typed ==
  ASSUME NEW V, NEW n \in Nat, NEW g, g = [k \in 0..n |-> g[k]], g[0] \in V,
         \A k \in 1..n : g[k - 1] \in V => g[k] \in V
  PROVE  g \in [0..n -> V]
<1> DEFINE T == {k \in Nat : k <= n => g[k] \in V}
<1>1. 0 \in T
  OBVIOUS
<1>2. ASSUME NEW k \in Nat, k \in T PROVE k + 1 \in T
  <2>1. ASSUME k + 1 <= n PROVE g[k + 1] \in V
    <3>1. (k + 1) - 1 = k /\ k + 1 \in 1..n /\ k <= n
      BY <2>1
    <3>2. g[(k + 1) - 1] \in V
      BY <1>2, <3>1
    <3> QED BY <3>1, <3>2
  <2> QED BY <2>1
<1>3. \A k \in Nat : k \in T
  <2> HIDE DEF T
  <2> QED BY <1>1, <1>2, NatInduct
<1>4. \A k \in 0..n : g[k] \in V
  BY <1>3
<1> QED BY <1>4

\* The first place of a list that passes a test.
LEMMA FirstIsOne ==
  ASSUME NEW n \in Nat, NEW I \in SUBSET (1..n)
  PROVE  LET first == IF I # {} THEN Min(I) ELSE 0
         IN  first \in 0..n /\ (first > 0 => first \in I) /\ (first = 0 => I = {})
<1>1. I \subseteq Nat
  OBVIOUS
<1>2. CASE I # {}
  <2> DEFINE m == Min(I)
  <2>1. m \in I
    BY <1>1, <1>2, LeastOne
  <2> HIDE DEF m
  <2>2. m \in 1..n
    BY <2>1
  <2>3. m \in 0..n /\ m > 0
    BY <2>2
  <2> QED BY <1>2, <2>1, <2>3 DEF m
<1> QED BY <1>2

FirstOfName(v, f) == SelectInSeq(v, LAMBDA s : NameNow(s) = NameNow(f))
WithFolder(v, f) == IF FirstOfName(v, f) > 0 THEN [v EXCEPT ![FirstOfName(v, f)] = f] ELSE Append(v, f)
IndexTo ==
  CHOOSE g : g = [f \in 0..Len(shelf) |->
                    IF f = 0 THEN <<>> ELSE IF Readable(f) THEN WithFolder(g[f - 1], f) ELSE g[f - 1]]

LEMMA FirstOfNameIs ==
  ASSUME NEW S, NEW v \in Seq(S), NEW f
  PROVE  /\ FirstOfName(v, f) \in 0..Len(v)
         /\ FirstOfName(v, f) > 0 => NameNow(v[FirstOfName(v, f)]) = NameNow(f)
         /\ FirstOfName(v, f) = 0 => \A i \in 1..Len(v) : NameNow(v[i]) # NameNow(f)
<1> DEFINE I == {i \in 1..Len(v) : NameNow(v[i]) = NameNow(f)}
<1>1. FirstOfName(v, f) = IF I # {} THEN Min(I) ELSE 0
  BY DEF FirstOfName, SelectInSeq
<1>2. Len(v) \in Nat /\ I \in SUBSET (1..Len(v))
  OBVIOUS
<1> HIDE DEF I
<1>3. /\ FirstOfName(v, f) \in 0..Len(v) /\ (FirstOfName(v, f) > 0 => FirstOfName(v, f) \in I)
      /\ (FirstOfName(v, f) = 0 => I = {})
  BY <1>1, <1>2, FirstIsOne
<1> QED BY <1>3 DEF I

\* The index is made folder by folder.
LEMMA IndexIsMade ==
  ASSUME Len(shelf) \in Nat
  PROVE  /\ SkillIndex = IndexTo[Len(shelf)]
         /\ IndexTo \in [0..Len(shelf) -> Seq(Folders)]
         /\ IndexTo[0] = <<>>
         /\ \A f \in Folders : IndexTo[f] = IF Readable(f) THEN WithFolder(IndexTo[f - 1], f) ELSE IndexTo[f - 1]
<1> DEFINE n == Len(shelf)
           V == Seq(Folders)
           one(v, f) == IF Readable(f) THEN WithFolder(v, f) ELSE v
           F == [x \in V \X (1..n) |-> one(x[1], x[2])]
<1>1. ASSUME NEW v \in V, NEW f \in 1..n PROVE one(v, f) \in V
  <2>1. FirstOfName(v, f) \in 0..Len(v)
    BY FirstOfNameIs
  <2>2. f \in Folders
    BY DEF Folders
  <2>3. CASE FirstOfName(v, f) > 0
    <3>1. FirstOfName(v, f) \in 1..Len(v)
      BY <2>1, <2>3
    <3>2. [v EXCEPT ![FirstOfName(v, f)] = f] \in V
      <4> HIDE DEF V
      <4>1. ASSUME NEW w \in Seq(Folders), NEW i \in 1..Len(w) PROVE [w EXCEPT ![i] = f] \in Seq(Folders)
        BY <2>2
      <4> QED BY <3>1, <4>1 DEF V
    <3> QED BY <2>3, <3>2 DEF WithFolder
  <2>4. CASE ~(FirstOfName(v, f) > 0)
    <3>1. Append(v, f) \in V
      BY <2>2
    <3> QED BY <2>4, <3>1 DEF WithFolder
  <2> QED BY <2>3, <2>4
<1> HIDE DEF V, one
<1>2. F \in [V \X (1..n) -> V]
  BY <1>1
<1>3. \A w \in V, k \in 1..n : F[<<w, k>>] = one(w, k)
  OBVIOUS
<1>4. <<>> \in V
  BY DEF V
<1> HIDE DEF F
<1>11. n \in Nat /\ n = Len(shelf)
  OBVIOUS
<1> HIDE DEF n
<1>12. \E g : IsRecursion(g, V, <<>>, n, F)
  BY <1>2, <1>4, <1>11, Recursion
<1>5. PICK g \in [0..n -> V] : g[0] = <<>> /\ \A k \in 1..n : g[k] = F[<<g[k - 1], k>>]
  BY <1>12 DEF IsRecursion
<1>6. \A k \in 1..n : g[k] = one(g[k - 1], k)
  <2>1. \A k \in 1..n : k - 1 \in 0..n
    BY <1>11
  <2> QED BY <1>3, <1>5, <2>1
<1> DEFINE Is(h) == h = [f \in 0..n |-> IF f = 0 THEN <<>> ELSE one(h[f - 1], f)]
<1>7. Is(g)
  <2>1. \A k \in 0..n : g[k] = IF k = 0 THEN <<>> ELSE one(g[k - 1], k)
    BY <1>5, <1>6
  <2> QED BY <2>1
<1>8. Is(IndexTo)
  BY <1>7 DEF IndexTo, one, n
<1>9. /\ IndexTo \in [0..n -> V] /\ IndexTo[0] = <<>>
      /\ \A k \in 1..n : IndexTo[k] = one(IndexTo[k - 1], k)
  <2> DEFINE h == IndexTo
  <2>1. h = [f \in 0..n |-> IF f = 0 THEN <<>> ELSE one(h[f - 1], f)]
    BY <1>8
  <2> HIDE DEF h
  <2>5. \A k \in 0..n : h[k] = IF k = 0 THEN <<>> ELSE one(h[k - 1], k)
    BY <2>1
  <2>6. h = [k \in 0..n |-> h[k]]
    BY <2>1
  <2>2. h[0] = <<>> /\ (\A k \in 1..n : h[k] = one(h[k - 1], k)) /\ h = [k \in 0..n |-> h[k]]
    <3>1. 0 \in 0..n /\ \A k \in 1..n : k \in 0..n /\ k # 0
      BY <1>11
    <3> QED BY <2>5, <2>6, <3>1
  <2>3. \A k \in 1..n : h[k - 1] \in V => h[k] \in V
    BY <1>1, <1>11, <2>2
  <2>4. h \in [0..n -> V]
    BY <1>4, <1>11, <2>2, <2>3, Typed
  <2> QED BY <2>2, <2>4 DEF h
<1>10. SkillIndex = IndexTo[n]
  BY DEF SkillIndex, IndexTo, WithFolder, FirstOfName, n
<1> QED BY <1>9, <1>10 DEF Folders, V, one, n

-----------------------------------------------------------------------------
\* The sizes of the first files of a list, together.
SizeTo(dirs, got) ==
  CHOOSE g : g = [k \in 0..Len(got) |->
                    IF k = 0 THEN 0 ELSE g[k - 1] + dirs[got[k][1]][got[k][2]].size]

\* The files of a list have sizes.
Sized(dirs, got) ==
  /\ got \in Seq(Nat \X Nat)
  /\ \A k \in 1..Len(got) : dirs[got[k][1]][got[k][2]].size \in Nat

\* The total of a list is made file by file.
LEMMA TotalIsMade ==
  ASSUME NEW dirs, NEW got, Sized(dirs, got)
  PROVE  /\ TotalSize(dirs, got) = SizeTo(dirs, got)[Len(got)]
         /\ SizeTo(dirs, got) \in [0..Len(got) -> Nat]
         /\ SizeTo(dirs, got)[0] = 0
         /\ \A k \in 1..Len(got) :
              SizeTo(dirs, got)[k] = SizeTo(dirs, got)[k - 1] + dirs[got[k][1]][got[k][2]].size
<1> DEFINE n == Len(got)
           V == Nat
           one(v, k) == v + dirs[got[k][1]][got[k][2]].size
           F == [x \in V \X (1..n) |-> one(x[1], x[2])]
<1>1. \A v \in V, k \in 1..n : one(v, k) \in V
  <2>1. \A k \in 1..n : dirs[got[k][1]][got[k][2]].size \in Nat
    BY Zenon DEF Sized
  <2>2. \A x, y \in Nat : x + y \in Nat
    OBVIOUS
  <2> QED BY <2>1, <2>2
<1> HIDE DEF one, V
<1>2. F \in [V \X (1..n) -> V]
  BY <1>1
<1>3. 0 \in V
  BY DEF V
<1>4. n \in Nat
  BY DEF Sized
<1> HIDE DEF n, F
<1>5. \E g : IsRecursion(g, V, 0, n, F)
  BY <1>2, <1>3, <1>4, Recursion
<1>6. PICK g \in [0..n -> V] : g[0] = 0 /\ \A k \in 1..n : g[k] = F[<<g[k - 1], k>>]
  BY <1>5 DEF IsRecursion
<1>7. \A k \in 1..n : k \in 0..n /\ k # 0 /\ k - 1 \in 0..n
  BY <1>4
<1>8. \A k \in 1..n : g[k] = one(g[k - 1], k)
  <2>1. \A w \in V, k \in 1..n : F[<<w, k>>] = one(w, k)
    BY DEF F
  <2>2. \A k \in 1..n : g[k - 1] \in V
    BY <1>6, <1>7
  <2> HIDE DEF F
  <2> QED BY <1>6, <2>1, <2>2
<1> DEFINE Is(h) == h = [k \in 0..n |-> IF k = 0 THEN 0 ELSE one(h[k - 1], k)]
<1>9. Is(g)
  <2>1. \A k \in 0..n : g[k] = IF k = 0 THEN 0 ELSE one(g[k - 1], k)
    BY <1>4, <1>6, <1>8
  <2> QED BY <2>1
<1> DEFINE h == SizeTo(dirs, got)
<1>10. Is(h)
  BY <1>9 DEF SizeTo, one, n
<1> HIDE DEF h
<1>11. \A k \in 0..n : h[k] = IF k = 0 THEN 0 ELSE one(h[k - 1], k)
  BY <1>10
<1>12. h = [k \in 0..n |-> h[k]]
  BY <1>10
<1>13. h[0] = 0 /\ \A k \in 1..n : h[k] = one(h[k - 1], k)
  BY <1>4, <1>7, <1>11
<1>14. h \in [0..n -> V]
  <2>1. h[0] \in V
    BY <1>3, <1>13
  <2>2. \A k \in 1..n : h[k - 1] \in V => h[k] \in V
    BY <1>1, <1>13
  <2> QED BY <1>4, <1>12, <2>1, <2>2, Typed
<1>15. TotalSize(dirs, got) = h[n]
  BY DEF TotalSize, SizeTo, h, n
<1> QED BY <1>13, <1>14, <1>15 DEF one, h, n, V

\* A file more makes the total larger by its size.
LEMMA TotalGrows ==
  ASSUME NEW dirs, NEW got, Sized(dirs, got), NEW d \in Nat, NEW j \in Nat, dirs[d][j].size \in Nat
  PROVE  /\ Sized(dirs, Append(got, <<d, j>>))
         /\ TotalSize(dirs, got) \in Nat
         /\ TotalSize(dirs, Append(got, <<d, j>>)) = TotalSize(dirs, got) + dirs[d][j].size
<1> DEFINE more == Append(got, <<d, j>>)
           n == Len(got)
<1>1. /\ got \in Seq(Nat \X Nat) /\ n \in Nat
      /\ \A k \in 1..n : dirs[got[k][1]][got[k][2]].size \in Nat
  <2>1. got \in Seq(Nat \X Nat) /\ \A k \in 1..n : dirs[got[k][1]][got[k][2]].size \in Nat
    BY Zenon DEF Sized
  <2>2. n \in Nat
    BY <2>1
  <2> QED BY <2>1, <2>2
<1>2. /\ more \in Seq(Nat \X Nat) /\ Len(more) = n + 1
      /\ more[n + 1] = <<d, j>> /\ \A k \in 1..n : more[k] = got[k]
  BY <1>1
<1> HIDE DEF more
<1>3. Sized(dirs, more)
  <2>1. ASSUME NEW k \in 1..n + 1 PROVE dirs[more[k][1]][more[k][2]].size \in Nat
    <3>1. CASE k = n + 1
      BY <1>2, <3>1
    <3>2. CASE k # n + 1
      <4>1. k \in 1..n
        BY <1>1, <3>2
      <4> QED BY <1>1, <1>2, <4>1
    <3> QED BY <3>1, <3>2
  <2> QED BY <1>2, <2>1 DEF Sized
<1> DEFINE a == SizeTo(dirs, got)
           b == SizeTo(dirs, more)
<1>4. /\ TotalSize(dirs, got) = a[n] /\ a \in [0..n -> Nat] /\ a[0] = 0
      /\ \A k \in 1..n : a[k] = a[k - 1] + dirs[got[k][1]][got[k][2]].size
  BY TotalIsMade
<1>5. /\ TotalSize(dirs, more) = b[n + 1] /\ b \in [0..n + 1 -> Nat] /\ b[0] = 0
      /\ \A k \in 1..n + 1 : b[k] = b[k - 1] + dirs[more[k][1]][more[k][2]].size
  <2>1. /\ TotalSize(dirs, more) = b[Len(more)] /\ b \in [0..Len(more) -> Nat] /\ b[0] = 0
        /\ \A k \in 1..Len(more) : b[k] = b[k - 1] + dirs[more[k][1]][more[k][2]].size
    BY <1>3, TotalIsMade
  <2> HIDE DEF b, n
  <2> QED BY <1>2, <2>1, Zenon
<1> HIDE DEF a, b, n
<1> DEFINE T == {k \in Nat : k <= n => a[k] = b[k]}
<1>6. 0 \in T
  BY <1>4, <1>5
<1>7. ASSUME NEW k \in Nat, k \in T PROVE k + 1 \in T
  <2>1. ASSUME k + 1 <= n PROVE a[k + 1] = b[k + 1]
    <3>1. k + 1 \in 1..n /\ k + 1 \in 1..n + 1 /\ (k + 1) - 1 = k /\ k <= n
      BY <1>1, <2>1
    <3>2. a[k + 1] = a[(k + 1) - 1] + dirs[got[k + 1][1]][got[k + 1][2]].size
      BY <1>4, <3>1
    <3>3. b[k + 1] = b[(k + 1) - 1] + dirs[more[k + 1][1]][more[k + 1][2]].size
      BY <1>5, <3>1
    <3>4. a[k] = b[k] /\ more[k + 1] = got[k + 1]
      BY <1>2, <1>7, <3>1
    <3> QED BY <3>1, <3>2, <3>3, <3>4
  <2> QED BY <2>1
<1>8. n \in T
  <2> HIDE DEF T
  <2> QED BY <1>1, <1>6, <1>7, NatInduct
<1>9. a[n] = b[n]
  BY <1>1, <1>8
<1>10. n + 1 \in 1..n + 1 /\ (n + 1) - 1 = n /\ n \in 0..n
  BY <1>1
<1>11. b[n + 1] = b[(n + 1) - 1] + dirs[more[n + 1][1]][more[n + 1][2]].size
  BY <1>5, <1>10
<1>12. b[n + 1] = a[n] + dirs[d][j].size /\ a[n] \in Nat
  BY <1>2, <1>4, <1>9, <1>10, <1>11
<1> QED BY <1>3, <1>4, <1>5, <1>12 DEF more

\* What is inlined of the folders: a record of Loads.
Loads == [total : Nat, got : Seq(Nat \X Nat), full : SUBSET Nat]
AddTo(r, d, files) ==
  CHOOSE g : g = [j \in 0..Len(files) |->
                    IF j = 0 THEN r ELSE AddResource(g[j - 1], d, j, files[j])]

\* One file more or less leaves a record of Loads.
LEMMA AddResourceIsTyped ==
  ASSUME NEW r \in Loads, NEW d \in Nat, NEW j \in Nat, NEW item \in ResourceFiles
  PROVE  AddResource(r, d, j, item) \in Loads
<1>1. r.total \in Nat /\ r.got \in Seq(Nat \X Nat) /\ r.full \in SUBSET Nat
  BY DEF Loads
<1>2. [r EXCEPT !.full = @ \cup {d}] \in Loads
  BY <1>1 DEF Loads
<1>3. Append(r.got, <<d, j>>) \in Seq(Nat \X Nat)
  BY <1>1
<1>4. Taken(r, d, j, item) \in Loads
  <2>1. r.total + item.size \in Nat
    BY <1>1 DEF ResourceFiles
  <2> DEFINE more == Append(r.got, <<d, j>>)
             larger == r.total + item.size
  <2>2. Taken(r, d, j, item) = [r EXCEPT !.total = larger, !.got = more]
    BY DEF Taken
  <2> HIDE DEF more, larger
  <2>3. [r EXCEPT !.total = larger, !.got = more] \in Loads
    BY <1>1, <1>3, <2>1 DEF Loads, more, larger
  <2> QED BY <2>2, <2>3
<1> QED BY <1>2, <1>4 DEF AddResource

\* A folder's files are looked at one by one.
LEMMA FolderIsAdded ==
  ASSUME NEW r \in Loads, NEW d \in Nat, NEW files \in Seq(ResourceFiles)
  PROVE  /\ AddFolder(r, d, files) = AddTo(r, d, files)[Len(files)]
         /\ AddTo(r, d, files) \in [0..Len(files) -> Loads]
         /\ AddTo(r, d, files)[0] = r
         /\ \A j \in 1..Len(files) :
              AddTo(r, d, files)[j] = AddResource(AddTo(r, d, files)[j - 1], d, j, files[j])
<1> DEFINE n == Len(files)
           V == Loads
           one(v, j) == AddResource(v, d, j, files[j])
           F == [x \in V \X (1..n) |-> one(x[1], x[2])]
<1>1. \A v \in V, k \in 1..n : one(v, k) \in V
  <2>1. \A k \in 1..n : k \in Nat /\ files[k] \in ResourceFiles
    OBVIOUS
  <2> QED BY <2>1, AddResourceIsTyped
<1> HIDE DEF one, V
<1>2. F \in [V \X (1..n) -> V]
  BY <1>1
<1>3. r \in V
  BY DEF V
<1>4. n \in Nat
  OBVIOUS
<1> HIDE DEF n, F
<1>5. \E g : IsRecursion(g, V, r, n, F)
  BY <1>2, <1>3, <1>4, Recursion
<1>6. PICK g \in [0..n -> V] : g[0] = r /\ \A k \in 1..n : g[k] = F[<<g[k - 1], k>>]
  BY <1>5 DEF IsRecursion
<1>7. \A k \in 1..n : k \in 0..n /\ k # 0 /\ k - 1 \in 0..n
  BY <1>4
<1>8. \A k \in 1..n : g[k] = one(g[k - 1], k)
  <2>1. \A w \in V, k \in 1..n : F[<<w, k>>] = one(w, k)
    BY DEF F
  <2>2. \A k \in 1..n : g[k - 1] \in V
    BY <1>6, <1>7
  <2> HIDE DEF F
  <2> QED BY <1>6, <2>1, <2>2
<1> DEFINE Is(h) == h = [k \in 0..n |-> IF k = 0 THEN r ELSE one(h[k - 1], k)]
<1>9. Is(g)
  <2>1. \A k \in 0..n : g[k] = IF k = 0 THEN r ELSE one(g[k - 1], k)
    BY <1>4, <1>6, <1>8
  <2> QED BY <2>1
<1> DEFINE h == AddTo(r, d, files)
<1>10. Is(h)
  BY <1>9 DEF AddTo, one, n
<1> HIDE DEF h
<1>11. \A k \in 0..n : h[k] = IF k = 0 THEN r ELSE one(h[k - 1], k)
  BY <1>10
<1>12. h = [k \in 0..n |-> h[k]]
  BY <1>10
<1>13. h[0] = r /\ \A k \in 1..n : h[k] = one(h[k - 1], k)
  BY <1>4, <1>7, <1>11
<1>14. h \in [0..n -> V]
  <2>1. h[0] \in V
    BY <1>3, <1>13
  <2>2. \A k \in 1..n : h[k - 1] \in V => h[k] \in V
    BY <1>1, <1>13
  <2> QED BY <1>4, <1>12, <2>1, <2>2, Typed
<1>15. AddFolder(r, d, files) = h[n]
  BY DEF AddFolder, AddTo, h, n
<1> QED BY <1>13, <1>14, <1>15 DEF one, h, n, V

LoadTo(dirs) ==
  CHOOSE g : g = [d \in 0..Len(dirs) |->
                    IF d = 0 THEN NoResources ELSE AddFolder(g[d - 1], d, dirs[d])]

\* The folders are looked at one by one.
LEMMA FoldersAreLoaded ==
  ASSUME NEW dirs \in Seq(Seq(ResourceFiles))
  PROVE  /\ LoadResources(dirs) = LoadTo(dirs)[Len(dirs)]
         /\ LoadTo(dirs) \in [0..Len(dirs) -> Loads]
         /\ LoadTo(dirs)[0] = NoResources
         /\ \A d \in 1..Len(dirs) : LoadTo(dirs)[d] = AddFolder(LoadTo(dirs)[d - 1], d, dirs[d])
<1> DEFINE n == Len(dirs)
           V == Loads
           one(v, d) == AddFolder(v, d, dirs[d])
           F == [x \in V \X (1..n) |-> one(x[1], x[2])]
<1>1. \A v \in V, k \in 1..n : one(v, k) \in V
  <2>1. ASSUME NEW v \in V, NEW k \in 1..n PROVE one(v, k) \in V
    <3>1. k \in Nat /\ dirs[k] \in Seq(ResourceFiles)
      OBVIOUS
    <3>2. Len(dirs[k]) \in 0..Len(dirs[k])
      BY <3>1
    <3>3. /\ AddFolder(v, k, dirs[k]) = AddTo(v, k, dirs[k])[Len(dirs[k])]
          /\ AddTo(v, k, dirs[k]) \in [0..Len(dirs[k]) -> Loads]
      <4>1. v \in Loads
        BY DEF V
      <4> QED BY <3>1, <4>1, FolderIsAdded
    <3>4. AddFolder(v, k, dirs[k]) \in Loads
      BY <3>2, <3>3
    <3> QED BY <3>4 DEF one, V
  <2> QED BY <2>1
<1> HIDE DEF one, V
<1>2. F \in [V \X (1..n) -> V]
  BY <1>1
<1>3. NoResources \in V
  BY DEF V, NoResources, Loads
<1>4. n \in Nat
  OBVIOUS
<1> HIDE DEF n, F
<1>5. \E g : IsRecursion(g, V, NoResources, n, F)
  BY <1>2, <1>3, <1>4, Recursion
<1>6. PICK g \in [0..n -> V] : g[0] = NoResources /\ \A k \in 1..n : g[k] = F[<<g[k - 1], k>>]
  BY <1>5 DEF IsRecursion
<1>7. \A k \in 1..n : k \in 0..n /\ k # 0 /\ k - 1 \in 0..n
  BY <1>4
<1>8. \A k \in 1..n : g[k] = one(g[k - 1], k)
  <2>1. \A w \in V, k \in 1..n : F[<<w, k>>] = one(w, k)
    BY DEF F
  <2>2. \A k \in 1..n : g[k - 1] \in V
    BY <1>6, <1>7
  <2> HIDE DEF F
  <2> QED BY <1>6, <2>1, <2>2
<1> DEFINE Is(h) == h = [k \in 0..n |-> IF k = 0 THEN NoResources ELSE one(h[k - 1], k)]
<1>9. Is(g)
  <2>1. \A k \in 0..n : g[k] = IF k = 0 THEN NoResources ELSE one(g[k - 1], k)
    BY <1>4, <1>6, <1>8
  <2> QED BY <2>1
<1> DEFINE h == LoadTo(dirs)
<1>10. Is(h)
  BY <1>9 DEF LoadTo, one, n
<1> HIDE DEF h
<1>11. \A k \in 0..n : h[k] = IF k = 0 THEN NoResources ELSE one(h[k - 1], k)
  BY <1>10
<1>12. h = [k \in 0..n |-> h[k]]
  BY <1>10
<1>13. h[0] = NoResources /\ \A k \in 1..n : h[k] = one(h[k - 1], k)
  BY <1>4, <1>7, <1>11
<1>14. h \in [0..n -> V]
  <2>1. h[0] \in V
    BY <1>3, <1>13
  <2>2. \A k \in 1..n : h[k - 1] \in V => h[k] \in V
    BY <1>1, <1>13
  <2> QED BY <1>4, <1>12, <2>1, <2>2, Typed
<1>15. LoadResources(dirs) = h[n]
  BY DEF LoadResources, LoadTo, h, n
<1> QED BY <1>13, <1>14, <1>15 DEF one, h, n, V

-----------------------------------------------------------------------------
\* Of the first folders, k of them, a list has the readable ones, and of those
\* with one name the last.
IndexHas(v, k) ==
  /\ v \in Seq(Folders)
  /\ \A i \in 1..Len(v) : Readable(v[i]) /\ v[i] <= k
  /\ \A i, j \in 1..Len(v) : i # j => IndexedName(v[i]) # IndexedName(v[j])
  /\ \A f \in 1..k : Readable(f) =>
       \E i \in 1..Len(v) : IndexedName(v[i]) = IndexedName(f) /\ v[i] >= f

\* A folder that is put into the index takes the place of the one with its name.
LEMMA WithFolderHas ==
  ASSUME Len(shelf) \in Nat, renamed = {}, NEW k \in Nat, k + 1 <= Len(shelf),
         NEW v, IndexHas(v, k), Readable(k + 1)
  PROVE  IndexHas(WithFolder(v, k + 1), k + 1)
<1> DEFINE f == k + 1
           s == FirstOfName(v, f)
           w == WithFolder(v, f)
<1>1. /\ v \in Seq(Folders)
      /\ \A i \in 1..Len(v) : Readable(v[i]) /\ v[i] <= k
      /\ \A i, j \in 1..Len(v) : i # j => IndexedName(v[i]) # IndexedName(v[j])
      /\ \A g \in 1..k : Readable(g) =>
           \E i \in 1..Len(v) : IndexedName(v[i]) = IndexedName(g) /\ v[i] >= g
  BY DEF IndexHas
<1>2. \A g : NameNow(g) = IndexedName(g)
  BY DEF NameNow
<1>3. /\ s \in 0..Len(v)
      /\ s > 0 => IndexedName(v[s]) = IndexedName(f)
      /\ s = 0 => \A i \in 1..Len(v) : IndexedName(v[i]) # IndexedName(f)
  <2>1. /\ s \in 0..Len(v)
        /\ s > 0 => NameNow(v[s]) = NameNow(f)
        /\ s = 0 => \A i \in 1..Len(v) : NameNow(v[i]) # NameNow(f)
    BY <1>1, FirstOfNameIs
  <2> QED BY <1>2, <2>1
<1>4. /\ f \in Folders /\ f \in Nat /\ f = k + 1 /\ Readable(f) /\ Len(v) \in Nat
      /\ \A i \in 1..Len(v) : v[i] \in Nat
  <2>1. f \in Folders
    BY DEF Folders
  <2>2. \A i \in 1..Len(v) : v[i] \in Folders
    BY <1>1
  <2>3. \A i \in 1..Len(v) : v[i] \in Nat
    BY <2>2 DEF Folders
  <2>4. Len(v) \in Nat
    BY <1>1
  <2> QED BY <2>1, <2>3, <2>4
<1>5. CASE s > 0
  <2>1. w = [v EXCEPT ![s] = f]
    BY <1>5 DEF WithFolder
  <2>2. s \in 1..Len(v)
    BY <1>3, <1>4, <1>5
  <2> HIDE DEF s, w, f
  <2>3. /\ w \in Seq(Folders) /\ Len(w) = Len(v) /\ w[s] = f
        /\ \A i \in 1..Len(v) : i # s => w[i] = v[i]
    <3>1. ASSUME NEW x \in Seq(Folders), NEW i \in 1..Len(x)
          PROVE  /\ [x EXCEPT ![i] = f] \in Seq(Folders) /\ Len([x EXCEPT ![i] = f]) = Len(x)
                 /\ [x EXCEPT ![i] = f][i] = f
                 /\ \A j \in 1..Len(x) : j # i => [x EXCEPT ![i] = f][j] = x[j]
      BY <1>4
    <3> QED BY <1>1, <2>1, <2>2, <3>1
  <2>4. \A i \in 1..Len(w) : Readable(w[i]) /\ w[i] <= f
    BY <1>1, <1>4, <2>2, <2>3
  <2>5. \A i \in 1..Len(v) : IndexedName(w[i]) = IndexedName(v[i])
    BY <1>3, <1>5, <2>3
  <2>6. \A i, j \in 1..Len(w) : i # j => IndexedName(w[i]) # IndexedName(w[j])
    BY <1>1, <2>3, <2>5
  <2>7. ASSUME NEW g \in 1..f, Readable(g)
        PROVE  \E i \in 1..Len(w) : IndexedName(w[i]) = IndexedName(g) /\ w[i] >= g
    <3>1. CASE g = f
      BY <1>4, <2>2, <2>3, <3>1
    <3>2. CASE g # f
      <4>1. g \in 1..k
        BY <1>4, <3>2
      <4>2. PICK i \in 1..Len(v) : IndexedName(v[i]) = IndexedName(g) /\ v[i] >= g
        BY <1>1, <2>7, <4>1
      <4>3. w[i] >= g
        BY <1>4, <2>3, <4>1, <4>2
      <4>4. IndexedName(w[i]) = IndexedName(g) /\ i \in 1..Len(w)
        BY <2>3, <2>5, <4>2
      <4> QED BY <4>3, <4>4
    <3> QED BY <3>1, <3>2
  <2>8. IndexHas(w, f)
    BY <2>3, <2>4, <2>6, <2>7 DEF IndexHas
  <2> QED BY <2>8 DEF w, f
<1>6. CASE ~(s > 0)
  <2>1. w = Append(v, f)
    BY <1>6 DEF WithFolder
  <2>2. \A i \in 1..Len(v) : IndexedName(v[i]) # IndexedName(f)
    BY <1>3, <1>4, <1>6
  <2> HIDE DEF s, w, f
  <2>3. /\ w \in Seq(Folders) /\ Len(w) = Len(v) + 1 /\ w[Len(v) + 1] = f
        /\ \A i \in 1..Len(v) : w[i] = v[i]
    <3>1. ASSUME NEW x \in Seq(Folders)
          PROVE  /\ Append(x, f) \in Seq(Folders) /\ Len(Append(x, f)) = Len(x) + 1
                 /\ Append(x, f)[Len(x) + 1] = f
                 /\ \A j \in 1..Len(x) : Append(x, f)[j] = x[j]
      BY <1>4
    <3> QED BY <1>1, <2>1, <3>1
  <2>4. \A i \in 1..Len(w) : i = Len(v) + 1 \/ i \in 1..Len(v)
    BY <1>4, <2>3
  <2>5. \A i \in 1..Len(w) : Readable(w[i]) /\ w[i] <= f
    BY <1>1, <1>4, <2>3, <2>4
  <2>6. \A i, j \in 1..Len(w) : i # j => IndexedName(w[i]) # IndexedName(w[j])
    BY <1>1, <2>2, <2>3, <2>4
  <2>7. ASSUME NEW g \in 1..f, Readable(g)
        PROVE  \E i \in 1..Len(w) : IndexedName(w[i]) = IndexedName(g) /\ w[i] >= g
    <3>1. CASE g = f
      <4>1. Len(v) + 1 \in 1..Len(w)
        BY <1>4, <2>3
      <4> QED BY <1>4, <2>3, <3>1, <4>1
    <3>2. CASE g # f
      <4>1. g \in 1..k
        BY <1>4, <3>2
      <4>2. PICK i \in 1..Len(v) : IndexedName(v[i]) = IndexedName(g) /\ v[i] >= g
        BY <1>1, <2>7, <4>1
      <4>3. i \in 1..Len(w) /\ w[i] = v[i]
        BY <1>4, <2>3
      <4> QED BY <4>2, <4>3
    <3> QED BY <3>1, <3>2
  <2>8. IndexHas(w, f)
    BY <2>3, <2>5, <2>6, <2>7 DEF IndexHas
  <2> QED BY <2>8 DEF w, f
<1> QED BY <1>5, <1>6

\* The index has of the skills with one name the last, until a name changes.
LEMMA IndexHolds ==
  ASSUME Len(shelf) \in Nat, renamed = {}, skillIndex = SkillIndex
  PROVE  skillIndex \in Seq(Folders) /\ LastCounts
<1> DEFINE n == Len(shelf)
           T == {k \in Nat : k <= n => IndexHas(IndexTo[k], k)}
<1>1. /\ SkillIndex = IndexTo[n] /\ IndexTo[0] = <<>>
      /\ \A f \in 1..n : IndexTo[f] = IF Readable(f) THEN WithFolder(IndexTo[f - 1], f) ELSE IndexTo[f - 1]
  BY IndexIsMade DEF Folders
<1>2. 0 \in T
  <2>1. IndexHas(<<>>, 0)
    BY DEF IndexHas
  <2> QED BY <1>1, <2>1
<1>3. ASSUME NEW k \in Nat, k \in T PROVE k + 1 \in T
  <2>1. ASSUME k + 1 <= n PROVE IndexHas(IndexTo[k + 1], k + 1)
    <3>1. k + 1 \in 1..n /\ (k + 1) - 1 = k /\ k <= n
      BY <2>1
    <3>2. IndexHas(IndexTo[k], k)
      BY <1>3, <3>1
    <3>3. IndexTo[k + 1] = IF Readable(k + 1) THEN WithFolder(IndexTo[k], k + 1) ELSE IndexTo[k]
      BY <1>1, <3>1
    <3>4. CASE Readable(k + 1)
      BY <2>1, <3>2, <3>3, <3>4, WithFolderHas
    <3>5. CASE ~Readable(k + 1)
      <4> DEFINE v == IndexTo[k]
      <4>1. IndexHas(v, k)
        BY <3>2
      <4> HIDE DEF v
      <4>2. /\ v \in Seq(Folders)
            /\ \A i \in 1..Len(v) : Readable(v[i]) /\ v[i] <= k
            /\ \A i, j \in 1..Len(v) : i # j => IndexedName(v[i]) # IndexedName(v[j])
            /\ \A g \in 1..k : Readable(g) =>
                 \E i \in 1..Len(v) : IndexedName(v[i]) = IndexedName(g) /\ v[i] >= g
        BY <4>1 DEF IndexHas
      <4>3. \A i \in 1..Len(v) : v[i] <= k + 1
        <5>1. \A i \in 1..Len(v) : v[i] \in Folders
          BY <4>2
        <5>2. \A i \in 1..Len(v) : v[i] \in Nat
          BY <5>1 DEF Folders
        <5> QED BY <4>2, <5>2
      <4>4. \A g \in 1..k + 1 : Readable(g) => g \in 1..k
        BY <3>5
      <4>5. IndexHas(v, k + 1)
        BY <4>2, <4>3, <4>4 DEF IndexHas
      <4> QED BY <3>3, <3>5, <4>5 DEF v
    <3> QED BY <3>4, <3>5
  <2> QED BY <2>1
<1>4. n \in T
  <2> HIDE DEF T
  <2> QED BY <1>2, <1>3, NatInduct
<1>5. IndexHas(skillIndex, n)
  BY <1>1, <1>4
<1>6. /\ skillIndex \in Seq(Folders)
      /\ \A i \in 1..Len(skillIndex) : Readable(skillIndex[i]) /\ skillIndex[i] <= n
      /\ \A i, j \in 1..Len(skillIndex) :
           i # j => IndexedName(skillIndex[i]) # IndexedName(skillIndex[j])
      /\ \A g \in 1..n : Readable(g) =>
           \E i \in 1..Len(skillIndex) : IndexedName(skillIndex[i]) = IndexedName(g) /\ skillIndex[i] >= g
  BY <1>5 DEF IndexHas
<1>7. DOMAIN skillIndex = 1..Len(skillIndex) /\ \A i \in 1..Len(skillIndex) : skillIndex[i] \in Folders
  BY <1>6
<1>8. ASSUME NEW f \in Folders
      PROVE  (\E i \in DOMAIN skillIndex : skillIndex[i] = f) <=>
                 /\ Readable(f)
                 /\ \A g \in Folders : g > f /\ Readable(g) => IndexedName(g) # IndexedName(f)
  <2>1. ASSUME NEW i \in 1..Len(skillIndex), skillIndex[i] = f
        PROVE  /\ Readable(f)
               /\ \A g \in Folders : g > f /\ Readable(g) => IndexedName(g) # IndexedName(f)
    <3>1. Readable(f)
      BY <1>6, <2>1
    <3>2. ASSUME NEW g \in Folders, g > f, Readable(g), IndexedName(g) = IndexedName(f)
          PROVE  FALSE
      <4>1. PICK j \in 1..Len(skillIndex) : IndexedName(skillIndex[j]) = IndexedName(g) /\ skillIndex[j] >= g
        BY <1>6, <3>2 DEF Folders
      <4>2. j = i
        BY <1>6, <2>1, <3>2, <4>1
      <4>3. f \in Nat /\ g \in Nat
        BY DEF Folders
      <4> QED BY <2>1, <3>2, <4>1, <4>2, <4>3
    <3> QED BY <3>1, <3>2
  <2>2. ASSUME Readable(f), \A g \in Folders : g > f /\ Readable(g) => IndexedName(g) # IndexedName(f)
        PROVE  \E i \in 1..Len(skillIndex) : skillIndex[i] = f
    <3>1. PICK i \in 1..Len(skillIndex) : IndexedName(skillIndex[i]) = IndexedName(f) /\ skillIndex[i] >= f
      BY <1>6, <2>2 DEF Folders
    <3>2. skillIndex[i] \in Folders /\ Readable(skillIndex[i])
      BY <1>6, <1>7
    <3>3. ~(skillIndex[i] > f)
      BY <2>2, <3>1, <3>2
    <3>4. skillIndex[i] \in Nat /\ f \in Nat
      BY <3>2 DEF Folders
    <3>5. skillIndex[i] = f
      BY <3>1, <3>3, <3>4
    <3> QED BY <3>5
  <2> QED BY <1>7, <2>1, <2>2
<1> QED BY <1>6, <1>8 DEF LastCounts

-----------------------------------------------------------------------------
\* What the index has that is not active.
Free == {skillIndex[i] : i \in {k \in 1..Len(skillIndex) : IndexedName(skillIndex[k]) \notin activeSkills}}
Better(i, b) ==
  /\ IndexedName(skillIndex[i]) \notin activeSkills
  /\ shelf[skillIndex[i]].score > (IF b = 0 THEN 0 ELSE shelf[b].score)
BestTo ==
  CHOOSE g : g = [i \in 0..Len(skillIndex) |->
                    IF i = 0 THEN 0 ELSE IF Better(i, g[i - 1]) THEN skillIndex[i] ELSE g[i - 1]]

\* The skill that is matched is in the index, and not active.
LEMMA MatchIsFree ==
  ASSUME skillIndex \in Seq(Folders)
  PROVE  MatchSkill \in Free \cup {0}
<1> DEFINE n == Len(skillIndex)
           V == Free \cup {0}
           one(v, i) == IF Better(i, v) THEN skillIndex[i] ELSE v
           F == [x \in V \X (1..n) |-> one(x[1], x[2])]
<1>1. \A v \in V, k \in 1..n : one(v, k) \in V
  BY DEF Free, Better
<1> HIDE DEF one, V
<1>2. F \in [V \X (1..n) -> V]
  BY <1>1
<1>3. 0 \in V
  BY DEF V
<1>4. n \in Nat
  OBVIOUS
<1> HIDE DEF n, F
<1>5. \E g : IsRecursion(g, V, 0, n, F)
  BY <1>2, <1>3, <1>4, Recursion
<1>6. PICK g \in [0..n -> V] : g[0] = 0 /\ \A k \in 1..n : g[k] = F[<<g[k - 1], k>>]
  BY <1>5 DEF IsRecursion
<1>7. \A k \in 1..n : k \in 0..n /\ k # 0 /\ k - 1 \in 0..n
  BY <1>4
<1>8. \A k \in 1..n : g[k] = one(g[k - 1], k)
  <2>1. \A w \in V, k \in 1..n : F[<<w, k>>] = one(w, k)
    BY DEF F
  <2>2. \A k \in 1..n : g[k - 1] \in V
    BY <1>6, <1>7
  <2> HIDE DEF F
  <2> QED BY <1>6, <2>1, <2>2
<1> DEFINE Is(h) == h = [k \in 0..n |-> IF k = 0 THEN 0 ELSE one(h[k - 1], k)]
<1>9. Is(g)
  <2>1. \A k \in 0..n : g[k] = IF k = 0 THEN 0 ELSE one(g[k - 1], k)
    BY <1>4, <1>6, <1>8
  <2> QED BY <2>1
<1> DEFINE h == BestTo
<1>10. Is(h)
  BY <1>9 DEF BestTo, one, n
<1> HIDE DEF h
<1>11. \A k \in 0..n : h[k] = IF k = 0 THEN 0 ELSE one(h[k - 1], k)
  BY <1>10
<1>12. h = [k \in 0..n |-> h[k]]
  BY <1>10
<1>13. h[0] = 0 /\ \A k \in 1..n : h[k] = one(h[k - 1], k)
  BY <1>4, <1>7, <1>11
<1>14. h \in [0..n -> V]
  <2>1. h[0] \in V
    BY <1>3, <1>13
  <2>2. \A k \in 1..n : h[k - 1] \in V => h[k] \in V
    BY <1>1, <1>13
  <2> QED BY <1>4, <1>12, <2>1, <2>2, Typed
<1>15. h[n] \in V
  BY <1>4, <1>14
<1>16. MatchSkill = IF h[n] = 0 THEN 0 ELSE IF shelf[h[n]].score < Threshold THEN 0 ELSE h[n]
  BY DEF MatchSkill, BestTo, Better, h, n
<1> QED BY <1>3, <1>15, <1>16 DEF V

\* The skill that is loaded is in the index, and its name is the one that was
\* asked for but for case.
LEMMA LoadIsIndexed ==
  ASSUME skillIndex \in Seq(Folders), NEW i \in 1..Len(skillIndex)
  PROVE  \E k \in 1..Len(skillIndex) :
           /\ LoadSkill(IndexedName(skillIndex[i])) = skillIndex[k]
           /\ Fold(IndexedName(skillIndex[k])) = Fold(IndexedName(skillIndex[i]))
<1> DEFINE name == IndexedName(skillIndex[i])
           I == {k \in 1..Len(skillIndex) : Fold(IndexedName(skillIndex[k])) = Fold(name)}
           first == IF I # {} THEN Min(I) ELSE 0
<1>1. LoadSkill(name) = IF first = 0 THEN 0 ELSE skillIndex[first]
  BY DEF LoadSkill, SelectInSeq
<1>2. i \in I /\ Len(skillIndex) \in Nat /\ I \in SUBSET (1..Len(skillIndex))
  OBVIOUS
<1> HIDE DEF I
<1>3. first \in 0..Len(skillIndex) /\ (first > 0 => first \in I) /\ (first = 0 => I = {})
  BY <1>2, FirstIsOne
<1> HIDE DEF first
<1>4. first # 0 /\ first \in I
  BY <1>2, <1>3
<1> QED BY <1>1, <1>4 DEF I

-----------------------------------------------------------------------------
\* The file l of the folder e is looked at before the file after j of d.
Before(e, l, d, j) == e < d \/ (e = d /\ l <= j)

\* A small file that does not fit any more.
TooMuch(total, dirs, e, k) == dirs[e][k].listed <= MaxFile /\ total + dirs[e][k].listed > MaxResources

\* Why a file is inlined or left out.
Accounted(r, dirs, e, l) ==
  \/ dirs[e][l].listed > MaxFile
  \/ ~dirs[e][l].opens
  \/ \E k \in 1..Len(r.got) : r.got[k] = <<e, l>>
  \/ \E k \in 1..l : TooMuch(r.total, dirs, e, k)

\* Only the last file may pass the total, if it is larger than it is listed.
Fits(total, dirs, got) ==
  \/ total <= MaxResources
  \/ got # <<>> /\ dirs[got[Len(got)][1]][got[Len(got)][2]].size > dirs[got[Len(got)][1]][got[Len(got)][2]].listed

\* What is inlined is listed as small.
Small(dirs, got) == \A k \in 1..Len(got) : dirs[got[k][1]][got[k][2]].listed <= MaxFile

\* What is inlined when the folder d has been looked at up to its file j.
FitTo(r, dirs, d, j) ==
  /\ r \in Loads
  /\ Sized(dirs, r.got) /\ r.total = TotalSize(dirs, r.got)
  /\ Fits(r.total, dirs, r.got) /\ Small(dirs, r.got)
  /\ \A k \in 1..Len(r.got) : Before(r.got[k][1], r.got[k][2], d, j)
  /\ \A k, l \in 1..Len(r.got) : r.got[k] = r.got[l] => k = l
  /\ \A e \in r.full : e <= d
  /\ d \in r.full => \E k \in 1..j : TooMuch(r.total, dirs, d, k)
  /\ \A e \in 1..Len(dirs) : \A l \in 1..Len(dirs[e]) : Before(e, l, d, j) => Accounted(r, dirs, e, l)

\* The next file fits, or it is left out for a reason.
LEMMA NextFileFits ==
  ASSUME NEW dirs \in Seq(Seq(ResourceFiles)), NEW d \in 1..Len(dirs), NEW j \in Nat, j + 1 <= Len(dirs[d]),
         NEW r, FitTo(r, dirs, d, j)
  PROVE  FitTo(AddResource(r, d, j + 1, dirs[d][j + 1]), dirs, d, j + 1)
<1> DEFINE item == dirs[d][j + 1]
           next == AddResource(r, d, j + 1, item)
<1>1. /\ r \in Loads
      /\ Sized(dirs, r.got) /\ r.total = TotalSize(dirs, r.got)
      /\ Fits(r.total, dirs, r.got) /\ Small(dirs, r.got)
  BY DEF FitTo
<1>2. /\ \A k \in 1..Len(r.got) : Before(r.got[k][1], r.got[k][2], d, j)
      /\ \A k, l \in 1..Len(r.got) : r.got[k] = r.got[l] => k = l
  BY DEF FitTo
<1>3. /\ \A e \in r.full : e <= d
      /\ d \in r.full => \E k \in 1..j : TooMuch(r.total, dirs, d, k)
  BY DEF FitTo
<1>4. \A e \in 1..Len(dirs) : \A l \in 1..Len(dirs[e]) : Before(e, l, d, j) => Accounted(r, dirs, e, l)
  BY DEF FitTo
<1>5. /\ r.total \in Nat /\ r.got \in Seq(Nat \X Nat) /\ r.full \in SUBSET Nat
  BY <1>1 DEF Loads
<1>6. Len(r.got) \in Nat /\ \A k \in 1..Len(r.got) : r.got[k] \in Nat \X Nat
  <2>1. ASSUME NEW x \in Seq(Nat \X Nat) PROVE Len(x) \in Nat /\ \A k \in 1..Len(x) : x[k] \in Nat \X Nat
    OBVIOUS
  <2> QED BY <1>5, <2>1
<1>7. dirs[d] \in Seq(ResourceFiles) /\ d \in Nat
  OBVIOUS
<1>8. item \in ResourceFiles /\ j + 1 \in Nat /\ j + 1 \in 1..Len(dirs[d])
  BY <1>7
<1>19. item.size \in Nat /\ item.listed \in Nat
  BY <1>8 DEF ResourceFiles
<1>9. next \in Loads
  BY <1>1, <1>7, <1>8, AddResourceIsTyped
<1>10. ASSUME NEW e \in Nat, NEW l \in Nat
       PROVE  /\ Before(e, l, d, j) => Before(e, l, d, j + 1)
              /\ Before(e, l, d, j + 1) => Before(e, l, d, j) \/ (e = d /\ l = j + 1)
              /\ ~Before(d, j + 1, d, j) /\ Before(d, j + 1, d, j + 1)
  BY <1>7 DEF Before
<1>11. \A e \in 1..Len(dirs) : e \in Nat /\ \A l \in 1..Len(dirs[e]) : l \in Nat
  OBVIOUS
<1>12. \A k \in 1..Len(r.got) : Before(r.got[k][1], r.got[k][2], d, j + 1)
  BY <1>2, <1>6, <1>10
<1>13. \A k \in 1..j : k \in 1..j + 1
  OBVIOUS
<1> HIDE DEF item, next
<1>14. ASSUME next = r, Accounted(r, dirs, d, j + 1) PROVE FitTo(next, dirs, d, j + 1)
  <2>1. \A e \in 1..Len(dirs) : \A l \in 1..Len(dirs[e]) : Before(e, l, d, j + 1) => Accounted(r, dirs, e, l)
    BY <1>4, <1>10, <1>11, <1>14
  <2>2. d \in r.full => \E k \in 1..j + 1 : TooMuch(r.total, dirs, d, k)
    BY <1>3, <1>13
  <2>3. FitTo(r, dirs, d, j + 1)
    BY <1>1, <1>2, <1>3, <1>12, <2>1, <2>2 DEF FitTo
  <2> QED BY <1>14, <2>3
<1>15. CASE item.listed > MaxFile
  <2>1. next = r
    BY <1>15 DEF AddResource, next
  <2>2. Accounted(r, dirs, d, j + 1)
    BY <1>15 DEF Accounted, item
  <2>3. FitTo(next, dirs, d, j + 1)
    BY <1>14, <2>1, <2>2
  <2> QED BY <2>3 DEF next, item
<1>16. CASE d \in r.full
  <2>1. next = r
    BY <1>16 DEF AddResource, next
  <2>2. Accounted(r, dirs, d, j + 1)
    BY <1>3, <1>13, <1>16 DEF Accounted
  <2>3. FitTo(next, dirs, d, j + 1)
    BY <1>14, <2>1, <2>2
  <2> QED BY <2>3 DEF next, item
<1>17. CASE /\ ~(item.listed > MaxFile) /\ d \notin r.full /\ r.total + item.listed > MaxResources
  <2>1. next = [r EXCEPT !.full = r.full \cup {d}]
    BY <1>17 DEF AddResource, next
  <2>2. next.total = r.total /\ next.got = r.got /\ next.full = r.full \cup {d}
    BY <1>1, <2>1 DEF Loads
  <2>3. TooMuch(r.total, dirs, d, j + 1)
    <3>1. item.listed <= MaxFile
      BY <1>17, <1>19, SkillsAssumption
    <3> QED BY <1>17, <3>1 DEF TooMuch, item
  <2>4. \A e \in next.full : e <= d
    BY <1>3, <1>7, <2>2
  <2>5. \E k \in 1..j + 1 : TooMuch(next.total, dirs, d, k)
    BY <1>8, <2>2, <2>3
  <2>6. Accounted(r, dirs, d, j + 1)
    BY <1>8, <2>3 DEF Accounted
  <2>7. \A e \in 1..Len(dirs) : \A l \in 1..Len(dirs[e]) : Before(e, l, d, j + 1) => Accounted(next, dirs, e, l)
    <3>1. \A e, l : Accounted(r, dirs, e, l) <=> Accounted(next, dirs, e, l)
      BY <2>2 DEF Accounted
    <3> QED BY <1>4, <1>10, <1>11, <2>6, <3>1
  <2>8. FitTo(next, dirs, d, j + 1)
    BY <1>1, <1>2, <1>9, <1>12, <2>2, <2>4, <2>5, <2>7 DEF FitTo
  <2> QED BY <2>8 DEF next, item
<1>20. CASE /\ ~(item.listed > MaxFile) /\ d \notin r.full /\ ~(r.total + item.listed > MaxResources) /\ ~item.opens
  <2>1. next = r
    BY <1>20 DEF AddResource, next
  <2>2. Accounted(r, dirs, d, j + 1)
    BY <1>20 DEF Accounted, item
  <2>3. FitTo(next, dirs, d, j + 1)
    BY <1>14, <2>1, <2>2
  <2> QED BY <2>3 DEF next, item
<1>18. CASE /\ ~(item.listed > MaxFile) /\ d \notin r.full /\ ~(r.total + item.listed > MaxResources) /\ item.opens
  <2> DEFINE more == Append(r.got, <<d, j + 1>>)
             m == Len(r.got)
  <2>1. next = Taken(r, d, j + 1, item)
    BY <1>18 DEF AddResource, next
  <2>2. next.total = r.total + item.size /\ next.got = more /\ next.full = r.full
    <3> DEFINE larger == r.total + item.size
    <3>1. next = [r EXCEPT !.total = larger, !.got = more]
      BY <2>1 DEF Taken
    <3> HIDE DEF more, larger
    <3>2. next.total = larger /\ next.got = more /\ next.full = r.full
      BY <1>1, <3>1 DEF Loads
    <3> QED BY <3>2 DEF larger
  <2>3. Sized(dirs, more) /\ TotalSize(dirs, more) = r.total + item.size
    BY <1>1, <1>7, <1>8, <1>19, TotalGrows DEF item
  <2>4. /\ r.total + item.size \in Nat
        /\ r.total + item.size <= MaxResources \/ item.size > item.listed
    <3>1. \A t, z, l, c \in Nat : ~(t + l > c) => t + z <= c \/ z > l
      OBVIOUS
    <3>2. r.total + item.size <= MaxResources \/ item.size > item.listed
      BY <1>5, <1>18, <1>19, <3>1, SkillsAssumption
    <3> QED BY <1>5, <1>19, <3>2
  <2>5. /\ Len(more) = m + 1 /\ more[m + 1] = <<d, j + 1>>
        /\ \A k \in 1..m : more[k] = r.got[k]
    <3>1. ASSUME NEW x \in Seq(Nat \X Nat), NEW y \in Nat \X Nat
          PROVE  /\ Len(Append(x, y)) = Len(x) + 1 /\ Append(x, y)[Len(x) + 1] = y
                 /\ \A k \in 1..Len(x) : Append(x, y)[k] = x[k]
      OBVIOUS
    <3>2. <<d, j + 1>> \in Nat \X Nat
      BY <1>7, <1>8
    <3> QED BY <1>5, <3>1, <3>2
  <2> HIDE DEF more
  <2>6. \A k \in 1..Len(more) : k = m + 1 \/ k \in 1..m
    BY <1>6, <2>5
  <2> HIDE DEF m
  <2>7. \A k \in 1..Len(more) : Before(more[k][1], more[k][2], d, j + 1)
    <3>1. Before(d, j + 1, d, j + 1)
      BY <1>7, <1>8, <1>10
    <3>2. <<d, j + 1>>[1] = d /\ <<d, j + 1>>[2] = j + 1
      OBVIOUS
    <3> QED BY <1>12, <2>5, <2>6, <3>1, <3>2 DEF m
  <2>8. \A k \in 1..m : more[k] # more[m + 1]
    <3>1. ~Before(d, j + 1, d, j)
      BY <1>7, <1>8, <1>10
    <3>2. \A k \in 1..m : Before(more[k][1], more[k][2], d, j)
      BY <1>2, <2>5 DEF m
    <3>3. more[m + 1][1] = d /\ more[m + 1][2] = j + 1
      BY <2>5
    <3> QED BY <3>1, <3>2, <3>3
  <2>9. \A k, l \in 1..Len(more) : more[k] = more[l] => k = l
    BY <1>2, <2>5, <2>6, <2>8 DEF m
  <2>14. Small(dirs, more)
    <3>1. item.listed <= MaxFile
      BY <1>18, <1>19, SkillsAssumption
    <3>2. \A k \in 1..m : dirs[more[k][1]][more[k][2]].listed <= MaxFile
      BY <1>1, <2>5 DEF Small, m
    <3>3. dirs[more[m + 1][1]][more[m + 1][2]] = item
      BY <2>5 DEF item
    <3> QED BY <2>6, <3>1, <3>2, <3>3 DEF Small
  <2>15. Fits(next.total, dirs, more)
    <3>1. dirs[more[Len(more)][1]][more[Len(more)][2]] = item
      BY <2>5 DEF item
    <3>2. more # <<>>
      BY <1>6, <2>5 DEF m
    <3> QED BY <2>2, <2>4, <3>1, <3>2 DEF Fits
  <2>10. ASSUME NEW e \in 1..Len(dirs), NEW l \in 1..Len(dirs[e]), Accounted(r, dirs, e, l)
         PROVE  Accounted(next, dirs, e, l)
    <3>1. ASSUME NEW k \in 1..l, TooMuch(r.total, dirs, e, k) PROVE TooMuch(next.total, dirs, e, k)
      <4>1. dirs[e] \in Seq(ResourceFiles) /\ k \in 1..Len(dirs[e])
        OBVIOUS
      <4>2. dirs[e][k].listed \in Nat
        <5>1. dirs[e][k] \in ResourceFiles
          BY <4>1, SMTT(30)
        <5> QED BY <5>1 DEF ResourceFiles
      <4>3. \A x, y, z, w \in Nat : x + z > w => (x + y) + z > w
        OBVIOUS
      <4>4. dirs[e][k].listed <= MaxFile /\ r.total + dirs[e][k].listed > MaxResources
        BY <3>1 DEF TooMuch
      <4>5. (r.total + item.size) + dirs[e][k].listed > MaxResources
        BY <1>5, <1>19, <4>2, <4>3, <4>4, SkillsAssumption
      <4> QED BY <2>2, <4>4, <4>5 DEF TooMuch
    <3>2. \A k \in 1..m : k \in 1..Len(more)
      BY <1>6, <2>5 DEF m
    <3>3. (\E k \in 1..m : r.got[k] = <<e, l>>) => \E k \in 1..Len(more) : more[k] = <<e, l>>
      BY <2>5, <3>2
    <3> QED BY <2>2, <2>10, <3>1, <3>3 DEF Accounted, m
  <2>11. Accounted(next, dirs, d, j + 1)
    <3>1. m + 1 \in 1..Len(next.got) /\ next.got[m + 1] = <<d, j + 1>>
      BY <1>6, <2>2, <2>5 DEF m
    <3> QED BY <3>1 DEF Accounted
  <2>12. \A e \in 1..Len(dirs) : \A l \in 1..Len(dirs[e]) : Before(e, l, d, j + 1) => Accounted(next, dirs, e, l)
    BY <1>4, <1>10, <1>11, <2>10, <2>11
  <2>13. FitTo(next, dirs, d, j + 1)
    BY <1>3, <1>9, <1>18, <2>2, <2>3, <2>7, <2>9, <2>12, <2>14, <2>15 DEF FitTo
  <2> QED BY <2>13 DEF next, item
<1> QED BY <1>15, <1>16, <1>17, <1>18, <1>20

\* A folder that is done leaves what the next one begins with.
LEMMA FolderFits ==
  ASSUME NEW dirs \in Seq(Seq(ResourceFiles)), NEW d \in 1..Len(dirs), NEW r, FitTo(r, dirs, d, 0)
  PROVE  FitTo(AddFolder(r, d, dirs[d]), dirs, d + 1, 0)
<1> DEFINE n == Len(dirs[d])
           h == AddTo(r, d, dirs[d])
           T == {j \in Nat : j <= n => FitTo(h[j], dirs, d, j)}
<1>1. dirs[d] \in Seq(ResourceFiles) /\ d \in Nat
  OBVIOUS
<1>2. r \in Loads
  BY DEF FitTo
<1>3. /\ AddFolder(r, d, dirs[d]) = h[n] /\ h[0] = r
      /\ \A j \in 1..n : h[j] = AddResource(h[j - 1], d, j, dirs[d][j])
  BY <1>1, <1>2, FolderIsAdded
<1> HIDE DEF h
<1>4. 0 \in T
  BY <1>3
<1>5. ASSUME NEW j \in Nat, j \in T PROVE j + 1 \in T
  <2>1. ASSUME j + 1 <= n PROVE FitTo(h[j + 1], dirs, d, j + 1)
    <3>1. n \in Nat
      BY <1>1
    <3>2. j + 1 \in 1..n /\ (j + 1) - 1 = j /\ j <= n
      BY <2>1, <3>1
    <3>3. FitTo(h[j], dirs, d, j)
      BY <1>5, <3>2
    <3>4. h[j + 1] = AddResource(h[(j + 1) - 1], d, j + 1, dirs[d][j + 1])
      BY <1>3, <3>2
    <3>5. FitTo(AddResource(h[j], d, j + 1, dirs[d][j + 1]), dirs, d, j + 1)
      BY <2>1, <3>3, NextFileFits
    <3> QED BY <3>2, <3>4, <3>5
  <2> QED BY <2>1
<1>6. n \in T
  <2>1. n \in Nat
    BY <1>1
  <2> HIDE DEF T
  <2> QED BY <1>4, <1>5, <2>1, NatInduct
<1> DEFINE q == h[n]
<1>7. n \in Nat /\ FitTo(q, dirs, d, n)
  BY <1>1, <1>6
<1> HIDE DEF q, n
<1>8. /\ q \in Loads
      /\ Sized(dirs, q.got) /\ q.total = TotalSize(dirs, q.got)
      /\ Fits(q.total, dirs, q.got) /\ Small(dirs, q.got)
      /\ \A k \in 1..Len(q.got) : Before(q.got[k][1], q.got[k][2], d, n)
      /\ \A k, l \in 1..Len(q.got) : q.got[k] = q.got[l] => k = l
      /\ \A e \in q.full : e <= d
      /\ \A e \in 1..Len(dirs) : \A l \in 1..Len(dirs[e]) : Before(e, l, d, n) => Accounted(q, dirs, e, l)
  BY <1>7 DEF FitTo
<1>9. q.got \in Seq(Nat \X Nat) /\ q.full \in SUBSET Nat
  BY <1>8 DEF Loads
<1>10. \A k \in 1..Len(q.got) : Before(q.got[k][1], q.got[k][2], d + 1, 0)
  <2>1. \A k \in 1..Len(q.got) : q.got[k] \in Nat \X Nat
    BY <1>9
  <2>2. \A e, l \in Nat : Before(e, l, d, n) => Before(e, l, d + 1, 0)
    BY <1>1, <1>7 DEF Before
  <2> QED BY <1>8, <2>1, <2>2
<1>11. d + 1 \notin q.full /\ \A e \in q.full : e <= d + 1
  BY <1>1, <1>8, <1>9
<1>12. \A e \in 1..Len(dirs) : \A l \in 1..Len(dirs[e]) : Before(e, l, d + 1, 0) => Before(e, l, d, n)
  BY <1>1, <1>7 DEF Before, n
<1>13. FitTo(q, dirs, d + 1, 0)
  BY <1>8, <1>10, <1>11, <1>12 DEF FitTo
<1> QED BY <1>3, <1>13 DEF q

\* What is inlined of a skill fits, and what is left out does not.
LEMMA LoadsFit ==
  ASSUME NEW dirs \in Seq(Seq(ResourceFiles))
  PROVE  FitTo(LoadResources(dirs), dirs, Len(dirs) + 1, 0)
<1> DEFINE n == Len(dirs)
           h == LoadTo(dirs)
           T == {d \in Nat : d <= n => FitTo(h[d], dirs, d + 1, 0)}
<1>1. /\ LoadResources(dirs) = h[n] /\ h[0] = NoResources
      /\ \A d \in 1..n : h[d] = AddFolder(h[d - 1], d, dirs[d])
  BY FoldersAreLoaded
<1> HIDE DEF h
<1>2. n \in Nat
  OBVIOUS
<1>3. 0 \in T
  <2> DEFINE r == NoResources
  <2>1. r \in Loads /\ r.total = 0 /\ r.got = <<>> /\ r.full = {}
    BY DEF Loads, NoResources
  <2>2. Sized(dirs, <<>>) /\ Len(<<>>) = 0
    BY DEF Sized
  <2>3. TotalSize(dirs, <<>>) = 0
    BY <2>2, TotalIsMade
  <2> HIDE DEF r
  <2>4. \A e \in 1..n : \A l \in 1..Len(dirs[e]) : ~Before(e, l, 0 + 1, 0)
    BY DEF Before
  <2>5. FitTo(r, dirs, 0 + 1, 0)
    BY <2>1, <2>2, <2>3, <2>4, SkillsAssumption DEF FitTo, Fits, Small
  <2> QED BY <1>1, <2>5 DEF r
<1>4. ASSUME NEW d \in Nat, d \in T PROVE d + 1 \in T
  <2>1. ASSUME d + 1 <= n PROVE FitTo(h[d + 1], dirs, (d + 1) + 1, 0)
    <3>1. d + 1 \in 1..n /\ (d + 1) - 1 = d /\ d <= n
      BY <1>2, <2>1
    <3>2. FitTo(h[d], dirs, d + 1, 0)
      BY <1>4, <3>1
    <3>3. h[d + 1] = AddFolder(h[(d + 1) - 1], d + 1, dirs[d + 1])
      BY <1>1, <3>1
    <3>4. FitTo(AddFolder(h[d], d + 1, dirs[d + 1]), dirs, (d + 1) + 1, 0)
      BY <3>1, <3>2, FolderFits
    <3> QED BY <3>1, <3>3, <3>4
  <2> QED BY <2>1
<1>5. n \in T
  <2> HIDE DEF T
  <2> QED BY <1>2, <1>3, <1>4, NatInduct
<1> QED BY <1>1, <1>2, <1>5

-----------------------------------------------------------------------------
\* An entry of the conversation is a skill of the index, the one that was wanted
\* but for case, with its resources, and it is active unless its name changed.
Entry(e) ==
  /\ \E k \in 1..Len(skillIndex) : e.folder = skillIndex[k]
  /\ \E k \in 1..Len(skillIndex) : e.wanted = skillIndex[k]
  /\ Fold(IndexedName(e.folder)) = Fold(IndexedName(e.wanted))
  /\ e.folder \in renamed \/ IndexedName(e.folder) \in activeSkills
  /\ e.resources = LoadResources(shelf[e.folder].files).got

\* No skill is there twice, but for twins and for names that changed.
NotTwice ==
  \A i, j \in 1..Len(inlined) :
    i # j /\ inlined[i].folder = inlined[j].folder =>
      inlined[i].folder \in renamed \/ Twin(inlined[i].folder)

\* What is noted of the script that was asked for last.
LastIs ==
  lastScript = NoRun \/ (lastScript.folder \in Folders /\ lastScript.ok = IsInsideSkillDir(lastScript.folder))

SkillsInv ==
  /\ shelf \in Shelves
  /\ skillIndex \in Seq(Folders) /\ LastCounts
  /\ renamed = {} => skillIndex = SkillIndex
  /\ \E S : inlined \in Seq(S)
  /\ \A i \in 1..Len(inlined) : Entry(inlined[i])
  /\ NotTwice
  /\ LastIs

\* The folders of a shelf have scores and files.
LEMMA ShelfIsTyped ==
  ASSUME shelf \in Shelves
  PROVE  Len(shelf) \in Nat /\ \A f \in Folders : shelf[f].files \in Seq(Seq(ResourceFiles))
BY SkillsAssumption DEF Folders

\* At the start nothing is in the conversation, and the index is new.
LEMMA SkillsStart ==
  ASSUME SkillsInit PROVE SkillsInv
<1>1. /\ shelf \in Shelves /\ renamed = {} /\ skillIndex = SkillIndex
      /\ inlined = <<>> /\ lastScript = NoRun
  BY DEF SkillsInit
<1>2. skillIndex \in Seq(Folders) /\ LastCounts
  BY <1>1, ShelfIsTyped, IndexHolds
<1>3. inlined \in Seq({}) /\ Len(inlined) = 0
  BY <1>1
<1>4. NotTwice /\ \A i \in 1..Len(inlined) : Entry(inlined[i])
  BY <1>3 DEF NotTwice
<1> QED BY <1>1, <1>2, <1>3, <1>4 DEF SkillsInv, LastIs

\* A skill of the index whose text is put into the conversation is not there,
\* unless it has a twin or another name now.
LEMMA InjectHolds ==
  ASSUME SkillsInv, NEW w, NEW f, Inject(f, w),
         \E k \in 1..Len(skillIndex) : f = skillIndex[k],
         \E k \in 1..Len(skillIndex) : w = skillIndex[k],
         Fold(IndexedName(f)) = Fold(IndexedName(w)),
         IndexedName(w) \notin activeSkills \/ NameNow(f) \notin activeSkills
  PROVE  SkillsInv'
<1> DEFINE n == Len(inlined)
<1>15. PICK e : e = [folder |-> f, wanted |-> w, resources |-> LoadResources(shelf[f].files).got]
  OBVIOUS
<1>1. /\ inlined' = Append(inlined, e)
      /\ activeSkills' = activeSkills \cup {NameNow(f)}
      /\ UNCHANGED <<shelf, renamed, projectTrusted, skillIndex, lastScript>>
  BY <1>15 DEF Inject
<1>2. /\ shelf \in Shelves /\ skillIndex \in Seq(Folders) /\ LastCounts
      /\ renamed = {} => skillIndex = SkillIndex
      /\ \A i \in 1..n : Entry(inlined[i])
      /\ NotTwice
      /\ LastIs
  BY DEF SkillsInv
<1>3. PICK S : inlined \in Seq(S)
  BY DEF SkillsInv
<1>4. e.folder = f /\ e.wanted = w /\ e.resources = LoadResources(shelf[f].files).got
  BY <1>15
<1>5. inlined' \in Seq(S \cup {e}) /\ n \in Nat /\ Len(inlined') = n + 1 /\ inlined'[n + 1] = e
      /\ \A i \in 1..n : inlined'[i] = inlined[i]
  <2>1. ASSUME NEW R, NEW x \in Seq(R), NEW y
        PROVE  /\ Append(x, y) \in Seq(R \cup {y}) /\ Len(x) \in Nat /\ Len(Append(x, y)) = Len(x) + 1
               /\ Append(x, y)[Len(x) + 1] = y
               /\ \A i \in 1..Len(x) : Append(x, y)[i] = x[i]
    <3>1. x \in Seq(R \cup {y})
      OBVIOUS
    <3> QED BY <3>1
  <2> QED BY <1>1, <1>3, <2>1
<1>6. \A i \in 1..Len(inlined') : i = n + 1 \/ i \in 1..n
  BY <1>5
<1> HIDE DEF n
<1>7. \A x : Entry(x) => Entry(x)'
  BY <1>1 DEF Entry, IndexedName
<1>8. Entry(e)'
  <2>1. f \in renamed \/ IndexedName(f) \in activeSkills'
    BY <1>1 DEF NameNow
  <2>3. /\ \E k \in 1..Len(skillIndex') : e.folder = skillIndex'[k]
        /\ \E k \in 1..Len(skillIndex') : e.wanted = skillIndex'[k]
    BY <1>1, <1>4
  <2>4. /\ Fold(shelf'[e.folder].name) = Fold(shelf'[e.wanted].name)
        /\ e.folder \in renamed' \/ shelf'[e.folder].name \in activeSkills'
        /\ e.resources = LoadResources(shelf'[e.folder].files).got
    BY <1>1, <1>4, <2>1 DEF IndexedName
  <2> QED BY <2>3, <2>4 DEF Entry, IndexedName
<1>9. (\A i \in 1..Len(inlined) : Entry(inlined[i]))'
  BY <1>2, <1>5, <1>6, <1>7, <1>8 DEF n
<1>10. \A x : Twin(x)' <=> Twin(x)
  BY <1>1 DEF Twin, IndexedName
<1>11. ASSUME NEW i \in 1..n, inlined[i].folder = f, f \notin renamed PROVE Twin(f)
  <2>1. Entry(inlined[i])
    BY <1>2 DEF n
  <2>2. IndexedName(f) \in activeSkills
    BY <1>11, <2>1 DEF Entry
  <2>3. NameNow(f) = IndexedName(f)
    BY <1>11 DEF NameNow
  <2>4. w # f
    BY <2>2, <2>3
  <2>5. PICK k \in 1..Len(skillIndex) : w = skillIndex[k]
    OBVIOUS
  <2>6. DOMAIN skillIndex = 1..Len(skillIndex)
    BY <1>2
  <2> QED BY <2>4, <2>5, <2>6 DEF Twin
<1>12. NotTwice'
  <2>1. ASSUME NEW i \in 1..Len(inlined'), NEW j \in 1..Len(inlined'), i # j,
               inlined'[i].folder = inlined'[j].folder, inlined'[i].folder \notin renamed'
        PROVE  Twin(inlined'[i].folder)
    <3>1. CASE i \in 1..n /\ j \in 1..n
      BY <1>1, <1>2, <1>5, <2>1, <3>1 DEF NotTwice, n
    <3>2. CASE ~(i \in 1..n /\ j \in 1..n)
      <4>1. inlined'[i].folder = f
        BY <1>4, <1>5, <1>6, <2>1, <3>2
      <4>2. \E k \in 1..n : inlined[k].folder = f
        BY <1>4, <1>5, <1>6, <2>1, <3>2
      <4> QED BY <1>1, <1>11, <2>1, <4>1, <4>2
    <3> QED BY <3>1, <3>2
  <2> QED BY <1>10, <2>1 DEF NotTwice
<1>13. LastCounts' /\ LastIs' /\ Folders' = Folders /\ SkillIndex' = SkillIndex
  <2>1. LastCounts' <=> LastCounts
    BY <1>1 DEF LastCounts, Folders, IndexedName, Readable
  <2>2. LastIs' <=> LastIs
    BY <1>1 DEF LastIs, Folders, Readable, IsInsideSkillDir
  <2>3. Folders' = Folders /\ SkillIndex' = SkillIndex
    BY <1>1 DEF Folders, IndexedName, Readable, NameNow, SkillIndex, SelectInSeq
  <2> QED BY <1>2, <2>1, <2>2, <2>3
<1>14. /\ shelf' \in Shelves /\ skillIndex' \in Seq(Folders')
       /\ renamed' = {} => skillIndex' = SkillIndex'
  BY <1>1, <1>2, <1>13
<1> QED BY <1>5, <1>9, <1>12, <1>13, <1>14 DEF SkillsInv

\* The index is what it was at the start.
LEMMA IndexStays ==
  ASSUME SkillsInv, UNCHANGED <<shelf, projectTrusted, skillIndex>>
  PROVE  /\ shelf' \in Shelves /\ skillIndex' \in Seq(Folders') /\ LastCounts'
         /\ renamed' = renamed => (renamed' = {} => skillIndex' = SkillIndex')
         /\ \A x : Twin(x)' <=> Twin(x)
<1>1. /\ shelf \in Shelves /\ skillIndex \in Seq(Folders) /\ LastCounts
      /\ renamed = {} => skillIndex = SkillIndex
  BY DEF SkillsInv
<1>2. LastCounts' <=> LastCounts
  BY DEF LastCounts, Folders, IndexedName, Readable
<1>3. Folders' = Folders
  BY DEF Folders
<1>4. renamed' = renamed => SkillIndex' = SkillIndex
  BY DEF Folders, IndexedName, Readable, NameNow, SkillIndex, SelectInSeq
<1>5. \A x : Twin(x)' <=> Twin(x)
  BY DEF Twin, IndexedName
<1>6. shelf' \in Shelves /\ skillIndex' \in Seq(Folders')
  BY <1>1, <1>3
<1> QED BY <1>1, <1>2, <1>4, <1>5, <1>6

\* A step of the skills keeps what they have and what is noted of them.
LEMMA SkillsStep ==
  ASSUME SkillsInv, [SkillsNext]_skillVars
  PROVE  SkillsInv'
<1>1. /\ shelf \in Shelves /\ skillIndex \in Seq(Folders) /\ LastCounts
      /\ renamed = {} => skillIndex = SkillIndex
      /\ \A i \in 1..Len(inlined) : Entry(inlined[i])
      /\ NotTwice /\ LastIs
  BY DEF SkillsInv
<1>2. DOMAIN skillIndex = 1..Len(skillIndex)
  BY <1>1
<1>3. CASE AutoActivateSkill
  <2> DEFINE w == MatchSkill
             f == LoadSkill(IndexedName(w))
  <2>1. w # 0 /\ Inject(f, w)
    BY <1>3 DEF AutoActivateSkill
  <2>2. w \in Free
    BY <1>1, <2>1, MatchIsFree
  <2> HIDE DEF w
  <2>3. PICK i \in 1..Len(skillIndex) : w = skillIndex[i] /\ IndexedName(w) \notin activeSkills
    BY <2>2 DEF Free
  <2>4. \E k \in 1..Len(skillIndex) : f = skillIndex[k] /\ Fold(IndexedName(skillIndex[k])) = Fold(IndexedName(w))
    BY <1>1, <2>3, LoadIsIndexed
  <2> HIDE DEF f
  <2>5. Fold(IndexedName(f)) = Fold(IndexedName(w)) /\ \E k \in 1..Len(skillIndex) : f = skillIndex[k]
    BY <2>4
  <2>6. PICK f0, w0 : f0 = f /\ w0 = w
    OBVIOUS
  <2>7. /\ Inject(f0, w0) /\ Fold(IndexedName(f0)) = Fold(IndexedName(w0)) /\ IndexedName(w0) \notin activeSkills
        /\ \E k \in 1..Len(skillIndex) : f0 = skillIndex[k]
        /\ \E k \in 1..Len(skillIndex) : w0 = skillIndex[k]
    BY <2>1, <2>3, <2>5, <2>6
  <2> QED BY <2>7, InjectHolds
<1>4. CASE HandleSkillActivate
  <2>1. PICK i \in 1..Len(skillIndex) :
          NameNow(LoadSkill(IndexedName(skillIndex[i]))) \notin activeSkills
            /\ Inject(LoadSkill(IndexedName(skillIndex[i])), skillIndex[i])
    BY <1>2, <1>4 DEF HandleSkillActivate
  <2> DEFINE w == skillIndex[i]
             f == LoadSkill(IndexedName(w))
  <2>2. \E k \in 1..Len(skillIndex) : f = skillIndex[k] /\ Fold(IndexedName(skillIndex[k])) = Fold(IndexedName(w))
    BY <1>1, LoadIsIndexed
  <2>3. Inject(f, w) /\ NameNow(f) \notin activeSkills /\ \E k \in 1..Len(skillIndex) : w = skillIndex[k]
    BY <2>1
  <2> HIDE DEF f, w
  <2>4. Fold(IndexedName(f)) = Fold(IndexedName(w)) /\ \E k \in 1..Len(skillIndex) : f = skillIndex[k]
    BY <2>2
  <2>5. PICK f0, w0 : f0 = f /\ w0 = w
    OBVIOUS
  <2>6. /\ Inject(f0, w0) /\ Fold(IndexedName(f0)) = Fold(IndexedName(w0)) /\ NameNow(f0) \notin activeSkills
        /\ \E k \in 1..Len(skillIndex) : f0 = skillIndex[k]
        /\ \E k \in 1..Len(skillIndex) : w0 = skillIndex[k]
    BY <2>3, <2>4, <2>5
  <2> QED BY <2>6, InjectHolds
<1>5. ASSUME UNCHANGED <<shelf, renamed, projectTrusted, skillIndex, activeSkills, inlined>>, LastIs'
      PROVE  SkillsInv'
  <2>1. \E S : inlined' \in Seq(S)
    BY <1>5 DEF SkillsInv
  <2>2. \A x : Entry(x)' <=> Entry(x)
    BY <1>5 DEF Entry, IndexedName
  <2>3. (\A i \in 1..Len(inlined) : Entry(inlined[i]))'
    BY <1>1, <1>5, <2>2
  <2>4. /\ shelf' \in Shelves /\ skillIndex' \in Seq(Folders') /\ LastCounts'
        /\ renamed' = {} => skillIndex' = SkillIndex'
        /\ \A x : Twin(x)' <=> Twin(x)
    BY <1>5, IndexStays
  <2>5. NotTwice'
    BY <1>1, <1>5, <2>4 DEF NotTwice
  <2> QED BY <1>5, <2>1, <2>3, <2>4, <2>5 DEF SkillsInv
<1>6. CASE Reindex
  <2>1. UNCHANGED <<shelf, renamed, projectTrusted, skillIndex, activeSkills, inlined>> /\ lastScript' = lastScript
    BY <1>1, <1>6 DEF Reindex
  <2>2. LastIs'
    BY <1>1, <2>1 DEF LastIs, Folders, Readable, IsInsideSkillDir
  <2> QED BY <1>5, <2>1, <2>2
<1>7. CASE Clear
  <2>1. inlined' = <<>> /\ UNCHANGED <<shelf, renamed, projectTrusted, skillIndex, activeSkills, lastScript>>
    BY <1>7 DEF Clear
  <2>2. LastIs'
    BY <1>1, <2>1 DEF LastIs, Folders, Readable, IsInsideSkillDir
  <2>3. inlined' \in Seq({}) /\ Len(inlined') = 0
    BY <2>1
  <2>4. NotTwice' /\ (\A i \in 1..Len(inlined) : Entry(inlined[i]))'
    BY <2>3 DEF NotTwice
  <2>5. /\ shelf' \in Shelves /\ skillIndex' \in Seq(Folders') /\ LastCounts'
        /\ renamed' = {} => skillIndex' = SkillIndex'
    BY <2>1, IndexStays
  <2> QED BY <2>2, <2>3, <2>4, <2>5 DEF SkillsInv
<1>8. CASE RenameSkill
  <2>1. PICK g \in Folders :
          renamed' = renamed \cup {g}
            /\ UNCHANGED <<shelf, projectTrusted, skillIndex, activeSkills, inlined, lastScript>>
    BY <1>8 DEF RenameSkill
  <2>2. LastIs'
    BY <1>1, <2>1 DEF LastIs, Folders, Readable, IsInsideSkillDir
  <2>3. \E S : inlined' \in Seq(S)
    BY <2>1 DEF SkillsInv
  <2>4. \A x : Entry(x) => Entry(x)'
    BY <2>1 DEF Entry, IndexedName
  <2>5. (\A i \in 1..Len(inlined) : Entry(inlined[i]))'
    BY <1>1, <2>1, <2>4
  <2>6. /\ shelf' \in Shelves /\ skillIndex' \in Seq(Folders') /\ LastCounts'
        /\ \A x : Twin(x)' <=> Twin(x)
    BY <2>1, IndexStays
  <2>7. renamed' # {}
    BY <2>1
  <2>8. NotTwice'
    BY <1>1, <2>1, <2>6 DEF NotTwice
  <2> QED BY <2>2, <2>3, <2>5, <2>6, <2>7, <2>8 DEF SkillsInv
<1>9. CASE RunScript
  <2>1. PICK g \in Folders :
          lastScript' = [folder |-> g, ok |-> IsInsideSkillDir(g)]
            /\ UNCHANGED <<shelf, renamed, projectTrusted, skillIndex, activeSkills, inlined>>
    BY <1>9 DEF RunScript
  <2>2. LastIs'
    <3>1. lastScript'.folder = g /\ lastScript'.ok = IsInsideSkillDir(g)
      BY <2>1
    <3>2. Folders' = Folders /\ \A x : Readable(x)' <=> Readable(x)
      BY <2>1 DEF Folders, Readable
    <3> QED BY <2>1, <3>1, <3>2 DEF LastIs, IsInsideSkillDir
  <2> QED BY <1>5, <2>1, <2>2
<1>10. CASE UNCHANGED skillVars
  <2>1. UNCHANGED <<shelf, renamed, projectTrusted, skillIndex, activeSkills, inlined>> /\ lastScript' = lastScript
    BY <1>10 DEF skillVars
  <2>2. LastIs'
    BY <1>1, <2>1 DEF LastIs, Folders, Readable, IsInsideSkillDir
  <2> QED BY <1>5, <2>1, <2>2
<1> QED BY <1>3, <1>4, <1>6, <1>7, <1>8, <1>9, <1>10 DEF SkillsNext

\* What is inlined of each skill fits.
LEMMA InlinedFits ==
  ASSUME SkillsInv
  PROVE  ResourcesFit
<1>1. /\ shelf \in Shelves /\ skillIndex \in Seq(Folders)
      /\ \A i \in 1..Len(inlined) : Entry(inlined[i])
      /\ \E S : inlined \in Seq(S)
  BY DEF SkillsInv
<1>2. DOMAIN inlined = 1..Len(inlined)
  BY <1>1
<1>3. ASSUME NEW i \in 1..Len(inlined)
      PROVE  LET dirs == shelf[inlined[i].folder].files
                 got == inlined[i].resources
                 item(k) == dirs[got[k][1]][got[k][2]]
                 total == TotalSize(dirs, got)
             IN /\ \/ total <= MaxResources
                   \/ got # <<>> /\ item(Len(got)).size > item(Len(got)).listed
                /\ \A k \in DOMAIN got : item(k).listed <= MaxFile
                /\ \A k, l \in DOMAIN got : got[k] = got[l] => k = l
                /\ \A d \in 1..Len(dirs) : \A j \in 1..Len(dirs[d]) :
                     \/ dirs[d][j].listed > MaxFile
                     \/ ~dirs[d][j].opens
                     \/ <<d, j>> \in ToSet(got)
                     \/ \E k \in 1..j : dirs[d][k].listed <= MaxFile /\ total + dirs[d][k].listed > MaxResources
  <2> DEFINE dirs == shelf[inlined[i].folder].files
             got == inlined[i].resources
             r == LoadResources(dirs)
  <2>1. Entry(inlined[i])
    BY <1>1
  <2>2. inlined[i].folder \in Folders /\ got = r.got
    BY <1>1, <2>1 DEF Entry
  <2>3. dirs \in Seq(Seq(ResourceFiles))
    BY <1>1, <2>2, ShelfIsTyped
  <2> HIDE DEF dirs
  <2>4. FitTo(r, dirs, Len(dirs) + 1, 0)
    BY <2>3, LoadsFit
  <2> HIDE DEF r, got
  <2>5. /\ r \in Loads
        /\ r.total = TotalSize(dirs, r.got)
        /\ Fits(r.total, dirs, r.got) /\ Small(dirs, r.got)
        /\ \A k, l \in 1..Len(r.got) : r.got[k] = r.got[l] => k = l
        /\ \A e \in 1..Len(dirs) : \A l \in 1..Len(dirs[e]) :
             Before(e, l, Len(dirs) + 1, 0) => Accounted(r, dirs, e, l)
    BY <2>4 DEF FitTo
  <2>6. got \in Seq(Nat \X Nat)
    BY <2>2, <2>5 DEF Loads
  <2>7. DOMAIN got = 1..Len(got)
    BY <2>6
  <2>8. \A e \in 1..Len(dirs) : \A l \in 1..Len(dirs[e]) : Before(e, l, Len(dirs) + 1, 0)
    BY <2>3 DEF Before
  <2> DEFINE total == TotalSize(dirs, got)
  <2>9. r.total = total /\ Fits(total, dirs, got) /\ Small(dirs, got)
    BY <2>2, <2>5
  <2> HIDE DEF total
  <2>10. ASSUME NEW d \in 1..Len(dirs), NEW j \in 1..Len(dirs[d])
         PROVE  \/ dirs[d][j].listed > MaxFile
                \/ ~dirs[d][j].opens
                \/ <<d, j>> \in ToSet(got)
                \/ \E k \in 1..j : dirs[d][k].listed <= MaxFile /\ total + dirs[d][k].listed > MaxResources
    <3>1. Accounted(r, dirs, d, j)
      BY <2>5, <2>8
    <3>2. (\E k \in 1..Len(got) : got[k] = <<d, j>>) => <<d, j>> \in ToSet(got)
      BY <2>7 DEF ToSet
    <3> QED BY <2>2, <2>9, <3>1, <3>2 DEF Accounted, TooMuch
  <2>11. \A k, l \in DOMAIN got : got[k] = got[l] => k = l
    BY <2>2, <2>5, <2>7
  <2>12. /\ \/ total <= MaxResources
            \/ got # <<>> /\ dirs[got[Len(got)][1]][got[Len(got)][2]].size > dirs[got[Len(got)][1]][got[Len(got)][2]].listed
         /\ \A k \in DOMAIN got : dirs[got[k][1]][got[k][2]].listed <= MaxFile
    BY <2>7, <2>9 DEF Fits, Small
  <2> QED BY <2>10, <2>11, <2>12 DEF total, dirs, got
<1> QED BY <1>2, <1>3 DEF ResourcesFit

\* What the skills promise follows.
LEMMA SkillsInvHolds ==
  ASSUME SkillsInv
  PROVE  SkillsHold
<1>1. /\ shelf \in Shelves /\ skillIndex \in Seq(Folders) /\ LastCounts
      /\ \A i \in 1..Len(inlined) : Entry(inlined[i])
      /\ NotTwice /\ LastIs
      /\ \E S : inlined \in Seq(S)
  BY DEF SkillsInv
<1>2. DOMAIN inlined = 1..Len(inlined) /\ DOMAIN skillIndex = 1..Len(skillIndex)
  BY <1>1
<1>3. InjectedOnce
  <2>1. ASSUME NEW i \in 1..Len(inlined), ~Twin(inlined[i].wanted)
        PROVE  inlined[i].folder = inlined[i].wanted
    <3>1. Entry(inlined[i])
      BY <1>1
    <3>2. PICK k \in 1..Len(skillIndex) : inlined[i].folder = skillIndex[k]
      BY <3>1 DEF Entry
    <3>3. Fold(IndexedName(inlined[i].folder)) = Fold(IndexedName(inlined[i].wanted))
      BY <3>1 DEF Entry
    <3> QED BY <1>2, <2>1, <3>2, <3>3 DEF Twin
  <2> QED BY <1>1, <1>2, <2>1 DEF InjectedOnce, NotTwice
<1>4. ListedScriptsRun
  <2>1. SUFFICES ASSUME lastScript # NoRun
                 PROVE  /\ (\E i \in 1..Len(inlined) : inlined[i].folder = lastScript.folder)
                              /\ ~shelf[lastScript.folder].linked => lastScript.ok
                        /\ lastScript.ok => projectTrusted \/ shelf[lastScript.folder].place = "home"
    BY <1>2 DEF ListedScriptsRun
  <2>2. lastScript.folder \in Folders /\ lastScript.ok = IsInsideSkillDir(lastScript.folder)
    BY <1>1, <2>1 DEF LastIs
  <2>3. ASSUME NEW i \in 1..Len(inlined), inlined[i].folder = lastScript.folder
        PROVE  Readable(lastScript.folder)
    <3>1. Entry(inlined[i])
      BY <1>1
    <3>2. \E k \in DOMAIN skillIndex : skillIndex[k] = lastScript.folder
      BY <1>2, <2>3, <3>1 DEF Entry
    <3> QED BY <1>1, <2>2, <3>2 DEF LastCounts
  <2> QED BY <2>2, <2>3 DEF IsInsideSkillDir, Readable
<1> QED BY <1>1, <1>3, <1>4, InlinedFits DEF SkillsHold

-----------------------------------------------------------------------------
(* Theorems *)

\* A step of Beside is a step of the benchmark or leaves it alone.
LEMMA BenchActs ==
  /\ Init => BenchInit
  /\ [Next]_Vars => [BenchNext]_benchVars
  BY DEF Init, Next, Vars

\* A task counts once per arm however often runners are killed, with the tokens
\* of its own run, and what a runner skips has been run.
THEOREM ScoresAreFairHolds == Spec => []ScoresAreFair
  <1>1. Init => BenchInv
    BY BenchActs, BenchInitOK
  <1>2. BenchInv /\ [Next]_Vars => BenchInv'
    BY BenchActs, BenchStep
  <1> QED BY <1>1, <1>2, BenchIsFair, PTL DEF Spec

\* A step of Beside is a step behind the chat or leaves what is there alone.
LEMMA BackgroundActs ==
  /\ Init => BackgroundInit
  /\ [Next]_Vars => [BackgroundNext]_backgroundVars
  BY DEF Init, Next, Vars, backgroundVars

\* Tasks report to the chat that started them and to no other, and an inquiry
\* claims what it found and does not wait for a chat that has stopped listening.
THEOREM BackgroundHoldsAlways == Spec => []BackgroundHolds
  <1>1. Init => BackgroundInv
    <2> SUFFICES ASSUME Init PROVE BackgroundInv
      OBVIOUS
    <2>1. BackgroundInit
      BY BackgroundActs
    <2>2. inquiry = NoInquiry
      BY <2>1 DEF BackgroundInit
    <2> QED BY <2>1, <2>2, TasksInit, NoInquiryOK DEF BackgroundInv
  <1>2. BackgroundInv /\ [Next]_Vars => BackgroundInv'
    <2> SUFFICES ASSUME BackgroundInv, [Next]_Vars PROVE BackgroundInv'
      OBVIOUS
    <2>1. [BackgroundNext]_backgroundVars
      BY BackgroundActs
    <2>2. chat \in Nat
      BY DEF BackgroundInv, TasksInv
    <2> QED BY <2>1, <2>2, TasksStep, InquiryStep DEF BackgroundInv
  <1>3. BackgroundInv => BackgroundHolds
    BY InquiryWhole DEF BackgroundInv, TasksInv, BackgroundHolds, BackgroundHolds
  <1> QED BY <1>1, <1>2, <1>3, PTL DEF Spec

\* A step of Beside is one of the setup or leaves the starter skills alone, and
\* so with the saved facts.
LEMMA HomeActs ==
  /\ Init => StartersInit /\ MemoriesInit
  /\ [Next]_Vars => [StartersNext]_starterVars
  /\ [Next]_Vars => [MemoriesNext]_memoryVars
  BY DEF Init, Next, Vars, starterVars, memoryVars

\* A download takes no change that it has read, and brings what it has not been
\* hindered to; a saved fact goes when it is asked for, or when another process
\* has saved it after the file was read, or with a file that was not read.
THEOREM HomeFilesHolds == Spec => HomeFilesHold
  <1> DEFINE Kept == \A i \in Index :
               IsEdit(starterFile[i]) /\ ~IsEdit(starterFile'[i]) => setup.seen[i] /= starterFile[i]
             Stay == \A s \in Scopes :
               /\ Len(stores[s]) <= MaxMemories
               /\ \A m \in ToSet(stores[s]) \ ToSet(stores'[s]) :
                    \E u \in Users :
                      /\ work[u] /= Resting /\ work'[u] = Resting /\ work[u].scope = s
                      /\ \/ work[u].op = "remove" /\ m = work[u].read[work[u].at] /\ HasText(m, work[u].text)
                         \/ m \notin ToSet(work[u].there)
                         \/ Misread(work[u])
             HomeInv == StartersInv /\ OneSetup /\ MemoriesInv
  <1>1. Init => HomeInv
    <2>1. StartersInit => OneSetup
      BY NoSetupFields DEF StartersInit, OneSetup
    <2> QED BY <2>1, HomeActs, StartersInitOK, MemoriesInitOK
  <1>2. HomeInv /\ [Next]_Vars => HomeInv'
    BY HomeActs, StartersStep, OneSetupOK, MemoriesStep
  <1>3. HomeInv /\ [Next]_Vars => [Kept]_starterVars /\ [Stay]_memoryVars
    BY HomeActs, EditsAreKept, FactsStay DEF Gone
  <1>4. HomeInv => StartersFresh
    BY StartersInvFresh
  <1> QED BY <1>1, <1>2, <1>3, <1>4, PTL DEF Spec, HomeFilesHold, StartersHold, FactsKept

\* A step of Beside is one of a starting process or leaves its settings alone.
LEMMA SettingsActs ==
  /\ Init => SettingsInit
  /\ [Next]_Vars => [SettingsNext]_settingVars
  BY DEF Init, Next, Vars, settingVars

\* A process runs with the settings of the highest layers, and the project's
\* count from the user's consent on and never before.
THEOREM SettingsHolds == Spec => []SettingsHold
  <1>1. Init => SettingsInv
    BY SettingsActs, SettingsInitOK
  <1>2. SettingsInv /\ [Next]_Vars => SettingsInv'
    BY SettingsActs, SettingsStep
  <1> QED BY <1>1, <1>2, SettingsInvHolds, PTL DEF Spec

\* A step of Beside is one of the input and its list or leaves them alone.
LEMMA MentionsActs ==
  /\ Init => MentionsInit
  /\ [Next]_Vars => [MentionsNext]_mentionVars
  BY DEF Init, Next, Vars, mentionVars

\* The word in front of the cursor gets the list of its files, and what enter
\* puts into the text is attached when it is sent.
THEOREM MentionIsOwnHolds == Spec => []MentionIsOwn
  <1>1. Init => MentionsInv
    BY MentionsActs, MentionsInitOK
  <1>2. MentionsInv /\ [Next]_Vars => MentionsInv'
    BY MentionsActs, MentionsStep
  <1>3. MentionsInv => MentionIsOwn
    BY DEF MentionsInv, MentionIsOwn
  <1> QED BY <1>1, <1>2, <1>3, PTL DEF Spec

\* A step of Beside is one of the index or leaves it alone.
LEMMA IndexActs ==
  /\ Init => IndexInit
  /\ [Next]_Vars => [IndexNext]_indexVars
  BY DEF Init, Next, Vars, indexVars

\* However updates, saves and edits of the rules overlap, the index is current
\* when an update that began after the last of them has ended, but for files
\* saved behind it and files it could not read; and a source build is cut along
\* its symbols, and out of range only in a file that was touched.
THEOREM IndexIsCurrentHolds == Spec => []IndexIsCurrent
  <1>1. Init => IndexInv /\ SourcesInv
    BY IndexActs, IndexStarts, SourcesStart
  <1>2. IndexInv /\ SourcesInv /\ [Next]_Vars => (IndexInv /\ SourcesInv)'
    BY IndexActs, IndexStep, SourcesStep
  <1>3. IndexInv /\ SourcesInv => IndexIsCurrent
    BY SourcesAreCut DEF IndexInv, IndexIsCurrent
  <1> QED BY <1>1, <1>2, <1>3, PTL DEF Spec

\* A step of Beside is one of the chat and the export or leaves them alone.
LEMMA ExportsActs ==
  /\ Init => ExportsInit
  /\ [Next]_Vars => [ExportsNext]_exportVars
  BY DEF Init, Next, Vars, exportVars

\* A history that is written has all that was saved before the export, once and
\* in order, but for the messages that it names by what became of them; an export
\* succeeds on its plugin's word only; and the plugin that runs was allowed to.
THEOREM ExportsHolds == Spec => []ExportsHold
  <1>1. Init => ExportsInv
    BY ExportsActs, ExportsStart
  <1>2. ExportsInv /\ [Next]_Vars => ExportsInv'
    BY ExportsActs, ExportsStep
  <1> QED BY <1>1, <1>2, ExportsInvHolds, PTL DEF Spec

\* A step of Beside is one of the manager of the servers or leaves it alone.
LEMMA ManagerActs ==
  /\ Init => ManagerInit
  /\ [Next]_Vars => [ManagerNext]_managerVars
  BY DEF Init, Next, Vars, managerVars

\* A call reaches the tool that was shown under its name, of the server that
\* has it, and goes unasked only when the server is trusted or the tool reads.
THEOREM RouteIsOwnHolds == Spec => []RouteIsOwn
  <1>1. Init => ManagerInv
    BY ManagerActs, ManagerStarts
  <1>2. ManagerInv /\ [Next]_Vars => ManagerInv'
    BY ManagerActs, ManagerStep
  <1> QED BY <1>1, <1>2, ManagerInvHolds, PTL DEF Spec

\* A step of Beside is one of the requests or leaves them alone.
LEMMA RequestsActs ==
  /\ Init => RequestsInit
  /\ [Next]_Vars => [RequestsNext]_requestVars
  BY DEF Init, Next, Vars, requestVars

\* A request of a conversation of any length says all that was said before it,
\* once and in order, and then what its loop added; the prompt is in it unless
\* the adapter converts the list and a later message of the system takes its
\* place.
THEOREM RequestsAreWholeHolds == Spec => []RequestsAreWhole
  <1>1. Init => RequestInv
    BY RequestsActs, RequestsStart
  <1>2. RequestInv /\ [Next]_Vars => RequestInv'
    BY RequestsActs, RequestsStep
  <1> QED BY <1>1, <1>2, RequestInvHolds, PTL DEF Spec

\* A step of Beside is one of the skills or leaves them alone.
LEMMA SkillsActs ==
  /\ Init => SkillsInit
  /\ [Next]_Vars => [SkillsNext]_skillVars
  BY DEF Init, Next, Vars, skillVars

\* Whatever the shelf holds, of the skills with one name the last counts; what is
\* matched or asked for enters a conversation once, with files that by their
\* listed sizes fit together and no other of these left out; and the scripts a
\* text lists run, unless they lead elsewhere or their project is not trusted.
THEOREM SkillsHoldAlways == Spec => []SkillsHold
  <1>1. Init => SkillsInv
    BY SkillsActs, SkillsStart
  <1>2. SkillsInv /\ [Next]_Vars => SkillsInv'
    BY SkillsActs, SkillsStep
  <1> QED BY <1>1, <1>2, SkillsInvHolds, PTL DEF Spec
=============================================================================
