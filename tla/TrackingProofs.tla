---------------------------- MODULE TrackingProofs ----------------------------
(***************************************************************************)
(* What a configuration makes of paths, for every configuration and tree:  *)
(* why it is enough to compare neighbours, why sorting, reducing and       *)
(* looking up give a path a key exactly if the configuration asks for it,  *)
(* and that this is so in every state of Tracking, whose variables keep    *)
(* their types.  Then, where the kernel arrives is the path the supervisor *)
(* made of a plain call, and so no change of a tracked file goes           *)
(* unrecorded, however late the kernel carries a call out.                 *)
(***************************************************************************)
EXTENDS Tracking, SequenceTheorems, FiniteSetTheorems, WellFoundedInduction, TLAPS

-----------------------------------------------------------------------------
(* Induction, from the well-foundedness of the numbers.                    *)

(* A set of numbers that is not empty has a least one.                     *)
LEMMA LeastOf ==
  ASSUME NEW T, T \subseteq Nat, T # {}
  PROVE  \E x \in T : \A y \in T : x <= y
<1> DEFINE R == OpToRel(<, Nat)
<1>1. \A x, y \in Nat : x < y => <<x, y>> \in R
  BY DEF OpToRel
<1>2. IsWellFoundedOn(R, Nat)
  BY NatLessThanWellFounded
<1> HIDE DEF R
<1>3. PICK x \in T : \A y \in T : ~ (<<y, x>> \in R)
  BY <1>2, WFMin
<1>4. ASSUME NEW y \in T PROVE x <= y
  <2>1. x \in Nat /\ y \in Nat
    OBVIOUS
  <2>2. ~(y < x)
    BY <2>1, <1>1, <1>3
  <2> QED BY <2>1, <2>2
<1> QED BY <1>4

(* Induction, with the property as a set.                                  *)
LEMMA NumberByNumber ==
  ASSUME NEW T, 0 \in T, \A n \in Nat : n \in T => n + 1 \in T
  PROVE  Nat \subseteq T
<1> SUFFICES ASSUME Nat \ T # {} PROVE FALSE
  OBVIOUS
<1>1. PICK n \in Nat \ T : \A m \in Nat \ T : n <= m
  BY LeastOf
<1>2. n # 0 /\ n - 1 \in Nat /\ (n - 1) + 1 = n /\ ~(n <= n - 1)
  BY <1>1
<1>3. n - 1 \in T
  BY <1>1, <1>2
<1> QED BY <1>1, <1>2, <1>3

LEMMA OneByOne ==
  ASSUME NEW S, NEW T, << >> \in T,
         \A s \in Seq(S) : \A b \in S : s \in T => Append(s, b) \in T
  PROVE  Seq(S) \subseteq T
<1> DEFINE U == {n \in Nat : \A s \in Seq(S) : Len(s) = n => s \in T}
<1>1. 0 \in U
  BY EmptySeq
<1>2. ASSUME NEW n \in Nat, n \in U, NEW s \in Seq(S), Len(s) = n + 1
      PROVE  s \in T
  <2>1. s # << >>
    BY <1>2, EmptySeq
  <2>2. PICK r \in Seq(S), b \in S : s = Append(r, b)
    BY <2>1, SequenceEmptyOrAppend
  <2>3. Len(r) \in Nat /\ Len(s) = Len(r) + 1
    BY <2>2, AppendProperties, LenProperties
  <2>4. Len(r) = n
    BY <1>2, <2>3
  <2>5. r \in T
    BY <1>2, <2>4
  <2> QED BY <2>2, <2>5
<1>3. \A n \in Nat : n \in U => n + 1 \in U
  BY <1>2
<1>4. Nat \subseteq U
  <2> HIDE DEF U
  <2> QED BY <1>1, <1>3, NumberByNumber
<1> QED BY <1>4, LenProperties

(* A function that goes through the numbers up to a bound exists.  Where   *)
(* the model has such a recursive function, its steps are taken one by one.*)
Steps(S, K) == [S \X (1..K) -> S]

GoesThrough(f, S, K, base, step) ==
  /\ f \in [0..K -> S] /\ f[0] = base
  /\ \A n \in 1..K : f[n] = step[<<f[n - 1], n>>]

LEMMA RecursionExists ==
  ASSUME NEW S, NEW K \in Nat, NEW base \in S, NEW step \in Steps(S, K)
  PROVE  \E f : GoesThrough(f, S, K, base, step)
<1> USE DEF Steps
<1> DEFINE Upto(k, f) == f[0] = base /\ \A n \in 1..k : f[n] = step[<<f[n - 1], n>>]
           T == {k \in Nat : k <= K => \E f \in [0..k -> S] : Upto(k, f)}
<1>1. 0 \in T
  <2> DEFINE f == [n \in 0..0 |-> base]
  <2>1. f \in [0..0 -> S] /\ f[0] = base /\ 1..0 = {}
    OBVIOUS
  <2> HIDE DEF f
  <2> QED BY <2>1
<1>2. ASSUME NEW k \in Nat, k \in T, k + 1 <= K
      PROVE  \E f \in [0..(k + 1) -> S] : Upto(k + 1, f)
  <2>0. k <= K
    BY <1>2
  <2>1. PICK f \in [0..k -> S] : Upto(k, f)
    BY <1>2, <2>0
  <2> DEFINE x == step[<<f[k], k + 1>>]
             g == [n \in 0..(k + 1) |-> IF n = k + 1 THEN x ELSE f[n]]
  <2>2. x \in S
    <3>1. f[k] \in S /\ k + 1 \in 1..K
      BY <1>2
    <3> QED BY <3>1
  <2>3. \A n \in 0..(k + 1) : g[n] = IF n = k + 1 THEN x ELSE f[n]
    OBVIOUS
  <2>4. g \in [0..(k + 1) -> S]
    <3>1. \A n \in 0..(k + 1) : n # k + 1 => f[n] \in S
      OBVIOUS
    <3> QED BY <2>2, <3>1
  <2> HIDE DEF g
  <2>5. g[0] = base
    BY <2>1, <2>3
  <2>6. ASSUME NEW n \in 1..(k + 1)
        PROVE  g[n] = step[<<g[n - 1], n>>]
    <3>1. n \in 0..(k + 1) /\ n - 1 \in 0..(k + 1) /\ n - 1 # k + 1
      OBVIOUS
    <3>2. g[n - 1] = f[n - 1]
      BY <2>3, <3>1
    <3>3. CASE n = k + 1
      <4>1. n - 1 = k
        BY <3>3
      <4> QED BY <2>3, <3>1, <3>2, <3>3, <4>1 DEF x
    <3>4. CASE n # k + 1
      <4>1. n \in 1..k
        BY <3>4
      <4> QED BY <2>1, <2>3, <3>1, <3>2, <3>4, <4>1
    <3> QED BY <3>3, <3>4
  <2> QED BY <2>4, <2>5, <2>6
<1>3. Nat \subseteq T
  <2>1. \A k \in Nat : k \in T => k + 1 \in T
    BY <1>2
  <2> HIDE DEF T
  <2> QED BY <1>1, <2>1, NumberByNumber
<1>4. K \in T /\ K <= K
  BY <1>3
<1> QED BY <1>4 DEF GoesThrough
LEMMA PrefixByComponents ==
  ASSUME NEW p \in Paths, NEW q \in Paths
  PROVE  IsPrefix(p, q) <=>
           /\ Len(p) <= Len(q)
           /\ \A i \in 1..Len(p) : p[i] = q[i]
<1>1. ASSUME IsPrefix(p, q)
      PROVE  Len(p) <= Len(q) /\ \A i \in 1..Len(p) : p[i] = q[i]
  <2>1. Len(p) <= Len(q) /\ SubSeq(p, 1, Len(p)) = SubSeq(q, 1, Len(p))
    BY <1>1 DEF IsPrefix
  <2>2. ASSUME NEW i \in 1..Len(p)
        PROVE  p[i] = q[i]
    <3>1. SubSeq(p, 1, Len(p))[i] = p[i] /\ SubSeq(q, 1, Len(p))[i] = q[i]
      BY <2>1 DEF Paths
    <3> QED BY <2>1, <3>1
  <2> QED BY <2>1, <2>2
<1>2. ASSUME Len(p) <= Len(q), \A i \in 1..Len(p) : p[i] = q[i]
      PROVE  IsPrefix(p, q)
  <2>1. SubSeq(p, 1, Len(p)) = SubSeq(q, 1, Len(p))
    BY <1>2 DEF Paths
  <2> QED BY <1>2, <2>1 DEF IsPrefix
<1> QED BY <1>1, <1>2

(* What stands between a path and one below it is below it as well.        *)
LEMMA NothingBetween ==
  ASSUME NEW p \in Paths, NEW q \in Paths, NEW r \in Paths,
         Precedes(p, q), Precedes(q, r), IsPrefix(p, r)
  PROVE  IsPrefix(p, q)
<1> USE NamesAssumption DEF Paths
<1>1. Len(p) \in Nat /\ Len(q) \in Nat /\ Len(r) \in Nat
  OBVIOUS
<1>2. /\ DOMAIN p = 1..Len(p) /\ DOMAIN q = 1..Len(q) /\ DOMAIN r = 1..Len(r)
      /\ \A i \in 1..Len(p) : p[i] \in Nat
      /\ \A i \in 1..Len(q) : q[i] \in Nat
      /\ \A i \in 1..Len(r) : r[i] \in Nat
  <2>1. \A s \in Seq(Names) : DOMAIN s = 1..Len(s) /\ \A i \in 1..Len(s) : s[i] \in Names
    OBVIOUS
  <2> QED BY <2>1
<1>3. Len(p) <= Len(r) /\ \A i \in 1..Len(p) : p[i] = r[i]
  BY PrefixByComponents
<1>4. SUFFICES ASSUME ~IsPrefix(p, q) PROVE FALSE
  OBVIOUS
<1>5. PICK i \in DOMAIN p \cap DOMAIN q :
        p[i] < q[i] /\ \A j \in 1..(i - 1) : p[j] = q[j]
  BY <1>4 DEF Precedes
<1>6. i \in 1..Len(p) /\ i \in 1..Len(q) /\ r[i] = p[i]
  BY <1>2, <1>3, <1>5
<1>7. CASE IsPrefix(q, r)
  <2>1. q[i] = r[i]
    BY <1>6, <1>7, PrefixByComponents
  <2> QED BY <1>2, <1>5, <1>6, <2>1
<1>8. CASE ~IsPrefix(q, r)
  <2>1. PICK k \in DOMAIN q \cap DOMAIN r :
          q[k] < r[k] /\ \A j \in 1..(k - 1) : q[j] = r[j]
    BY <1>8 DEF Precedes
  <2>2. k \in 1..Len(q) /\ k \in 1..Len(r)
    BY <1>2, <2>1
  <2>3. CASE i < k
    <3>1. q[i] = r[i]
      BY <1>6, <2>1, <2>2, <2>3
    <3> QED BY <1>2, <1>5, <1>6, <3>1
  <2>4. CASE i = k
    <3>1. q[i] < r[i] /\ p[i] < q[i] /\ r[i] = p[i]
      BY <1>5, <1>6, <2>1, <2>4
    <3> QED BY <1>2, <1>6, <2>2, <3>1
  <2>5. CASE k < i
    <3>1. p[k] = q[k] /\ k \in 1..Len(p)
      BY <1>1, <1>5, <1>6, <2>2, <2>5
    <3>2. q[k] = r[k]
      BY <1>3, <3>1
    <3> QED BY <1>2, <2>1, <2>2, <3>2
  <2> QED BY <1>6, <2>2, <2>3, <2>4, <2>5
<1> QED BY <1>7, <1>8

(* A prefix stands before what it is a prefix of, and two paths that stand *)
(* before each other are the same as far as overlap goes.                  *)
LEMMA PrefixBothWays ==
  ASSUME NEW p \in Paths, NEW q \in Paths, Precedes(p, q), IsPrefix(q, p)
  PROVE  IsPrefix(p, q)
<1>1. IsPrefix(p, p)
  BY PrefixByComponents DEF Paths
<1>2. Precedes(q, p)
  BY DEF Precedes
<1> QED BY <1>1, <1>2, NothingBetween

(* The roots of a configuration are compared with their neighbours in the  *)
(* order only (config.rs:265-273); still no root is equal to, or inside,   *)
(* any other one, however many there are.                                  *)
THEOREM NeighboursSuffice ==
  ASSUME NEW paths \in Seq(Paths), Ordered(paths), NeighboursApart(paths),
         NEW i \in DOMAIN paths, NEW j \in DOMAIN paths, i # j
  PROVE  ~IsPrefix(paths[i], paths[j])
<1>1. /\ DOMAIN paths = 1..Len(paths) /\ Len(paths) \in Nat
      /\ \A k \in 1..Len(paths) : paths[k] \in Paths
  OBVIOUS
<1>2. ASSUME NEW k \in DOMAIN paths, NEW l \in DOMAIN paths, k < l
      PROVE  ~IsPrefix(paths[k], paths[l])
  <2>1. k + 1 \in DOMAIN paths /\ k \in 1..(Len(paths) - 1)
    BY <1>1, <1>2
  <2>2. ~IsPrefix(paths[k], paths[k + 1])
    BY <2>1 DEF NeighboursApart
  <2>3. CASE k + 1 = l
    BY <2>2, <2>3
  <2>4. CASE k + 1 # l
    <3>1. Precedes(paths[k], paths[k + 1]) /\ Precedes(paths[k + 1], paths[l])
      BY <1>1, <1>2, <2>1, <2>4 DEF Ordered
    <3> QED BY <1>1, <2>1, <2>2, <3>1, NothingBetween
  <2> QED BY <2>3, <2>4
<1>3. CASE i < j
  BY <1>2, <1>3
<1>4. CASE j < i
  <2>1. ~IsPrefix(paths[j], paths[i])
    BY <1>2, <1>4
  <2>2. Precedes(paths[j], paths[i])
    BY <1>4 DEF Ordered
  <2> QED BY <1>1, <2>1, <2>2, PrefixBothWays
<1> QED BY <1>1, <1>3, <1>4

-----------------------------------------------------------------------------
(* Two prefixes of one path are prefixes of each other, one way or both.   *)
LEMMA PrefixesCompare ==
  ASSUME NEW p \in Paths, NEW q \in Paths, NEW r \in Paths,
         IsPrefix(p, r), IsPrefix(q, r)
  PROVE  IsPrefix(p, q) \/ IsPrefix(q, p)
<1>1. Len(p) \in Nat /\ Len(q) \in Nat
  BY DEF Paths
<1>2. /\ \A i \in 1..Len(p) : p[i] = r[i]
      /\ \A i \in 1..Len(q) : q[i] = r[i]
  BY PrefixByComponents
<1>3. CASE Len(p) <= Len(q)
  <2>1. \A i \in 1..Len(p) : p[i] = q[i]
    BY <1>1, <1>2, <1>3
  <2> QED BY <1>3, <2>1, PrefixByComponents
<1>4. CASE Len(q) <= Len(p)
  <2>1. \A i \in 1..Len(q) : q[i] = p[i]
    BY <1>1, <1>2, <1>4
  <2> QED BY <1>4, <2>1, PrefixByComponents
<1> QED BY <1>1, <1>3, <1>4

LEMMA PrefixTransitive ==
  ASSUME NEW p \in Paths, NEW q \in Paths, NEW r \in Paths,
         IsPrefix(p, q), IsPrefix(q, r)
  PROVE  IsPrefix(p, r)
<1>1. /\ Len(p) \in Nat /\ Len(q) \in Nat /\ Len(r) \in Nat
      /\ Len(p) <= Len(q) /\ Len(q) <= Len(r)
  BY PrefixByComponents DEF Paths
<1>2. /\ \A i \in 1..Len(p) : p[i] = q[i]
      /\ \A i \in 1..Len(q) : q[i] = r[i]
  BY PrefixByComponents
<1>3. \A i \in 1..Len(p) : p[i] = r[i]
  BY <1>1, <1>2
<1> QED BY <1>1, <1>3, PrefixByComponents

(* The rest of a path below one of its prefixes.                           *)
LEMMA RelativeIs ==
  ASSUME NEW root, root.path \in Paths, NEW p \in Paths, IsPrefix(root.path, p)
  PROVE  /\ Relative(root, p) \in Paths
         /\ Len(Relative(root, p)) = Len(p) - Len(root.path)
         /\ Len(p) - Len(root.path) \in Nat
         /\ \A i \in 1..(Len(p) - Len(root.path)) :
              Relative(root, p)[i] = p[Len(root.path) + i]
<1> DEFINE m == Len(root.path) + 1
           n == Len(p)
<1>1. /\ Len(root.path) \in Nat /\ n \in Nat /\ Len(root.path) <= n
      /\ m \in Int /\ n \in Int /\ m >= 1
      /\ n - m + 1 = n - Len(root.path)
  BY PrefixByComponents DEF Paths
<1>2. \A i \in m..n : p[i] \in Names
  BY <1>1, ElementOfSeq DEF Paths
<1>3. Relative(root, p) = SubSeq(p, m, n)
  BY DEF Relative
<1> HIDE DEF m, n
<1>4. /\ SubSeq(p, m, n) \in Seq(Names)
      /\ Len(SubSeq(p, m, n)) = IF m <= n THEN n - m + 1 ELSE 0
      /\ \A i \in 1..(n - m + 1) : SubSeq(p, m, n)[i] = p[m + i - 1]
  BY <1>1, <1>2, SubSeqProperties
<1>5. Len(SubSeq(p, m, n)) = n - Len(root.path)
  <2>1. CASE m <= n
    BY <1>1, <1>4, <2>1
  <2>2. CASE ~(m <= n)
    <3>1. n - Len(root.path) = 0
      BY <1>1, <2>2 DEF m
    <3> QED BY <1>4, <2>2, <3>1
  <2> QED BY <2>1, <2>2
<1>6. ASSUME NEW i \in 1..(n - Len(root.path))
      PROVE  Relative(root, p)[i] = p[Len(root.path) + i]
  <2>1. m + i - 1 = Len(root.path) + i
    BY <1>1 DEF m
  <2>2. i \in 1..(n - m + 1)
    BY <1>1
  <2>3. SubSeq(p, m, n)[i] = p[m + i - 1]
    BY <1>4, <2>2
  <2> QED BY <1>3, <2>1, <2>3
<1>7. n - Len(root.path) \in Nat
  BY <1>1
<1> QED BY <1>3, <1>4, <1>5, <1>6, <1>7 DEF n, Paths

(* An exclusion is kept, or one above it of the same root is: what Reduce  *)
(* makes of a list.                                                        *)
Covers(exact, exclusions) ==
  /\ exact \subseteq exclusions
  /\ \A e \in exclusions : \E k \in exact : k.id = e.id /\ IsPrefix(k.path, e.path)

(* Dropping an exclusion below another one excludes the same paths.        *)
LEMMA CoveringExcludes ==
  ASSUME NEW exclusions, \A e \in exclusions : e.path \in Paths,
         NEW exact, Covers(exact, exclusions)
  PROVE  \A id : \A rel \in Paths :
           (\E e \in exact : e.id = id /\ IsPrefix(e.path, rel))
             <=> (\E e \in exclusions : e.id = id /\ IsPrefix(e.path, rel))
<1> TAKE id
<1> TAKE rel \in Paths
<1>1. ASSUME NEW e \in exclusions, e.id = id, IsPrefix(e.path, rel)
      PROVE  \E k \in exact : k.id = id /\ IsPrefix(k.path, rel)
  <2>1. PICK k \in exact : k.id = e.id /\ IsPrefix(k.path, e.path)
    BY DEF Covers
  <2>2. k.path \in Paths /\ e.path \in Paths
    BY DEF Covers
  <2> QED BY <1>1, <2>1, <2>2, PrefixTransitive
<1> QED BY <1>1 DEF Covers

(* What the configuration says of a path, read directly: it is below a     *)
(* root, below no exclusion of that root, and has no component behind the  *)
(* root that is excluded everywhere.                                       *)
Asked(roots, exclusions, recursive, p) ==
  \E i \in DOMAIN roots :
    /\ IsPrefix(roots[i].path, p) /\ roots[i].path # p
    /\ \A e \in exclusions :
         e.id = roots[i].id => ~IsPrefix(e.path, Relative(roots[i], p))
    /\ \A k \in (Len(roots[i].path) + 1)..Len(p) : p[k] \notin recursive

(* A path is looked up in the sorted roots and the reduced exclusions,     *)
(* from the path upwards to the first root (config.rs:239-371,             *)
(* capture.rs:57-133).  Whatever the roots, the exclusions and the path,   *)
(* that gives it a key exactly if the configuration asks for it, and never *)
(* two.  That sorting and reducing give such roots and exclusions is       *)
(* RootsSorted and ReduceCovers.                                           *)
THEOREM LookupIsExact ==
  ASSUME NEW Ids, NEW roots \in Seq([id : Ids, path : Paths]),
         Ordered(PathsOf(roots)), NeighboursApart(PathsOf(roots)),
         NEW exclusions, \A e \in exclusions : e.path \in Paths,
         NEW exact, Covers(exact, exclusions), NEW recursive, NEW p \in Paths
  PROVE  LET made == [roots |-> roots, exact |-> exact, recursive |-> recursive]
         IN  /\ Locate(made, p) # {} <=> Asked(roots, exclusions, recursive, p)
             /\ \A k, l \in Locate(made, p) : k = l
<1> DEFINE made == [roots |-> roots, exact |-> exact, recursive |-> recursive]
           Key(i) == [id |-> roots[i].id, relative |-> Relative(roots[i], p)]
           Has(i) == /\ Relative(roots[i], p) # << >>
                     /\ ~Excluded(made, roots[i].id, Relative(roots[i], p))
<1>1. /\ DOMAIN roots = 1..Len(roots) /\ Len(roots) \in Nat
      /\ \A i \in DOMAIN roots : roots[i].path \in Paths
  <2>1. \A i \in 1..Len(roots) : roots[i] \in [id : Ids, path : Paths]
    BY ElementOfSeq
  <2> QED BY <2>1, LenProperties
<1>2. PathsOf(roots) \in Seq(Paths) /\ DOMAIN PathsOf(roots) = DOMAIN roots
  BY <1>1 DEF PathsOf
<1>3. ASSUME NEW i \in DOMAIN roots, NEW j \in DOMAIN roots,
             IsPrefix(roots[i].path, p), IsPrefix(roots[j].path, p)
      PROVE  i = j
  <2>1. IsPrefix(roots[i].path, roots[j].path) \/ IsPrefix(roots[j].path, roots[i].path)
    BY <1>1, <1>3, PrefixesCompare
  <2>2. PathsOf(roots)[i] = roots[i].path /\ PathsOf(roots)[j] = roots[j].path
    BY DEF PathsOf
  <2> QED BY <1>2, <2>1, <2>2, NeighboursSuffice
<1>4. Find(roots, p) = {i \in DOMAIN roots : IsPrefix(roots[i].path, p)}
  <2>1. \A i \in DOMAIN roots : Len(roots[i].path) \in Nat
    BY <1>1 DEF Paths
  <2> QED BY <1>3, <2>1 DEF Find
<1>5. Locate(made, p) = {Key(i) : i \in {k \in Find(roots, p) : Has(k)}}
  BY DEF Locate
<1>6. ASSUME NEW i \in DOMAIN roots, IsPrefix(roots[i].path, p)
      PROVE  Has(i) <=>
               /\ roots[i].path # p
               /\ \A e \in exclusions :
                    e.id = roots[i].id => ~IsPrefix(e.path, Relative(roots[i], p))
               /\ \A k \in (Len(roots[i].path) + 1)..Len(p) : p[k] \notin recursive
  <2> DEFINE rel == Relative(roots[i], p)
             m == Len(roots[i].path)
  <2>1. /\ rel \in Paths /\ Len(rel) = Len(p) - m /\ Len(p) - m \in Nat
        /\ \A k \in 1..(Len(p) - m) : rel[k] = p[m + k]
        /\ roots[i].path \in Paths /\ m \in Nat /\ Len(p) \in Nat
    BY <1>1, <1>6, RelativeIs DEF Paths
  <2>2. rel # << >> <=> roots[i].path # p
    <3>1. rel = << >> <=> Len(rel) = 0
      BY <2>1, EmptySeq DEF Paths
    <3>2. roots[i].path = p <=> Len(p) = m
      <4>1. \A k \in 1..m : roots[i].path[k] = p[k]
        BY <1>1, <1>6, PrefixByComponents
      <4> QED BY <2>1, <4>1, SeqEqual DEF Paths
    <3> QED BY <2>1, <3>1, <3>2
  <2>3. (\E e \in exact : e.id = roots[i].id /\ IsPrefix(e.path, rel))
          <=> (\E e \in exclusions : e.id = roots[i].id /\ IsPrefix(e.path, rel))
    <3>1. rel \in Paths
      BY <2>1
    <3>2. \A d : \A r \in Paths :
            (\E e \in exact : e.id = d /\ IsPrefix(e.path, r))
              <=> (\E e \in exclusions : e.id = d /\ IsPrefix(e.path, r))
      <4> HIDE DEF rel, m
      <4> QED BY CoveringExcludes
    <3> HIDE DEF rel
    <3> QED BY <3>1, <3>2
  <2>4. (\E k \in DOMAIN rel : rel[k] \in recursive)
          <=> (\E k \in (m + 1)..Len(p) : p[k] \in recursive)
    <3>1. DOMAIN rel = 1..(Len(p) - m)
      BY <2>1, LenProperties DEF Paths
    <3>2. ASSUME NEW k \in (m + 1)..Len(p)
          PROVE  k - m \in 1..(Len(p) - m) /\ rel[k - m] = p[k]
      <4>1. k - m \in 1..(Len(p) - m) /\ m + (k - m) = k
        BY <2>1
      <4> QED BY <2>1, <4>1
    <3>3. ASSUME NEW k \in 1..(Len(p) - m)
          PROVE  m + k \in (m + 1)..Len(p)
      BY <2>1
    <3> HIDE DEF rel, m
    <3> QED BY <2>1, <3>1, <3>2, <3>3
  <2> HIDE DEF rel, m
  <2>5. Excluded(made, roots[i].id, rel) <=>
          \/ \E e \in exclusions : e.id = roots[i].id /\ IsPrefix(e.path, rel)
          \/ \E k \in (m + 1)..Len(p) : p[k] \in recursive
    BY <2>3, <2>4 DEF Excluded
  <2> QED BY <2>2, <2>5 DEF rel, m
<1>7. Locate(made, p) # {} <=> \E i \in DOMAIN roots : IsPrefix(roots[i].path, p) /\ Has(i)
  BY <1>4, <1>5
<1>8. Locate(made, p) # {} <=> Asked(roots, exclusions, recursive, p)
  <2> HIDE DEF Has
  <2> QED BY <1>6, <1>7 DEF Asked
<1>9. \A k, l \in Locate(made, p) : k = l
  BY <1>3, <1>4, <1>5
<1> QED BY <1>8, <1>9
-----------------------------------------------------------------------------
(* The order of paths is one: any two of them compare, and it is           *)
(* transitive.                                                             *)

LEMMA PathFacts ==
  ASSUME NEW p \in Paths
  PROVE  /\ Len(p) \in Nat /\ DOMAIN p = 1..Len(p)
         /\ \A i \in 1..Len(p) : p[i] \in Nat /\ p[i] \in Names
<1>1. \A i \in 1..Len(p) : p[i] \in Names
  BY ElementOfSeq DEF Paths
<1> QED BY <1>1, LenProperties, NamesAssumption DEF Paths

LEMMA PrecedesTotal ==
  ASSUME NEW p \in Paths, NEW q \in Paths
  PROVE  Precedes(p, q) \/ Precedes(q, p)
<1> DEFINE T == {i \in DOMAIN p \cap DOMAIN q : p[i] # q[i]}
<1>1. /\ Len(p) \in Nat /\ DOMAIN p = 1..Len(p) /\ \A i \in 1..Len(p) : p[i] \in Nat
      /\ Len(q) \in Nat /\ DOMAIN q = 1..Len(q) /\ \A i \in 1..Len(q) : q[i] \in Nat
  BY PathFacts
<1>2. CASE T = {}
  <2>1. CASE Len(p) <= Len(q)
    <3>1. \A i \in 1..Len(p) : i \in DOMAIN p \cap DOMAIN q
      BY <1>1, <2>1
    <3>2. IsPrefix(p, q)
      BY <1>2, <2>1, <3>1, PrefixByComponents
    <3> QED BY <3>2 DEF Precedes
  <2>2. CASE Len(q) <= Len(p)
    <3>1. \A i \in 1..Len(q) : i \in DOMAIN p \cap DOMAIN q
      BY <1>1, <2>2
    <3>2. IsPrefix(q, p)
      BY <1>2, <2>2, <3>1, PrefixByComponents
    <3> QED BY <3>2 DEF Precedes
  <2> QED BY <1>1, <2>1, <2>2
<1>3. CASE T # {}
  <2>1. T \subseteq Nat
    BY <1>1
  <2>2. PICK i \in T : \A j \in T : i <= j
    BY <1>3, <2>1, LeastOf
  <2>3. /\ i \in DOMAIN p \cap DOMAIN q /\ p[i] # q[i] /\ i \in 1..Len(p) /\ i \in 1..Len(q)
        /\ p[i] \in Nat /\ q[i] \in Nat
    BY <1>1
  <2>4. \A j \in 1..(i - 1) : p[j] = q[j]
    <3>1. \A j \in 1..(i - 1) : j \in DOMAIN p \cap DOMAIN q /\ ~(i <= j)
      BY <1>1, <2>3
    <3> QED BY <2>2, <3>1
  <2>5. p[i] < q[i] \/ q[i] < p[i]
    BY <2>3
  <2> HIDE DEF T
  <2> QED BY <2>3, <2>4, <2>5 DEF Precedes
<1> QED BY <1>2, <1>3

LEMMA PrecedesTransitive ==
  ASSUME NEW p \in Paths, NEW q \in Paths, NEW r \in Paths,
         Precedes(p, q), Precedes(q, r)
  PROVE  Precedes(p, r)
<1>1. /\ Len(p) \in Nat /\ DOMAIN p = 1..Len(p) /\ \A i \in 1..Len(p) : p[i] \in Nat
      /\ Len(q) \in Nat /\ DOMAIN q = 1..Len(q) /\ \A i \in 1..Len(q) : q[i] \in Nat
      /\ Len(r) \in Nat /\ DOMAIN r = 1..Len(r) /\ \A i \in 1..Len(r) : r[i] \in Nat
  BY PathFacts
<1>2. CASE IsPrefix(p, q) /\ IsPrefix(q, r)
  BY <1>2, PrefixTransitive DEF Precedes
<1>3. CASE ~IsPrefix(p, q)
  <2>1. PICK i \in DOMAIN p \cap DOMAIN q :
          p[i] < q[i] /\ \A j \in 1..(i - 1) : p[j] = q[j]
    BY <1>3 DEF Precedes
  <2>2. i \in 1..Len(p) /\ i \in 1..Len(q)
    BY <1>1, <2>1
  <2>3. CASE IsPrefix(q, r)
    <3>1. Len(q) <= Len(r) /\ \A j \in 1..Len(q) : q[j] = r[j]
      BY <2>3, PrefixByComponents
    <3>2. i \in DOMAIN p \cap DOMAIN r /\ q[i] = r[i]
      BY <1>1, <2>2, <3>1
    <3>3. \A j \in 1..(i - 1) : j \in 1..Len(q)
      BY <1>1, <2>2
    <3>4. \A j \in 1..(i - 1) : p[j] = r[j]
      BY <2>1, <3>1, <3>3
    <3> QED BY <2>1, <3>2, <3>4 DEF Precedes
  <2>4. CASE ~IsPrefix(q, r)
    <3>1. PICK k \in DOMAIN q \cap DOMAIN r :
            q[k] < r[k] /\ \A j \in 1..(k - 1) : q[j] = r[j]
      BY <2>4 DEF Precedes
    <3>2. k \in 1..Len(q) /\ k \in 1..Len(r)
      BY <1>1, <3>1
    <3>3. CASE i <= k
      <4>1. i \in DOMAIN p \cap DOMAIN r
        BY <1>1, <2>2, <3>2, <3>3
      <4>2. p[i] < r[i]
        <5>1. i = k \/ i \in 1..(k - 1)
          BY <2>2, <3>2, <3>3
        <5>2. p[i] \in Nat /\ q[i] \in Nat /\ r[i] \in Nat
          BY <1>1, <2>2, <4>1
        <5> QED BY <2>1, <3>1, <5>1, <5>2
      <4>3. \A j \in 1..(i - 1) : j \in 1..(k - 1)
        BY <2>2, <3>2, <3>3
      <4> QED BY <2>1, <3>1, <4>1, <4>2, <4>3 DEF Precedes
    <3>4. CASE k < i
      <4>1. k \in DOMAIN p \cap DOMAIN r /\ k \in 1..(i - 1)
        BY <1>1, <2>2, <3>2, <3>4
      <4>2. p[k] < r[k]
        BY <2>1, <3>1, <4>1
      <4>3. \A j \in 1..(k - 1) : j \in 1..(i - 1)
        BY <2>2, <3>2, <3>4
      <4> QED BY <2>1, <3>1, <4>1, <4>2, <4>3 DEF Precedes
    <3> QED BY <2>2, <3>2, <3>3, <3>4
  <2> QED BY <2>3, <2>4
<1>4. CASE IsPrefix(p, q) /\ ~IsPrefix(q, r)
  <2>1. Len(p) <= Len(q) /\ \A j \in 1..Len(p) : p[j] = q[j]
    BY <1>4, PrefixByComponents
  <2>2. PICK k \in DOMAIN q \cap DOMAIN r :
          q[k] < r[k] /\ \A j \in 1..(k - 1) : q[j] = r[j]
    BY <1>4 DEF Precedes
  <2>3. k \in 1..Len(q) /\ k \in 1..Len(r)
    BY <1>1, <2>2
  <2>4. CASE k <= Len(p)
    <3>1. k \in DOMAIN p \cap DOMAIN r /\ p[k] = q[k]
      BY <1>1, <2>1, <2>3, <2>4
    <3>2. \A j \in 1..(k - 1) : j \in 1..Len(p)
      BY <1>1, <2>3, <2>4
    <3>3. p[k] < r[k] /\ \A j \in 1..(k - 1) : p[j] = r[j]
      BY <2>1, <2>2, <3>1, <3>2
    <3> QED BY <3>1, <3>3 DEF Precedes
  <2>5. CASE Len(p) < k
    <3>1. Len(p) <= Len(r) /\ \A j \in 1..Len(p) : j \in 1..(k - 1)
      BY <1>1, <2>3, <2>5
    <3>2. \A j \in 1..Len(p) : p[j] = r[j]
      BY <2>1, <2>2, <3>1
    <3>3. IsPrefix(p, r)
      BY <3>1, <3>2, PrefixByComponents
    <3> QED BY <3>3 DEF Precedes
  <2> QED BY <1>1, <2>3, <2>4, <2>5
<1> QED BY <1>2, <1>3, <1>4

-----------------------------------------------------------------------------
(* Sorting.                                                                *)

Places(n) == {f \in [1..n -> 1..n] :
                /\ \A i, j \in 1..n : f[i] = f[j] => i = j
                /\ \A k \in 1..n : \E i \in 1..n : f[i] = k}

InOrder(seq, n, f, order) ==
  \A i, j \in 1..n : i < j => <<seq[f[i]], seq[f[j]]>> \in order

LEMMA PlacesAre == \A n : Places(n) = Bijection(1..n, 1..n)
BY Zenon DEF Places, Bijection, Injection, Surjection, IsInjective

(* A sequence can be sorted by any order in which all elements compare:    *)
(* the last element goes before the first one that may stand behind it.    *)
LEMMA SortingExists ==
  ASSUME NEW X, NEW order,
         \A a, b \in X : <<a, b>> \in order \/ <<b, a>> \in order,
         \A a, b, c \in X :
           <<a, b>> \in order /\ <<b, c>> \in order => <<a, c>> \in order
  PROVE  \A seq \in Seq(X) : \E f \in Places(Len(seq)) : InOrder(seq, Len(seq), f, order)
<1> DEFINE T == {seq \in Seq(X) :
                   \E f \in Places(Len(seq)) : InOrder(seq, Len(seq), f, order)}
<1>1. << >> \in T
  <2> DEFINE f == [i \in 1..0 |-> i]
  <2>1. f \in Places(0) /\ InOrder(<< >>, 0, f, order)
    BY DEF Places, InOrder
  <2> QED BY <2>1, EmptySeq
<1>2. ASSUME NEW s \in Seq(X), NEW b \in X, s \in T
      PROVE  Append(s, b) \in T
  <2>1. PICK f \in Places(Len(s)) : InOrder(s, Len(s), f, order)
    BY <1>2
  <2> DEFINE n == Len(s)
             r == Append(s, b)
             Behind == {i \in 1..(n + 1) : i = n + 1 \/ <<b, s[f[i]]>> \in order}
  <2>2. /\ n \in Nat /\ Len(r) = n + 1 /\ r \in Seq(X)
        /\ \A i \in 1..n : r[i] = s[i] /\ s[i] \in X
        /\ r[n + 1] = b
    BY AppendProperties, LenProperties, ElementOfSeq
  <2>3. PICK k \in Behind : \A i \in Behind : k <= i
    <3>1. Behind \subseteq Nat /\ n + 1 \in Behind
      BY <2>2
    <3> HIDE DEF Behind
    <3> QED BY <3>1, LeastOf
  <2>4. k \in 1..(n + 1) /\ \A i \in 1..(k - 1) : i \notin Behind
    BY <2>2, <2>3
  <2>5. /\ f \in [1..n -> 1..n]
        /\ \A i, j \in 1..n : f[i] = f[j] => i = j
        /\ \A m \in 1..n : \E i \in 1..n : f[i] = m
        /\ \A i, j \in 1..n : i < j => <<s[f[i]], s[f[j]]>> \in order
    BY <2>1 DEF Places, InOrder
  <2>6. \A i \in 1..n : f[i] \in 1..n /\ s[f[i]] \in X /\ r[f[i]] = s[f[i]]
    BY <2>2, <2>5
  <2>7. \A i \in 1..n : i < k => <<s[f[i]], b>> \in order
    <3>1. \A i \in 1..n : i < k => i \in 1..(k - 1) /\ i \in 1..(n + 1)
      BY <2>2, <2>4
    <3> QED BY <2>4, <2>6, <3>1
  <2>8. \A i \in 1..n : k <= i => <<b, s[f[i]]>> \in order
    <3>1. k # n + 1 => k \in 1..n /\ <<b, s[f[k]]>> \in order
      BY <2>2, <2>4
    <3>2. ASSUME NEW i \in 1..n, k <= i
          PROVE  <<b, s[f[i]]>> \in order
      <4>1. k \in 1..n /\ <<b, s[f[k]]>> \in order /\ (k = i \/ k < i)
        BY <2>2, <2>4, <3>1, <3>2
      <4>2. CASE k < i
        <5>1. <<s[f[k]], s[f[i]]>> \in order /\ s[f[k]] \in X /\ s[f[i]] \in X
          BY <2>5, <2>6, <3>2, <4>1, <4>2
        <5> QED BY <4>1, <5>1
      <4> QED BY <4>1, <4>2
    <3> QED BY <3>2
  <2> DEFINE g == [i \in 1..(n + 1) |->
                     IF i < k THEN f[i] ELSE IF i = k THEN n + 1 ELSE f[i - 1]]
  <2>9. /\ \A i \in 1..(n + 1) : i < k => i \in 1..n /\ g[i] = f[i]
        /\ g[k] = n + 1
        /\ \A i \in 1..(n + 1) : k < i => i - 1 \in 1..n /\ g[i] = f[i - 1]
    BY <2>2, <2>4
  <2> HIDE DEF n, r, Behind
  <2>10. g \in [1..(n + 1) -> 1..(n + 1)]
    <3>1. g = [i \in 1..(n + 1) |-> g[i]]
      OBVIOUS
    <3> HIDE DEF g
    <3>2. ASSUME NEW i \in 1..(n + 1) PROVE g[i] \in 1..(n + 1)
      <4>1. \A m \in 1..n : f[m] \in 1..(n + 1)
        BY <2>2, <2>6
      <4>2. i < k \/ i = k \/ k < i
        BY <2>2, <2>4
      <4>3. n + 1 \in 1..(n + 1)
        BY <2>2
      <4> QED BY <2>9, <4>1, <4>2, <4>3
    <3> QED BY <3>1, <3>2
  <2> HIDE DEF g
  <2>11. ASSUME NEW i \in 1..(n + 1), NEW j \in 1..(n + 1), i < j
         PROVE  g[i] # g[j]
    <3>1. CASE j < k
      <4>1. i < k
        BY <2>2, <2>4, <2>11, <3>1
      <4>2. i \in 1..n /\ j \in 1..n /\ g[i] = f[i] /\ g[j] = f[j] /\ i # j
        BY <2>9, <2>11, <3>1, <4>1
      <4> QED BY <2>5, <4>2
    <3>2. CASE j = k
      <4>1. i < k
        BY <2>2, <2>4, <2>11, <3>2
      <4>2. i \in 1..n /\ g[i] = f[i] /\ g[j] = n + 1
        BY <2>9, <3>2, <4>1
      <4>3. f[i] \in 1..n
        BY <2>6, <4>2
      <4> QED BY <2>2, <4>2, <4>3
    <3>3. CASE k < j
      <4>1. j - 1 \in 1..n /\ g[j] = f[j - 1]
        BY <2>9, <3>3
      <4>2. CASE i < k
        <5>1. i \in 1..n /\ g[i] = f[i] /\ i # j - 1
          BY <2>2, <2>4, <2>9, <3>3, <4>2
        <5> QED BY <2>5, <4>1, <5>1
      <4>3. CASE i = k
        <5>1. f[j - 1] \in 1..n
          BY <2>6, <4>1
        <5> QED BY <2>2, <2>9, <4>1, <4>3, <5>1
      <4>4. CASE k < i
        <5>1. i - 1 \in 1..n /\ g[i] = f[i - 1]
          BY <2>9, <4>4
        <5>2. i - 1 # j - 1
          BY <2>11
        <5> QED BY <2>5, <4>1, <5>1, <5>2
      <4> QED BY <2>2, <2>4, <4>2, <4>3, <4>4
    <3> QED BY <2>2, <2>4, <3>1, <3>2, <3>3
  <2>12. ASSUME NEW m \in 1..(n + 1)
         PROVE  \E i \in 1..(n + 1) : g[i] = m
    <3>1. CASE m = n + 1
      BY <2>4, <2>9, <3>1
    <3>2. CASE m # n + 1
      <4>1. m \in 1..n
        BY <2>2, <3>2
      <4>2. PICK i \in 1..n : f[i] = m
        BY <2>5, <4>1
      <4>3. CASE i < k
        <5>1. i \in 1..(n + 1)
          BY <2>2
        <5> QED BY <2>9, <4>2, <4>3, <5>1
      <4>4. CASE ~(i < k)
        <5>1. i + 1 \in 1..(n + 1) /\ k < i + 1 /\ (i + 1) - 1 = i
          BY <2>2, <2>4, <4>4
        <5> QED BY <2>9, <4>2, <5>1
      <4> QED BY <4>3, <4>4
    <3> QED BY <3>1, <3>2
  <2>13. g \in Places(n + 1)
    <3>1. \A i, j \in 1..(n + 1) : g[i] = g[j] => i = j
      <4>1. ASSUME NEW i \in 1..(n + 1), NEW j \in 1..(n + 1), g[i] = g[j], i # j
            PROVE  FALSE
        <5>1. i < j \/ j < i
          BY <2>2, <4>1
        <5> QED BY <2>11, <4>1, <5>1
      <4> QED BY <4>1
    <3> QED BY <2>10, <2>12, <3>1 DEF Places
  <2>14. ASSUME NEW i \in 1..(n + 1), NEW j \in 1..(n + 1), i < j
         PROVE  <<r[g[i]], r[g[j]]>> \in order
    <3>1. CASE j < k
      <4>1. i < k
        BY <2>2, <2>4, <2>14, <3>1
      <4>2. i \in 1..n /\ j \in 1..n /\ g[i] = f[i] /\ g[j] = f[j]
        BY <2>9, <3>1, <4>1
      <4> QED BY <2>5, <2>6, <2>14, <4>2
    <3>2. CASE j = k
      <4>1. i < k
        BY <2>2, <2>4, <2>14, <3>2
      <4>2. i \in 1..n /\ g[i] = f[i] /\ g[j] = n + 1
        BY <2>9, <3>2, <4>1
      <4> QED BY <2>2, <2>6, <2>7, <4>1, <4>2
    <3>3. CASE k < j
      <4>1. j - 1 \in 1..n /\ g[j] = f[j - 1]
        BY <2>9, <3>3
      <4>2. CASE i < k
        <5>1. i \in 1..n /\ g[i] = f[i] /\ i < j - 1
          BY <2>2, <2>4, <2>9, <3>3, <4>2
        <5>2. <<s[f[i]], s[f[j - 1]]>> \in order
          BY <2>5, <4>1, <5>1
        <5>3. r[g[i]] = s[f[i]] /\ r[g[j]] = s[f[j - 1]]
          BY <2>6, <4>1, <5>1
        <5> QED BY <5>2, <5>3
      <4>3. CASE i = k
        <5>1. k <= j - 1 /\ g[i] = n + 1
          BY <2>2, <2>4, <2>9, <3>3, <4>3
        <5> QED BY <2>2, <2>6, <2>8, <4>1, <5>1
      <4>4. CASE k < i
        <5>1. i - 1 \in 1..n /\ g[i] = f[i - 1]
          BY <2>9, <4>4
        <5>2. <<s[f[i - 1]], s[f[j - 1]]>> \in order
          <6>1. i - 1 < j - 1
            BY <2>14
          <6> QED BY <2>5, <4>1, <5>1, <6>1
        <5>3. r[g[i]] = s[f[i - 1]] /\ r[g[j]] = s[f[j - 1]]
          BY <2>6, <4>1, <5>1
        <5> QED BY <5>2, <5>3
      <4> QED BY <2>2, <2>4, <4>2, <4>3, <4>4
    <3> QED BY <2>2, <2>4, <3>1, <3>2, <3>3
  <2>15. InOrder(r, n + 1, g, order)
    BY <2>14 DEF InOrder
  <2> QED BY <2>2, <2>13, <2>15 DEF r
<1>3. Seq(X) \subseteq T
  <2> HIDE DEF T
  <2> QED BY <1>1, <1>2, OneByOne
<1> QED BY <1>3

Arranged(seq, order, places, F) ==
  [i \in places |->
     seq[(CHOOSE f \in F : \A k, j \in places :
            k < j => <<seq[f[k]], seq[f[j]]>> \in order)[i]]]

LEMMA SortedArranges ==
  ASSUME NEW seq, NEW order
  PROVE  Sorted(seq, order) =
           Arranged(seq, order, DOMAIN seq, Bijection(DOMAIN seq, DOMAIN seq))
BY DEF Sorted, Arranged

(* What comes out is a rearrangement in order.                             *)
LEMMA SortedIs ==
  ASSUME NEW X, NEW order, NEW seq \in Seq(X),
         \A a, b \in X : <<a, b>> \in order \/ <<b, a>> \in order,
         \A a, b, c \in X :
           <<a, b>> \in order /\ <<b, c>> \in order => <<a, c>> \in order
  PROVE  LET s == Sorted(seq, order)
         IN  /\ s \in Seq(X) /\ Len(s) = Len(seq) /\ ToSet(s) = ToSet(seq)
             /\ \A i, j \in DOMAIN s : i < j => <<s[i], s[j]>> \in order
             /\ \E f \in Places(Len(seq)) : \A i \in DOMAIN s : s[i] = seq[f[i]]
<1> DEFINE n == Len(seq)
           Right(f) == \A i, j \in 1..n : i < j => <<seq[f[i]], seq[f[j]]>> \in order
           f == CHOOSE f \in Places(n) : Right(f)
           s == [i \in 1..n |-> seq[f[i]]]
<1>1. n \in Nat /\ DOMAIN seq = 1..n /\ \A i \in 1..n : seq[i] \in X
  BY LenProperties, ElementOfSeq
<1>2. Sorted(seq, order) = s
  <2>1. Bijection(1..n, 1..n) = Places(n)
    BY PlacesAre
  <2>2. DOMAIN seq = 1..n
    BY <1>1
  <2>3. Sorted(seq, order) = Arranged(seq, order, DOMAIN seq, Bijection(DOMAIN seq, DOMAIN seq))
    BY SortedArranges
  <2>4. Arranged(seq, order, 1..n, Places(n)) = s
    BY DEF Arranged
  <2> HIDE DEF n, s
  <2> QED BY <2>1, <2>2, <2>3, <2>4
<1>3. f \in Places(n) /\ Right(f)
  <2>1. \E h \in Places(n) : Right(h)
    BY SortingExists DEF InOrder
  <2> HIDE DEF Right
  <2> QED BY <2>1
<1> HIDE DEF f
<1>4. /\ \A i \in 1..n : f[i] \in 1..n
      /\ \A k \in 1..n : \E i \in 1..n : f[i] = k
  BY <1>3 DEF Places
<1>5. s \in Seq(X) /\ Len(s) = n /\ DOMAIN s = 1..n /\ \A i \in 1..n : s[i] = seq[f[i]]
  <2>1. s \in [1..n -> X]
    BY <1>1, <1>4
  <2> QED BY <1>1, <2>1, IsASeq, LenProperties
<1> HIDE DEF s, n
<1>6. ToSet(s) = ToSet(seq)
  <2>1. ASSUME NEW i \in 1..n PROVE s[i] \in ToSet(seq)
    BY <1>1, <1>4, <1>5 DEF ToSet
  <2>2. ASSUME NEW k \in 1..n PROVE seq[k] \in ToSet(s)
    <3>1. PICK i \in 1..n : f[i] = k
      BY <1>4
    <3> QED BY <1>5, <3>1 DEF ToSet
  <2> QED BY <1>1, <1>5, <2>1, <2>2 DEF ToSet
<1>7. \A i, j \in DOMAIN s : i < j => <<s[i], s[j]>> \in order
  BY <1>3, <1>5
<1> QED BY <1>2, <1>3, <1>5, <1>6, <1>7 DEF n

LEMMA OwnElements ==
  ASSUME NEW S, NEW s \in Seq(S)
  PROVE  s \in Seq(ToSet(s)) /\ ToSet(s) \subseteq S
<1>1. Len(s) \in Nat /\ s \in [1..Len(s) -> S] /\ DOMAIN s = 1..Len(s)
  BY LenProperties
<1> DEFINE X == ToSet(s)
<1>2. s \in [1..Len(s) -> X] /\ X \subseteq S
  BY <1>1 DEF ToSet
<1> HIDE DEF X
<1>3. s \in Seq(X)
  BY <1>1, <1>2, SeqDef
<1> QED BY <1>2, <1>3 DEF X

(* Roots are sorted by their paths.                                        *)
LEMMA RootsSorted ==
  ASSUME NEW roots \in Seq([id : Nat, path : Paths])
  PROVE  LET s == SortRoots(roots)
         IN  /\ s \in Seq([id : Nat, path : Paths]) /\ Len(s) = Len(roots)
             /\ ToSet(s) = ToSet(roots)
             /\ Ordered(PathsOf(s))
             /\ \E f \in Places(Len(roots)) : \A i \in DOMAIN s : s[i] = roots[f[i]]
<1> DEFINE X == ToSet(roots)
           order == {ab \in X \X X : Precedes(ab[1].path, ab[2].path)}
           s == SortRoots(roots)
<1>1. roots \in Seq(X) /\ X \subseteq [id : Nat, path : Paths]
  BY OwnElements
<1>2. \A a, b \in X : <<a, b>> \in order <=> Precedes(a.path, b.path)
  OBVIOUS
<1>3. s = Sorted(roots, order)
  BY DEF SortRoots
<1> HIDE DEF X, order, s
<1>4. \A a \in X : a.path \in Paths
  BY <1>1
<1>5. \A a, b \in X : <<a, b>> \in order \/ <<b, a>> \in order
  BY <1>2, <1>4, PrecedesTotal
<1>6. \A a, b, c \in X : <<a, b>> \in order /\ <<b, c>> \in order => <<a, c>> \in order
  BY <1>2, <1>4, PrecedesTransitive
<1>7. /\ s \in Seq(X) /\ Len(s) = Len(roots) /\ ToSet(s) = ToSet(roots)
      /\ \A i, j \in DOMAIN s : i < j => <<s[i], s[j]>> \in order
      /\ \E f \in Places(Len(roots)) : \A i \in DOMAIN s : s[i] = roots[f[i]]
  <2>1. LET t == Sorted(roots, order)
        IN  /\ t \in Seq(X) /\ Len(t) = Len(roots) /\ ToSet(t) = ToSet(roots)
            /\ \A i, j \in DOMAIN t : i < j => <<t[i], t[j]>> \in order
            /\ \E f \in Places(Len(roots)) : \A i \in DOMAIN t : t[i] = roots[f[i]]
    BY <1>1, <1>5, <1>6, SortedIs
  <2> QED BY <1>3, <2>1, Zenon
<1>8. s \in Seq([id : Nat, path : Paths])
  BY <1>1, <1>7, SeqMonotonic
<1>9. Ordered(PathsOf(s))
  <2>1. \A i \in DOMAIN s : s[i] \in X
    BY <1>7, ElementOfSeq, LenProperties
  <2>2. DOMAIN PathsOf(s) = DOMAIN s /\ \A i \in DOMAIN s : PathsOf(s)[i] = s[i].path
    BY DEF PathsOf
  <2>3. \A i, j \in DOMAIN s : i < j => Precedes(s[i].path, s[j].path)
    BY <1>2, <1>7, <2>1
  <2> QED BY <2>2, <2>3 DEF Ordered
<1> QED BY <1>7, <1>8, <1>9 DEF s

(* Exclusions are sorted by the ids of their roots, then by their paths.   *)
LEMMA ExclusionsSorted ==
  ASSUME NEW exclusions \in Seq([id : Nat, path : Paths])
  PROVE  LET s == SortExclusions(exclusions)
         IN  s \in Seq([id : Nat, path : Paths]) /\ ToSet(s) = ToSet(exclusions)
<1> DEFINE X == ToSet(exclusions)
           Before(a, b) == \/ a.id < b.id
                           \/ a.id = b.id /\ Precedes(a.path, b.path)
           order == {ab \in X \X X : \/ ab[1].id < ab[2].id
                                     \/ ab[1].id = ab[2].id /\ Precedes(ab[1].path, ab[2].path)}
           s == SortExclusions(exclusions)
<1>1. exclusions \in Seq(X) /\ X \subseteq [id : Nat, path : Paths]
  BY OwnElements
<1>2. \A a, b \in X : <<a, b>> \in order <=> Before(a, b)
  OBVIOUS
<1>3. s = Sorted(exclusions, order)
  BY DEF SortExclusions
<1> HIDE DEF X, order, s
<1>4. \A a \in X : a.path \in Paths /\ a.id \in Nat
  BY <1>1
<1>5. \A a, b \in X : Before(a, b) \/ Before(b, a)
  BY <1>4, PrecedesTotal
<1>6. ASSUME NEW a \in X, NEW b \in X, NEW c \in X, Before(a, b), Before(b, c)
      PROVE  Before(a, c)
  <2>1. a.id < c.id \/ (a.id = b.id /\ b.id = c.id)
    BY <1>4, <1>6
  <2>2. ASSUME a.id = b.id, b.id = c.id PROVE Precedes(a.path, c.path)
    <3>1. Precedes(a.path, b.path) /\ Precedes(b.path, c.path)
      BY <1>4, <1>6, <2>2
    <3> QED BY <1>4, <3>1, PrecedesTransitive
  <2> QED BY <2>1, <2>2
<1> HIDE DEF Before
<1>7. s \in Seq(X) /\ ToSet(s) = ToSet(exclusions)
  <2>1. \A a, b \in X : <<a, b>> \in order \/ <<b, a>> \in order
    BY <1>2, <1>5
  <2>2. \A a, b, c \in X : <<a, b>> \in order /\ <<b, c>> \in order => <<a, c>> \in order
    BY <1>2, <1>6
  <2> QED BY <1>1, <1>3, <2>1, <2>2, SortedIs
<1> QED BY <1>1, <1>7, SeqMonotonic DEF s

-----------------------------------------------------------------------------
(* Reducing.                                                               *)

IsKeeping(f, s) ==
  f = [n \in 0..Len(s) |-> IF n = 0 THEN {} ELSE Keep(f[n - 1], s[n])]

LEMMA ReduceIs ==
  ASSUME NEW exclusions
  PROVE  LET s == SortExclusions(exclusions)
         IN  Reduce(exclusions) = (CHOOSE f : IsKeeping(f, s))[Len(s)]
BY DEF Reduce, IsKeeping

LEMMA KeepingExists ==
  ASSUME NEW X, NEW s \in Seq(X)
  PROVE  \E f : IsKeeping(f, s)
<1> DEFINE K == Len(s)
           S == SUBSET X
           base == {}
           step == [kn \in S \X (1..K) |-> Keep(kn[1], s[kn[2]])]
<1>1. K \in Nat /\ \A n \in 1..K : s[n] \in X
  BY LenProperties, ElementOfSeq
<1>2. step \in Steps(S, K) /\ base \in S
  BY <1>1 DEF Keep, Steps
<1>3. \A kept \in S : \A n \in 1..K : step[<<kept, n>>] = Keep(kept, s[n])
  OBVIOUS
<1> HIDE DEF K, S, base, step
<1>4. PICK f : GoesThrough(f, S, K, base, step)
  BY <1>1, <1>2, RecursionExists
<1>5. ASSUME NEW n \in 0..K
      PROVE  f[n] = IF n = 0 THEN {} ELSE Keep(f[n - 1], s[n])
  <2>1. CASE n = 0
    BY <1>4, <2>1 DEF base, GoesThrough
  <2>2. CASE n # 0
    <3>1. n \in 1..K /\ n - 1 \in 0..K
      BY <1>1, <2>2
    <3> QED BY <1>3, <1>4, <2>2, <3>1 DEF GoesThrough
  <2> QED BY <2>1, <2>2
<1>6. f = [n \in 0..K |-> IF n = 0 THEN {} ELSE Keep(f[n - 1], s[n])]
  <2>1. f = [n \in 0..K |-> f[n]]
    BY <1>4 DEF GoesThrough
  <2> QED BY <1>5, <2>1, Zenon
<1> QED BY <1>6 DEF IsKeeping, K

LEMMA ReduceCovers ==
  ASSUME NEW exclusions \in Seq([id : Nat, path : Paths])
  PROVE  Covers(Reduce(exclusions), ToSet(exclusions))
<1> DEFINE s == SortExclusions(exclusions)
           f == CHOOSE f : IsKeeping(f, s)
           Above(k, e) == k.id = e.id /\ IsPrefix(k.path, e.path)
<1>1. /\ s \in Seq([id : Nat, path : Paths]) /\ ToSet(s) = ToSet(exclusions)
      /\ Len(s) \in Nat /\ DOMAIN s = 1..Len(s)
      /\ \A i \in 1..Len(s) : s[i].path \in Paths
  <2>1. s \in Seq([id : Nat, path : Paths]) /\ ToSet(s) = ToSet(exclusions)
    BY ExclusionsSorted
  <2> HIDE DEF s
  <2>2. \A i \in 1..Len(s) : s[i] \in [id : Nat, path : Paths]
    BY <2>1, ElementOfSeq
  <2> QED BY <2>1, <2>2, LenProperties
<1>2. IsKeeping(f, s)
  <2>1. \E h : IsKeeping(h, s)
    BY <1>1, KeepingExists
  <2> HIDE DEF s
  <2> QED BY <2>1
<1>3. Reduce(exclusions) = f[Len(s)]
  BY ReduceIs
<1> HIDE DEF f, s
<1>4. f[0] = {} /\ \A n \in 1..Len(s) : f[n] = Keep(f[n - 1], s[n])
  <2>1. f = [n \in 0..Len(s) |-> IF n = 0 THEN {} ELSE Keep(f[n - 1], s[n])]
    BY <1>2 DEF IsKeeping
  <2>2. 0 \in 0..Len(s)
    BY <1>1
  <2>3. f[0] = {}
    BY <2>1, <2>2, Zenon
  <2>4. ASSUME NEW n \in 1..Len(s) PROVE f[n] = Keep(f[n - 1], s[n])
    <3>1. n \in 0..Len(s) /\ n # 0
      BY <1>1
    <3> QED BY <2>1, <3>1, Zenon
  <2> QED BY <2>3, <2>4
<1> DEFINE T == {n \in Nat : n <= Len(s) =>
                   /\ f[n] \subseteq ToSet(s)
                   /\ \A i \in 1..n : \E k \in f[n] : Above(k, s[i])}
<1>5. 0 \in T
  BY <1>4
<1>6. ASSUME NEW n \in Nat, n \in T, n + 1 <= Len(s)
      PROVE  /\ f[n + 1] \subseteq ToSet(s)
             /\ \A i \in 1..(n + 1) : \E k \in f[n + 1] : Above(k, s[i])
  <2> DEFINE e == s[n + 1]
  <2>1. n + 1 \in 1..Len(s) /\ (n + 1) - 1 = n /\ n <= Len(s)
    BY <1>1, <1>6
  <2>2. f[n + 1] = Keep(f[n], e)
    BY <1>4, <2>1
  <2>3. f[n] \subseteq ToSet(s) /\ \A i \in 1..n : \E k \in f[n] : Above(k, s[i])
    BY <1>6, <2>1
  <2>4. e \in ToSet(s) /\ e.path \in Paths
    BY <1>1, <2>1 DEF ToSet
  <2>5. Above(e, e)
    BY <2>4, PathFacts, PrefixByComponents
  <2> HIDE DEF e, Above
  <2>6. f[n] \subseteq f[n + 1] /\ f[n + 1] \subseteq f[n] \cup {e}
    BY <2>2 DEF Keep
  <2>7. \E k \in f[n + 1] : Above(k, e)
    BY <2>2, <2>5 DEF Keep, Above
  <2>8. \A i \in 1..(n + 1) : i \in 1..n \/ i = n + 1
    OBVIOUS
  <2> QED BY <2>3, <2>4, <2>6, <2>7, <2>8 DEF e
<1>7. Nat \subseteq T
  <2>1. \A n \in Nat : n \in T => n + 1 \in T
    BY <1>6
  <2> HIDE DEF T
  <2> QED BY <1>5, <2>1, NumberByNumber
<1>8. /\ f[Len(s)] \subseteq ToSet(s)
      /\ \A i \in 1..Len(s) : \E k \in f[Len(s)] : Above(k, s[i])
  <2>1. Len(s) \in T /\ Len(s) <= Len(s)
    BY <1>1, <1>7
  <2> QED BY <2>1
<1>9. \A e \in ToSet(s) : \E k \in f[Len(s)] : Above(k, e)
  BY <1>1, <1>8 DEF ToSet
<1> QED BY <1>1, <1>3, <1>8, <1>9 DEF Covers

-----------------------------------------------------------------------------
(* Paths as they are written, and what they are made into.                 *)

LEMMA FrontProperties ==
  ASSUME NEW S, NEW p \in Seq(S)
  PROVE  /\ Front1(p) \in Seq(S)
         /\ p # << >> => /\ Front1(p) = Front(p) /\ Last(p) \in S
                         /\ Len(p) \in Nat /\ Len(p) >= 1
                         /\ Len(Front(p)) = Len(p) - 1
                         /\ p = Append(Front(p), Last(p))
                         /\ \A i \in 1..(Len(p) - 1) : Front(p)[i] = p[i]
<1>1. CASE p = << >>
  BY <1>1 DEF Front1
<1>2. CASE p # << >>
  <2>1. PICK r \in Seq(S), b \in S : p = Append(r, b)
    BY <1>2, SequenceEmptyOrAppend
  <2>2. /\ Len(r) \in Nat /\ Len(p) = Len(r) + 1 /\ p[Len(p)] = b
        /\ \A i \in 1..Len(r) : p[i] = r[i]
    BY <2>1, AppendProperties, LenProperties
  <2>3. Last(p) = b
    BY <2>2 DEF Last
  <2>4. Front(p) = r
    <3>1. Len(p) - 1 = Len(r)
      BY <2>2
    <3>2. SubSeq(p, 1, Len(r)) \in Seq(S) /\ Len(SubSeq(p, 1, Len(r))) = Len(r)
          /\ \A i \in 1..Len(r) : SubSeq(p, 1, Len(r))[i] = p[i]
      <4>1. \A i \in 1..Len(r) : p[i] \in S
        BY <2>2, ElementOfSeq
      <4> QED BY <2>2, <4>1
    <3>3. SubSeq(p, 1, Len(r)) = r
      BY <2>2, <3>2, SeqEqual
    <3> QED BY <3>1, <3>3 DEF Front
  <2> QED BY <1>2, <2>1, <2>2, <2>3, <2>4 DEF Front1
<1> QED BY <1>1, <1>2

LEMMA PathsAreRaw == Paths \subseteq RawPaths /\ Nowhere \in RawPaths /\ Nowhere \notin Paths
<1>1. \A p \in Paths : p \in RawPaths
  BY SeqMonotonic DEF Paths, RawPaths
<1>2. Nowhere \in RawPaths
  BY DEF Nowhere, RawPaths
<1>3. Nowhere \notin Paths
  <2>1. Len(Nowhere) = 1 /\ Nowhere[1] = Up
    BY DEF Nowhere
  <2>2. Up \notin Names
    BY NamesAssumption DEF Up
  <2> QED BY <2>1, <2>2, PathFacts
<1> QED BY <1>1, <1>2, <1>3

LEMMA ComponentType ==
  ASSUME NEW done \in Paths, NEW c \in Names \cup {Up}
  PROVE  Component(done, c) \in Paths
<1>1. Front1(done) \in Paths
  BY FrontProperties DEF Paths
<1>2. c # Up => Append(done, c) \in Paths
  BY AppendProperties DEF Paths
<1> QED BY <1>1, <1>2 DEF Component

IsNormal(f, p) ==
  f = [n \in 0..Len(p) |-> IF n = 0 THEN << >> ELSE Component(f[n - 1], p[n])]

LEMMA NormalizeIs ==
  ASSUME NEW p
  PROVE  Normalize(p) = (CHOOSE f : IsNormal(f, p))[Len(p)]
BY DEF Normalize, IsNormal

LEMMA NormalExists ==
  ASSUME NEW p \in RawPaths
  PROVE  \E f : IsNormal(f, p) /\ f[Len(p)] \in Paths
<1> DEFINE K == Len(p)
           base == << >>
           step == [dn \in Paths \X (1..K) |-> Component(dn[1], p[dn[2]])]
<1>1. K \in Nat /\ \A n \in 1..K : p[n] \in Names \cup {Up}
  BY LenProperties, ElementOfSeq DEF RawPaths
<1>2. step \in Steps(Paths, K)
  BY <1>1, ComponentType DEF Steps
<1>3. base \in Paths
  BY DEF Paths
<1>4. \A d \in Paths : \A n \in 1..K : step[<<d, n>>] = Component(d, p[n])
  OBVIOUS
<1> HIDE DEF K, base, step
<1>5. PICK f : GoesThrough(f, Paths, K, base, step)
  BY <1>1, <1>2, <1>3, RecursionExists
<1>6. ASSUME NEW n \in 0..K
      PROVE  f[n] = IF n = 0 THEN << >> ELSE Component(f[n - 1], p[n])
  <2>1. CASE n = 0
    BY <1>5, <2>1 DEF base, GoesThrough
  <2>2. CASE n # 0
    <3>1. n \in 1..K /\ n - 1 \in 0..K
      BY <1>1, <2>2
    <3> QED BY <1>4, <1>5, <2>2, <3>1 DEF GoesThrough
  <2> QED BY <2>1, <2>2
<1>7. f = [n \in 0..K |-> IF n = 0 THEN << >> ELSE Component(f[n - 1], p[n])]
  <2>1. f = [n \in 0..K |-> f[n]]
    BY <1>5 DEF GoesThrough
  <2> QED BY <1>6, <2>1, Zenon
<1>8. f[K] \in Paths
  BY <1>1, <1>5 DEF GoesThrough
<1> QED BY <1>7, <1>8 DEF IsNormal, K

LEMMA NormalizeType == \A p \in RawPaths : Normalize(p) \in Paths
<1> TAKE p \in RawPaths
<1> DEFINE f == CHOOSE f : IsNormal(f, p)
           T == {n \in Nat : n <= Len(p) => f[n] \in Paths}
<1>1. Len(p) \in Nat /\ \A n \in 1..Len(p) : p[n] \in Names \cup {Up}
  BY LenProperties, ElementOfSeq DEF RawPaths
<1>2. IsNormal(f, p)
  BY NormalExists
<1> HIDE DEF f
<1>3. f[0] = << >> /\ \A n \in 1..Len(p) : f[n] = Component(f[n - 1], p[n])
  <2>1. f = [n \in 0..Len(p) |-> IF n = 0 THEN << >> ELSE Component(f[n - 1], p[n])]
    BY <1>2 DEF IsNormal
  <2>2. 0 \in 0..Len(p)
    BY <1>1
  <2>3. f[0] = << >>
    BY <2>1, <2>2, Zenon
  <2>4. ASSUME NEW n \in 1..Len(p) PROVE f[n] = Component(f[n - 1], p[n])
    <3>1. n \in 0..Len(p) /\ n # 0
      BY <1>1
    <3> QED BY <2>1, <3>1, Zenon
  <2> QED BY <2>3, <2>4
<1>4. 0 \in T
  <2>1. << >> \in Paths
    BY DEF Paths
  <2> QED BY <1>3, <2>1
<1>5. ASSUME NEW n \in Nat, n \in T PROVE n + 1 \in T
  <2>1. ASSUME n + 1 <= Len(p) PROVE f[n + 1] \in Paths
    <3>1. n + 1 \in 1..Len(p) /\ (n + 1) - 1 = n /\ n <= Len(p)
      BY <1>1, <2>1
    <3>2. f[n] \in Paths /\ f[n + 1] = Component(f[n], p[n + 1])
      BY <1>3, <1>5, <3>1
    <3> QED BY <1>1, <3>1, <3>2, ComponentType
  <2> QED BY <2>1
<1>6. Nat \subseteq T
  <2> HIDE DEF T
  <2> QED BY <1>4, <1>5, NumberByNumber
<1>7. f[Len(p)] \in Paths
  <2>1. Len(p) \in T /\ Len(p) <= Len(p)
    BY <1>1, <1>6
  <2> QED BY <2>1
<1> QED BY <1>7, NormalizeIs DEF f

-----------------------------------------------------------------------------
(* What is canonical exists, and so is a location of the tree.             *)

LEMMA CanonicalIs ==
  ASSUME NEW p
  PROVE  LET q == Canonical(p)
         IN  q # Nowhere =>
               /\ q = << >> \/ q \in DOMAIN tree
               /\ At(q) # Absent /\ q = Reaches(Absolute(p), TRUE)
<1> DEFINE q == Reaches(Absolute(p), TRUE)
<1>1. Canonical(p) = IF q = Nowhere \/ At(q) = Absent THEN Nowhere ELSE q
  BY DEF Canonical
<1> HIDE DEF q
<1>2. At(q) # Absent => q = << >> \/ q \in DOMAIN tree
  BY DEF At
<1> QED BY <1>1, <1>2 DEF q

LEMMA CanonicalType ==
  ASSUME DOMAIN tree \subseteq Paths, NEW p
  PROVE  Canonical(p) = Nowhere \/ Canonical(p) \in Paths
<1>1. << >> \in Paths
  BY DEF Paths
<1> QED BY <1>1, CanonicalIs

LEMMA ResolveType ==
  ASSUME DOMAIN tree \subseteq Paths, NEW path \in CallPaths, NEW follow \in BOOLEAN
  PROVE  Resolve(path, follow) \in Paths
<1> DEFINE p == Normalize(path.base \o path.raw)
           parent == Canonical(Front1(p))
<1>1. p \in Paths
  <2>1. path.base \in RawPaths /\ path.raw \in RawPaths
    BY CallsAssumption, PathsAreRaw
  <2>2. path.base \o path.raw \in RawPaths
    BY <2>1, ConcatProperties DEF RawPaths
  <2> QED BY <2>2, NormalizeType
<1>2. parent # Nowhere /\ p # << >> => Append(parent, Last(p)) \in Paths
  <2>1. parent # Nowhere => parent \in Paths
    BY CanonicalType
  <2>2. p # << >> => Last(p) \in Names
    BY <1>1, FrontProperties DEF Paths
  <2> HIDE DEF parent, p
  <2> QED BY <2>1, <2>2, AppendProperties DEF Paths
<1>3. Canonical(p) # Nowhere => Canonical(p) \in Paths
  BY CanonicalType
<1>4. Resolve(path, follow) =
        CASE ~follow -> p
          [] follow /\ Canonical(p) # Nowhere -> Canonical(p)
          [] follow /\ Canonical(p) = Nowhere /\ p # << >> /\ parent # Nowhere ->
               Append(parent, Last(p))
          [] OTHER -> p
  BY DEF Resolve
<1> HIDE DEF p, parent
<1> QED BY <1>1, <1>2, <1>3, <1>4

LEMMA ArgumentsType ==
  ASSUME DOMAIN tree \subseteq Paths, NEW c \in Calls
  PROVE  \A i \in DOMAIN Arguments(c) : Arguments(c)[i] \in Paths
<1> DEFINE In(ps) == \A i \in DOMAIN ps : ps[i] \in Paths
<1>0. ASSUME NEW x \in Paths, NEW y \in Paths
      PROVE  In(<<x>>) /\ In(<<x, y>>)
  OBVIOUS
<1>1. c.op \in Following \cup NotFollowing => c.path \in CallPaths
  BY DEF Calls, Following, NotFollowing, TwoPaths
<1>2. c.op \in TwoPaths => c.path \in CallPaths /\ c.to \in CallPaths
  BY DEF Calls, Following, NotFollowing, TwoPaths
<1>3. \A path \in CallPaths : Resolve(path, TRUE) \in Paths /\ Resolve(path, FALSE) \in Paths
  BY ResolveType
<1> SUFFICES In(Arguments(c))
  OBVIOUS
<1> HIDE DEF In
<1>4. CASE c.op \in Following
  <2>1. Arguments(c) = <<Resolve(c.path, TRUE)>>
    BY <1>4 DEF Arguments, Following, NotFollowing
  <2> QED BY <1>0, <1>1, <1>3, <1>4, <2>1
<1>5. CASE c.op \in NotFollowing
  <2>1. Arguments(c) = <<Resolve(c.path, FALSE)>>
    BY <1>5 DEF Arguments, Following, NotFollowing
  <2> QED BY <1>0, <1>1, <1>3, <1>5, <2>1
<1>6. CASE c.op = "rename"
  <2>1. Arguments(c) = <<Resolve(c.path, FALSE), Resolve(c.to, FALSE)>>
    BY <1>6 DEF Arguments, Following, NotFollowing
  <2> QED BY <1>0, <1>2, <1>3, <1>6, <2>1 DEF TwoPaths
<1>7. CASE c.op = "link"
  <2>1. Arguments(c) = <<Resolve(c.to, FALSE)>>
    BY <1>7 DEF Arguments, Following, NotFollowing
  <2> QED BY <1>0, <1>2, <1>3, <1>7, <2>1 DEF TwoPaths
<1>8. CASE c.op \notin Following \cup NotFollowing \cup {"rename", "link"}
  <2>1. Arguments(c) = << >>
    BY <1>8 DEF Arguments
  <2> QED BY <2>1 DEF In
<1> QED BY <1>4, <1>5, <1>6, <1>7, <1>8

-----------------------------------------------------------------------------
(* Walks.  A path with one more component leads one step further, if that  *)
(* step is to a directory.                                                 *)

Walks == [at : RawPaths, rest : RawPaths, links : 0..MaxLinks]

IsWalk(f, K, path, follow) ==
  f = [n \in 0..K |->
         IF n = 0 THEN [at |-> path.base, rest |-> path.raw, links |-> MaxLinks]
         ELSE WalkStep(f[n - 1], follow)]

LEMMA ReachesIs ==
  ASSUME NEW path, NEW follow
  PROVE  LET K == Len(path.raw) + MaxLinks * MaxTarget
             f == CHOOSE f : IsWalk(f, K, path, follow)
         IN  Reaches(path, follow) = IF f[K].rest = << >> THEN f[K].at ELSE Nowhere
BY DEF Reaches, IsWalk

(* The cases of one step.                                                  *)
LEMMA WalkStepIs ==
  ASSUME NEW w, NEW follow
  PROVE  LET c == Head(w.rest)
             p == Append(w.at, c)
             onLink == IsLink(p) /\ (follow \/ Len(w.rest) # 1)
             Arrived(q) == [at |-> q, rest |-> Tail(w.rest), links |-> w.links]
         IN  /\ w.rest = << >> => WalkStep(w, follow) = w
             /\ w.rest # << >> /\ c = Up => WalkStep(w, follow) = Arrived(Front1(w.at))
             /\ w.rest # << >> /\ c # Up /\ onLink /\ w.links = 0 =>
                  WalkStep(w, follow) = Lost
             /\ w.rest # << >> /\ c # Up /\ onLink /\ w.links # 0 =>
                  WalkStep(w, follow) =
                    [at |-> << >>, rest |-> At(p).target \o Tail(w.rest),
                     links |-> w.links - 1]
             /\ w.rest # << >> /\ c # Up /\ ~onLink /\ (Len(w.rest) = 1 \/ IsDirectory(p)) =>
                  WalkStep(w, follow) = Arrived(p)
             /\ w.rest # << >> /\ c # Up /\ ~onLink /\ ~(Len(w.rest) = 1 \/ IsDirectory(p)) =>
                  WalkStep(w, follow) = Lost
BY DEF WalkStep

(* Links lead to paths as they are written.                                *)
LEMMA LinkTargets ==
  ASSUME TreeOK(tree), NEW p, IsLink(p)
  PROVE  At(p).target \in RawPaths
<1>1. p \in DOMAIN tree /\ p # << >> /\ At(p) = tree[p]
  BY DEF IsLink, At, Directory, Absent, TreeOK
<1>2. EntryOK(tree[p]) /\ tree[p].kind = "link"
  BY <1>1 DEF TreeOK, IsLink
<1> QED BY <1>1, <1>2 DEF EntryOK, Absent, Directory, File

LEMMA WalkStepType ==
  ASSUME TreeOK(tree), NEW w \in Walks, NEW follow
  PROVE  WalkStep(w, follow) \in Walks
<1> DEFINE c == Head(w.rest)
           p == Append(w.at, c)
           onLink == IsLink(p) /\ (follow \/ Len(w.rest) # 1)
<1>1. w.at \in RawPaths /\ w.rest \in RawPaths /\ w.links \in 0..MaxLinks
  BY DEF Walks
<1>2. CASE w.rest = << >>
  <2>1. WalkStep(w, follow) = w
    BY <1>2 DEF WalkStep
  <2> QED BY <2>1
<1>3. CASE w.rest # << >>
  <2>1. c \in Names \cup {Up} /\ Tail(w.rest) \in RawPaths
    BY <1>1, <1>3, HeadTailProperties DEF RawPaths
  <2>2. Front1(w.at) \in RawPaths /\ p \in RawPaths /\ << >> \in RawPaths
    BY <1>1, <2>1, FrontProperties, AppendProperties DEF RawPaths
  <2>3. Lost \in Walks
    BY <2>2, PathsAreRaw, LinksAssumption DEF Lost, Walks
  <2>4. onLink => At(p).target \o Tail(w.rest) \in RawPaths
    BY <2>1, LinkTargets, ConcatProperties DEF RawPaths
  <2>5. w.links # 0 => w.links - 1 \in 0..MaxLinks
    BY <1>1, LinksAssumption
  <2>6. \A q \in RawPaths : [at |-> q, rest |-> Tail(w.rest), links |-> w.links] \in Walks
    BY <1>1, <2>1 DEF Walks
  <2>7. onLink /\ w.links # 0 =>
          [at |-> << >>, rest |-> At(p).target \o Tail(w.rest), links |-> w.links - 1] \in Walks
    BY <2>2, <2>4, <2>5 DEF Walks
  <2> HIDE DEF p, c, onLink
  <2>8. \/ c = Up /\ WalkStep(w, follow) =
             [at |-> Front1(w.at), rest |-> Tail(w.rest), links |-> w.links]
        \/ WalkStep(w, follow) = Lost
        \/ onLink /\ w.links # 0 /\ WalkStep(w, follow) =
             [at |-> << >>, rest |-> At(p).target \o Tail(w.rest), links |-> w.links - 1]
        \/ WalkStep(w, follow) = [at |-> p, rest |-> Tail(w.rest), links |-> w.links]
    BY <1>3, WalkStepIs DEF p, c, onLink
  <2> QED BY <2>2, <2>3, <2>6, <2>7, <2>8
<1> QED BY <1>2, <1>3

(* The walk that Reaches goes by.                                          *)
LEMMA WalkExists ==
  ASSUME TreeOK(tree), NEW base \in Paths, NEW p \in RawPaths, NEW follow
  PROVE  LET K == Len(p) + MaxLinks * MaxTarget
             path == [base |-> base, raw |-> p]
         IN  \E f : /\ f[0] = [at |-> base, rest |-> p, links |-> MaxLinks]
                    /\ \A n \in 1..K : f[n] = WalkStep(f[n - 1], follow)
                    /\ \A n \in 0..K : f[n] \in Walks
                    /\ Reaches(path, follow) =
                         IF f[K].rest = << >> THEN f[K].at ELSE Nowhere
<1> DEFINE K == Len(p) + MaxLinks * MaxTarget
           path == [base |-> base, raw |-> p]
           first == [at |-> base, rest |-> p, links |-> MaxLinks]
           step == [wn \in Walks \X (1..K) |-> WalkStep(wn[1], follow)]
           f == CHOOSE f : IsWalk(f, K, path, follow)
<1>1. K \in Nat
  <2>1. MaxLinks * MaxTarget \in Nat
    BY LinksAssumption
  <2> QED BY <2>1, LenProperties DEF RawPaths
<1>2. first \in Walks
  BY PathsAreRaw, LinksAssumption DEF Walks
<1>3. step \in Steps(Walks, K)
  BY WalkStepType DEF Steps
<1>4. \A w \in Walks : \A n \in 1..K : step[<<w, n>>] = WalkStep(w, follow)
  OBVIOUS
<1>5. path.base = base /\ path.raw = p
  OBVIOUS
<1>6. Reaches(path, follow) = IF f[K].rest = << >> THEN f[K].at ELSE Nowhere
  BY ReachesIs
<1> HIDE DEF K, path, step
<1>7. PICK g : GoesThrough(g, Walks, K, first, step)
  <2> HIDE DEF first
  <2> QED BY <1>1, <1>2, <1>3, RecursionExists
<1>8. IsWalk(g, K, path, follow)
  <2>1. ASSUME NEW n \in 0..K
        PROVE  g[n] = IF n = 0 THEN [at |-> path.base, rest |-> path.raw, links |-> MaxLinks]
                      ELSE WalkStep(g[n - 1], follow)
    <3>1. CASE n = 0
      BY <1>5, <1>7, <3>1 DEF GoesThrough
    <3>2. CASE n # 0
      <4>1. n \in 1..K /\ n - 1 \in 0..K
        BY <1>1, <3>2
      <4> QED BY <1>4, <1>7, <3>2, <4>1 DEF GoesThrough
    <3> QED BY <3>1, <3>2
  <2>2. g = [n \in 0..K |-> g[n]]
    BY <1>7 DEF GoesThrough
  <2> QED BY <2>1, <2>2, Zenon DEF IsWalk
<1>9. IsWalk(f, K, path, follow)
  BY <1>8
<1> HIDE DEF f
<1>10. f[0] = first /\ \A n \in 1..K : f[n] = WalkStep(f[n - 1], follow)
  <2>1. f = [n \in 0..K |->
               IF n = 0 THEN [at |-> path.base, rest |-> path.raw, links |-> MaxLinks]
               ELSE WalkStep(f[n - 1], follow)]
    BY <1>9 DEF IsWalk
  <2>2. 0 \in 0..K
    BY <1>1
  <2>3. f[0] = first
    BY <1>5, <2>1, <2>2, Zenon
  <2>4. ASSUME NEW n \in 1..K PROVE f[n] = WalkStep(f[n - 1], follow)
    <3>1. n \in 0..K /\ n # 0
      BY <1>1
    <3> QED BY <2>1, <3>1, Zenon
  <2> QED BY <2>3, <2>4
<1> DEFINE T == {n \in Nat : n <= K => f[n] \in Walks}
<1>11. 0 \in T
  BY <1>2, <1>10
<1>12. ASSUME NEW n \in Nat, n \in T PROVE n + 1 \in T
  <2>1. ASSUME n + 1 <= K PROVE f[n + 1] \in Walks
    <3>1. n + 1 \in 1..K /\ (n + 1) - 1 = n /\ n <= K
      BY <1>1, <2>1
    <3>2. f[n] \in Walks /\ f[n + 1] = WalkStep(f[n], follow)
      BY <1>10, <1>12, <3>1
    <3> QED BY <3>2, WalkStepType
  <2> QED BY <2>1
<1>13. Nat \subseteq T
  <2> HIDE DEF T
  <2> QED BY <1>11, <1>12, NumberByNumber
<1>14. \A n \in 0..K : f[n] \in Walks
  BY <1>13
<1> HIDE DEF first, T
<1>15. /\ f[0] = first
       /\ \A n \in 1..K : f[n] = WalkStep(f[n - 1], follow)
       /\ \A n \in 0..K : f[n] \in Walks
       /\ Reaches(path, follow) = IF f[K].rest = << >> THEN f[K].at ELSE Nowhere
  BY <1>6, <1>10, <1>14
<1> QED BY <1>15 DEF first, K, path

(* The walk over a path with one more component.                           *)
Longer(w, x) == [at |-> w.at, rest |-> Append(w.rest, x), links |-> w.links]

LEMMA LongerStep ==
  ASSUME TreeOK(tree), NEW w \in Walks, w.rest # << >>, NEW x \in Names, NEW d,
         d # Nowhere, IsDirectory(d)
  PROVE  LET v == WalkStep(w, TRUE)
         IN  \/ WalkStep(Longer(w, x), TRUE) = Longer(v, x)
             \/ v.rest = << >> /\ v.at # d
<1> DEFINE c == Head(w.rest)
           p == Append(w.at, c)
           v == WalkStep(w, TRUE)
           lw == Longer(w, x)
           lv == WalkStep(lw, TRUE)
<1>1. /\ w.at \in RawPaths /\ w.rest \in RawPaths /\ w.links \in 0..MaxLinks
      /\ Len(w.rest) \in Nat /\ Len(w.rest) >= 1
  BY EmptySeq, LenProperties DEF Walks, RawPaths
<1>2. Tail(w.rest) \in RawPaths /\ x \in Names \cup {Up} /\ Len(Tail(w.rest)) = Len(w.rest) - 1
  BY <1>1, HeadTailProperties DEF RawPaths
<1>3. /\ lw.at = w.at /\ lw.links = w.links /\ lw.rest # << >>
      /\ Head(lw.rest) = c /\ Tail(lw.rest) = Append(Tail(w.rest), x)
      /\ Len(lw.rest) # 1
  <2> DEFINE r == w.rest
             S == Names \cup {Up}
  <2>1. r \in Seq(S) /\ r # << >> /\ x \in S /\ Len(r) >= 1 /\ Len(r) \in Nat
    BY <1>1, <1>2 DEF RawPaths
  <2> HIDE DEF r, S
  <2>2. Append(r, x) \in Seq(S) /\ Len(Append(r, x)) = Len(r) + 1 /\ Append(r, x) # << >>
    BY <2>1, AppendProperties, EmptySeq
  <2>3. Head(Append(r, x)) = Head(r) /\ Tail(Append(r, x)) = Append(Tail(r), x)
    BY <2>1
  <2> QED BY <2>1, <2>2, <2>3 DEF Longer, r
<1> SUFFICES lv = Longer(v, x) \/ (v.rest = << >> /\ v.at # d)
  OBVIOUS
<1> HIDE DEF v, lv
<1>4. CASE c = Up
  <2>1. v = [at |-> Front1(w.at), rest |-> Tail(w.rest), links |-> w.links]
    BY <1>4 DEF WalkStep, v
  <2>2. lv = [at |-> Front1(w.at), rest |-> Append(Tail(w.rest), x), links |-> w.links]
    BY <1>3, <1>4 DEF WalkStep, lv
  <2>3. v.at = Front1(w.at) /\ v.rest = Tail(w.rest) /\ v.links = w.links
    BY <2>1
  <2> QED BY ONLY <2>2, <2>3 DEF Longer
<1>5. CASE c # Up /\ IsLink(p) /\ w.links = 0
  <2>1. v = Lost
    BY <1>5 DEF WalkStep, v
  <2> QED BY <2>1 DEF Lost
<1>6. CASE c # Up /\ IsLink(p) /\ w.links # 0
  <2>1. v = [at |-> << >>, rest |-> At(p).target \o Tail(w.rest), links |-> w.links - 1]
    BY <1>6 DEF WalkStep, v
  <2>2. lv = [at |-> << >>, rest |-> At(p).target \o Append(Tail(w.rest), x),
              links |-> w.links - 1]
    BY <1>3, <1>6 DEF WalkStep, lv
  <2>3. At(p).target \o Append(Tail(w.rest), x) = Append(At(p).target \o Tail(w.rest), x)
    <3> DEFINE t == At(p).target
               r == Tail(w.rest)
               S == Names \cup {Up}
    <3>1. t \in Seq(S) /\ r \in Seq(S) /\ x \in S
      BY <1>2, <1>6, LinkTargets DEF RawPaths
    <3> HIDE DEF t, r, S
    <3>2. t \o Append(r, x) = Append(t \o r, x)
      BY <3>1, AppendIsConcat, ConcatAssociative, ConcatProperties
    <3> QED BY <3>2 DEF t, r
  <2>4. /\ v.at = << >> /\ v.rest = At(p).target \o Tail(w.rest)
        /\ v.links = w.links - 1
    BY <2>1
  <2> QED BY ONLY <2>2, <2>3, <2>4 DEF Longer
<1>7. CASE c # Up /\ ~IsLink(p) /\ IsDirectory(p)
  <2>1. v = [at |-> p, rest |-> Tail(w.rest), links |-> w.links]
    BY <1>7 DEF WalkStep, v
  <2>2. lv = [at |-> p, rest |-> Append(Tail(w.rest), x), links |-> w.links]
    BY <1>3, <1>7 DEF WalkStep, lv
  <2>3. v.at = p /\ v.rest = Tail(w.rest) /\ v.links = w.links
    BY <2>1
  <2> QED BY ONLY <2>2, <2>3 DEF Longer
<1>8. CASE c # Up /\ ~IsLink(p) /\ ~IsDirectory(p)
  <2>1. CASE Len(w.rest) = 1
    <3>1. v = [at |-> p, rest |-> Tail(w.rest), links |-> w.links]
      BY <1>8, <2>1 DEF WalkStep, v
    <3>2. Tail(w.rest) = << >>
      <4>1. Tail(w.rest) \in Seq(Names \cup {Up}) /\ Len(Tail(w.rest)) = 0
        BY <1>1, <1>2, <2>1 DEF RawPaths
      <4> QED BY <4>1, EmptySeq
    <3> QED BY <1>8, <3>1, <3>2
  <2>2. CASE Len(w.rest) # 1
    <3>1. v = Lost
      BY <1>8, <2>2 DEF WalkStep, v
    <3> QED BY <3>1 DEF Lost
  <2> QED BY <2>1, <2>2
<1> QED BY <1>4, <1>5, <1>6, <1>7, <1>8

(* If the beginning of a path is found, and there is a directory of the    *)
(* last name in it, the path is found as well.                             *)
LEMMA OneFurther ==
  ASSUME TreeOK(tree), NEW p \in RawPaths, NEW x \in Names, NEW d \in Paths,
         Reaches(Absolute(p), TRUE) = d, IsDirectory(d), IsDirectory(Append(d, x))
  PROVE  Reaches(Absolute(Append(p, x)), TRUE) = Append(d, x)
<1> DEFINE K == Len(p) + MaxLinks * MaxTarget
           px == Append(p, x)
           L == Len(px) + MaxLinks * MaxTarget
           first(q) == [at |-> << >>, rest |-> q, links |-> MaxLinks]
<1>1. /\ K \in Nat /\ L = K + 1 /\ px \in RawPaths /\ << >> \in Paths
      /\ d # Nowhere
  <2>1. Len(p) \in Nat /\ x \in Names \cup {Up} /\ MaxLinks * MaxTarget \in Nat
    BY LenProperties, LinksAssumption DEF RawPaths
  <2>2. px \in RawPaths /\ Len(px) = Len(p) + 1
    BY <2>1, AppendProperties DEF RawPaths
  <2> HIDE DEF px
  <2> QED BY <2>1, <2>2, PathsAreRaw DEF Paths
<1>2. PICK f :
        /\ f[0] = first(p)
        /\ \A n \in 1..K : f[n] = WalkStep(f[n - 1], TRUE)
        /\ \A n \in 0..K : f[n] \in Walks
        /\ Reaches(Absolute(p), TRUE) = IF f[K].rest = << >> THEN f[K].at ELSE Nowhere
  BY <1>1, WalkExists DEF Absolute
<1>3. PICK g :
        /\ g[0] = first(px)
        /\ \A n \in 1..L : g[n] = WalkStep(g[n - 1], TRUE)
        /\ \A n \in 0..L : g[n] \in Walks
        /\ Reaches(Absolute(px), TRUE) = IF g[L].rest = << >> THEN g[L].at ELSE Nowhere
  <2> HIDE DEF px
  <2> QED BY <1>1, WalkExists DEF Absolute
<1> DEFINE Behind(n) ==
             \/ g[n] = Longer(f[n], x)
             \/ f[n].rest = << >> /\ f[n].at # d
             \/ f[n].rest = << >> /\ g[n].rest = << >> /\ g[n].at = Append(d, x)
           T == {n \in Nat : n <= K => Behind(n)}
(* From the place where the shorter walk ends.                             *)
<1>4. ASSUME NEW n \in 0..K, g[n] = Longer(f[n], x), f[n].rest = << >>, f[n].at = d
      PROVE  g[n + 1].rest = << >> /\ g[n + 1].at = Append(d, x)
  <2>1. n + 1 \in 1..L /\ (n + 1) - 1 = n
    BY <1>1
  <2>2. g[n + 1] = WalkStep(g[n], TRUE)
    BY <1>3, <2>1
  <2>3. g[n].rest = <<x>> /\ g[n].at = d
    BY <1>4 DEF Longer
  <2>4. /\ <<x>> # << >> /\ Head(<<x>>) = x /\ Tail(<<x>>) = << >> /\ Len(<<x>>) = 1
        /\ x # Up
    BY NamesAssumption DEF Up
  <2>5. ~IsLink(Append(d, x))
    BY DEF IsLink, IsDirectory
  <2>6. WalkStep(g[n], TRUE) = [at |-> Append(d, x), rest |-> << >>, links |-> g[n].links]
    BY <2>3, <2>4, <2>5 DEF WalkStep
  <2>7. g[n + 1] = [at |-> Append(d, x), rest |-> << >>, links |-> g[n].links]
    BY <2>2, <2>6
  <2> QED BY ONLY <2>7
<1>5. 0 \in T
  <2>1. first(px) = Longer(first(p), x)
    BY DEF Longer
  <2> HIDE DEF first, px
  <2> QED BY <1>2, <1>3, <2>1
<1>6. ASSUME NEW n \in Nat, Behind(n), n + 1 <= K PROVE Behind(n + 1)
  <2>1. /\ n + 1 \in 1..K /\ n + 1 \in 1..L /\ (n + 1) - 1 = n
        /\ n \in 0..K /\ n \in 0..L /\ n <= K
    BY <1>1, <1>6
  <2>2. /\ f[n + 1] = WalkStep(f[n], TRUE) /\ g[n + 1] = WalkStep(g[n], TRUE)
        /\ f[n] \in Walks
    BY <1>2, <1>3, <2>1
  <2>3. f[n].rest = << >> => f[n + 1] = f[n]
    BY <2>2 DEF WalkStep
  <2>4. g[n].rest = << >> => g[n + 1] = g[n]
    BY <2>2 DEF WalkStep
  <2>5. CASE f[n].rest = << >> /\ f[n].at # d
    BY <2>3, <2>5
  <2>6. CASE f[n].rest = << >> /\ g[n].rest = << >> /\ g[n].at = Append(d, x)
    BY <2>3, <2>4, <2>6
  <2>7. CASE g[n] = Longer(f[n], x) /\ f[n].rest = << >> /\ f[n].at = d
    BY <1>4, <2>1, <2>3, <2>7
  <2>8. CASE g[n] = Longer(f[n], x) /\ f[n].rest # << >>
    <3>1. \/ WalkStep(Longer(f[n], x), TRUE) = Longer(f[n + 1], x)
          \/ f[n + 1].rest = << >> /\ f[n + 1].at # d
      BY <1>1, <2>2, <2>8, LongerStep
    <3> QED BY <2>2, <2>8, <3>1
  <2> QED BY <1>6, <2>5, <2>6, <2>7, <2>8
<1> HIDE DEF Behind
<1>7. Nat \subseteq T
  <2>1. \A n \in Nat : n \in T => n + 1 \in T
    <3>1. \A n \in Nat : n + 1 <= K => n <= K
      BY <1>1
    <3> QED BY <1>6, <3>1
  <2> HIDE DEF T
  <2> QED BY <1>5, <2>1, NumberByNumber
<1>8. Behind(K)
  <2>1. K \in T /\ K <= K
    BY <1>1, <1>7
  <2> QED BY <2>1
<1>9. f[K].rest = << >> /\ f[K].at = d
  BY <1>1, <1>2
<1>10. g[K + 1].rest = << >> /\ g[K + 1].at = Append(d, x)
  <2>1. CASE g[K] = Longer(f[K], x)
    BY <1>1, <1>4, <1>9, <2>1
  <2>2. CASE g[K].rest = << >> /\ g[K].at = Append(d, x)
    <3>1. K + 1 \in 1..L /\ (K + 1) - 1 = K
      BY <1>1
    <3>2. g[K + 1] = WalkStep(g[K], TRUE)
      BY <1>3, <3>1
    <3>3. g[K + 1] = g[K]
      BY <2>2, <3>2 DEF WalkStep
    <3> QED BY <2>2, <3>3
  <2> QED BY <1>8, <1>9, <2>1, <2>2 DEF Behind
<1> QED BY <1>1, <1>3, <1>10

(* What stands above a location that is taken is a directory.              *)
LEMMA AboveIsDirectory ==
  ASSUME TreeOK(tree), NEW p \in DOMAIN tree, tree[p] # Absent,
         NEW q \in Paths, q # << >>, IsPrefix(q, p), q # p
  PROVE  q \in DOMAIN tree /\ tree[q] = Directory
<1> DEFINE m == Len(p)
           To(k) == SubSeq(p, 1, k)
           T == {n \in Nat : 1 <= m - 1 - n =>
                   To(m - 1 - n) \in DOMAIN tree /\ tree[To(m - 1 - n)] = Directory}
<1>1. /\ p \in Paths /\ m \in Nat /\ \A i \in 1..m : p[i] \in Names
      /\ \A r \in DOMAIN tree : r \in Paths
  BY PathFacts DEF TreeOK
<1>2. \A k \in 0..m : /\ To(k) \in Paths /\ Len(To(k)) = k
                      /\ \A i \in 1..k : To(k)[i] = p[i]
  BY <1>1 DEF Paths
<1>3. \A k \in 1..m : Front(To(k)) = To(k - 1)
  <2> TAKE k \in 1..m
  <2>1. /\ k \in 0..m /\ k - 1 \in 0..m /\ k \in Nat
        /\ To(k) \in Paths /\ Len(To(k)) = k /\ To(k) # << >>
    BY <1>1, <1>2, EmptySeq
  <2>2. \A i \in 1..(k - 1) : i \in 1..k
    BY <2>1
  <2>3. To(k - 1) \in Paths /\ Len(To(k - 1)) = k - 1 /\ \A i \in 1..(k - 1) : To(k - 1)[i] = p[i]
    BY <1>2, <2>1
  <2>4. \A i \in 1..k : To(k)[i] = p[i]
    BY <1>2, <2>1
  <2> HIDE DEF To
  <2>5. /\ Front1(To(k)) = Front(To(k)) /\ Front1(To(k)) \in Paths
        /\ Len(Front(To(k))) = k - 1
        /\ \A i \in 1..(k - 1) : Front(To(k))[i] = To(k)[i]
    BY <2>1, FrontProperties DEF Paths
  <2>6. \A i \in 1..(k - 1) : Front(To(k))[i] = To(k - 1)[i]
    BY <2>2, <2>3, <2>4, <2>5
  <2> QED BY <2>3, <2>5, <2>6, SeqEqual DEF Paths
<1>4. p = To(m)
  BY <1>1, SubSeqFull DEF Paths
<1>5. \A r \in DOMAIN tree : tree[r] # Absent /\ Len(r) > 1 =>
        Front(r) \in DOMAIN tree /\ tree[Front(r)] = Directory
  BY DEF TreeOK
<1>6. Directory # Absent
  BY DEF Directory, Absent
<1> HIDE DEF To, m
<1>7. 0 \in T
  <2>1. ASSUME 1 <= m - 1
        PROVE  To(m - 1) \in DOMAIN tree /\ tree[To(m - 1)] = Directory
    <3>1. m \in 1..m /\ m > 1
      BY <1>1, <2>1
    <3>2. Front(p) = To(m - 1)
      BY <1>3, <1>4, <3>1
    <3> QED BY <1>5, <3>1, <3>2 DEF m
  <2>2. m - 1 - 0 = m - 1
    BY <1>1
  <2> QED BY <2>1, <2>2
<1>8. ASSUME NEW n \in Nat, n \in T PROVE n + 1 \in T
  <2> DEFINE k == m - 1 - n
  <2>1. m - 1 - (n + 1) = k - 1
    BY <1>1
  <2>2. ASSUME 1 <= k - 1
        PROVE  To(k - 1) \in DOMAIN tree /\ tree[To(k - 1)] = Directory
    <3>1. k \in 1..m /\ k \in 0..m /\ k > 1 /\ 1 <= k
      BY <1>1, <2>2
    <3>2. To(k) \in DOMAIN tree /\ tree[To(k)] = Directory
      BY <1>8, <3>1
    <3>3. Front(To(k)) = To(k - 1) /\ Len(To(k)) > 1
      BY <1>2, <1>3, <3>1
    <3> QED BY <1>5, <1>6, <3>2, <3>3
  <2> HIDE DEF k
  <2> QED BY <2>1, <2>2
<1>9. Nat \subseteq T
  <2> HIDE DEF T
  <2> QED BY <1>7, <1>8, NumberByNumber
<1>10. /\ Len(q) \in Nat /\ Len(q) <= m /\ \A i \in 1..Len(q) : q[i] = p[i]
       /\ Len(q) >= 1
  <2>1. Len(q) \in Nat /\ Len(q) <= Len(p) /\ \A i \in 1..Len(q) : q[i] = p[i]
    BY <1>1, PrefixByComponents, PathFacts
  <2>2. Len(q) # 0
    BY EmptySeq DEF Paths
  <2> QED BY <2>1, <2>2 DEF m
<1>11. q = To(Len(q))
  <2>1. Len(q) \in 0..m
    BY <1>1, <1>10
  <2> QED BY <1>2, <1>10, <2>1, SeqEqual DEF Paths
<1>12. Len(q) # m
  BY <1>4, <1>11
<1>13. m - 1 - Len(q) \in Nat /\ m - 1 - (m - 1 - Len(q)) = Len(q)
  BY <1>1, <1>10, <1>12
<1>14. To(Len(q)) \in DOMAIN tree /\ tree[To(Len(q))] = Directory
  <2>1. m - 1 - Len(q) \in T
    BY <1>9, <1>13
  <2> QED BY <1>10, <1>13, <2>1
<1> QED BY <1>11, <1>14

-----------------------------------------------------------------------------
(* What an accepted configuration is loaded as.                            *)

LEMMA RootsApart ==
  ASSUME NEW roots \in Seq([id : Nat, path : Paths]), RootsAccepted(roots)
  PROVE  LET s == SortRoots(roots)
         IN  /\ s \in Seq([id : Nat, path : Paths]) /\ ToSet(s) = ToSet(roots)
             /\ Ordered(PathsOf(s)) /\ NeighboursApart(PathsOf(s))
             /\ \A x, y \in ToSet(roots) : x # y => ~IsPrefix(x.path, y.path)
<1> DEFINE s == SortRoots(roots)
<1>1. /\ s \in Seq([id : Nat, path : Paths]) /\ ToSet(s) = ToSet(roots)
      /\ Ordered(PathsOf(s))
  BY RootsSorted
<1>2. NeighboursApart(PathsOf(s))
  BY DEF RootsAccepted
<1> HIDE DEF s
<1>3. /\ DOMAIN s = 1..Len(s) /\ Len(s) \in Nat /\ \A i \in 1..Len(s) : s[i].path \in Paths
  <2>1. \A i \in 1..Len(s) : s[i] \in [id : Nat, path : Paths]
    BY <1>1, ElementOfSeq
  <2> QED BY <1>1, <2>1, LenProperties
<1>4. /\ PathsOf(s) \in Seq(Paths) /\ DOMAIN PathsOf(s) = DOMAIN s
      /\ \A i \in DOMAIN s : PathsOf(s)[i] = s[i].path
  BY <1>3 DEF PathsOf
<1>5. ASSUME NEW x \in ToSet(s), NEW y \in ToSet(s), x # y
      PROVE  ~IsPrefix(x.path, y.path)
  <2>1. PICK i \in DOMAIN s : s[i] = x
    BY DEF ToSet
  <2>2. PICK j \in DOMAIN s : s[j] = y
    BY DEF ToSet
  <2>3. i # j
    BY <1>5, <2>1, <2>2
  <2> QED BY <1>1, <1>2, <1>4, <2>1, <2>2, <2>3, NeighboursSuffice
<1> QED BY <1>1, <1>2, <1>5 DEF s

(* What a policy is, once there is one.                                    *)
PolicySound ==
  policy # None =>
    /\ policy = [roots |-> policy.roots, exact |-> policy.exact,
                 recursive |-> policy.recursive]
    /\ policy.roots \in Seq([id : Nat, path : Paths])
    /\ ToSet(policy.roots) = ToSet(start.roots)
    /\ Ordered(PathsOf(policy.roots)) /\ NeighboursApart(PathsOf(policy.roots))
    /\ \A x, y \in ToSet(start.roots) : x # y => ~IsPrefix(x.path, y.path)
    /\ \A e \in ToSet(raw.exclusions) : e.path \in Paths
    /\ Covers(policy.exact, ToSet(raw.exclusions))
    /\ policy.recursive = {p[1] : p \in raw.recursive}
    /\ RecursiveAccepted(raw.recursive)
    /\ start.output \in Paths
    /\ \A x \in ToSet(start.roots) :
         ~IsPrefix(start.output, x.path) /\ ~IsPrefix(x.path, start.output)

LEMMA AtIs ==
  /\ << >> \notin DOMAIN tree => At(<< >>) = Directory
  /\ \A p \in DOMAIN tree : p # << >> => At(p) = tree[p]
<1>1. ASSUME << >> \notin DOMAIN tree PROVE At(<< >>) = Directory
  BY <1>1 DEF At
<1>2. ASSUME NEW p \in DOMAIN tree, p # << >>
      PROVE  At(p) = tree[p]
  BY <1>2 DEF At
<1> QED BY <1>1, <1>2

LEMMA AppendToPath ==
  ASSUME NEW p \in Paths, NEW x \in Names
  PROVE  LET q == Append(p, x)
         IN  q \in Paths /\ q # << >> /\ q # p /\ IsPrefix(p, q)
<1> DEFINE q == Append(p, x)
<1>1. /\ q \in Seq(Names) /\ Len(q) = Len(p) + 1 /\ Len(p) \in Nat
      /\ \A i \in 1..Len(p) : q[i] = p[i]
  BY AppendProperties, LenProperties DEF Paths
<1> HIDE DEF q
<1>2. q # << >> /\ q # p /\ q \in Paths
  BY <1>1, EmptySeq DEF Paths
<1>3. IsPrefix(p, q)
  BY <1>1, <1>2, PrefixByComponents
<1> QED BY <1>2, <1>3 DEF q

(* The roots of an accepted configuration are locations that are taken.    *)
LEMMA RootsAreThere ==
  ASSUME ConfigOK(raw), TreeOK(tree), RootsAccepted(CanonicalRoots)
  PROVE  /\ CanonicalRoots \in Seq([id : Nat, path : Paths])
         /\ \A x \in ToSet(CanonicalRoots) :
              x.path = << >> \/ (x.path \in DOMAIN tree /\ tree[x.path] # Absent)
<1> DEFINE n == Len(raw.roots)
           c == CanonicalRoots
<1>1. n \in Nat /\ DOMAIN raw.roots = 1..n /\ \A i \in 1..n : raw.roots[i].id \in Nat
  <2> DEFINE s == raw.roots
  <2>1. s \in Seq([id : Nat, path : RawPaths])
    BY DEF ConfigOK
  <2> HIDE DEF s
  <2>2. \A i \in 1..Len(s) : s[i] \in [id : Nat, path : RawPaths]
    BY <2>1, ElementOfSeq
  <2> QED BY <2>1, <2>2, LenProperties DEF s
<1>2. DOMAIN tree \subseteq Paths /\ << >> \notin DOMAIN tree
  BY DEF TreeOK
<1>3. c = [i \in 1..n |-> [id |-> raw.roots[i].id, path |-> Canonical(raw.roots[i].path)]]
  BY <1>1 DEF CanonicalRoots
<1> HIDE DEF c, n
<1>4. \A i \in 1..n : c[i].path = Canonical(raw.roots[i].path) /\ c[i].path # Nowhere
  BY <1>3 DEF RootsAccepted, c
<1>5. \A i \in 1..n : c[i].path \in Paths
  BY <1>2, <1>4, CanonicalType
<1>6. c \in [1..n -> [id : Nat, path : Paths]]
  <2>1. ASSUME NEW i \in 1..n PROVE c[i] \in [id : Nat, path : Paths]
    BY <1>1, <1>3, <1>4, <1>5
  <2> QED BY <1>3, <2>1
<1>7. c \in Seq([id : Nat, path : Paths])
  BY <1>1, <1>6, SeqDef
<1>8. ASSUME NEW x \in ToSet(c)
      PROVE  x.path = << >> \/ (x.path \in DOMAIN tree /\ tree[x.path] # Absent)
  <2>1. PICK i \in 1..n : x = c[i]
    BY <1>3 DEF ToSet
  <2>2. /\ x.path = << >> \/ x.path \in DOMAIN tree
        /\ At(x.path) # Absent
    BY <1>4, <2>1, CanonicalIs
  <2> QED BY <1>2, <2>2, AtIs
<1> QED BY <1>7, <1>8 DEF c

(* A new output is not above anything that exists.                         *)
LEMMA OutputIsNew ==
  ASSUME ConfigOK(raw), TreeOK(tree), OutputPath # Nowhere
  PROVE  /\ OutputPath \in Paths
         /\ \A p \in DOMAIN tree :
              tree[p] # Absent /\ p # OutputPath => ~IsPrefix(OutputPath, p)
         /\ OutputPath # << >>
<1> DEFINE o == raw.output
           x == Last(o)
           F == Front(o)
           d == Canonical(F)
<1>1. Canonical(o) = Nowhere /\ d # Nowhere /\ OutputPath = Append(d, x)
  BY DEF OutputPath
<1>2. /\ o = Append(F, x) /\ F \in RawPaths /\ x \in Names
  <2>1. o \in Seq(Names \cup {Up}) /\ o # << >> /\ x # Up
    BY DEF ConfigOK, RawPaths
  <2> HIDE DEF o
  <2>2. o = Append(F, x) /\ F \in Seq(Names \cup {Up}) /\ x \in Names \cup {Up}
    BY <2>1, FrontProperties
  <2> QED BY <2>1, <2>2 DEF RawPaths
<1> HIDE DEF o, x, F
<1>3. DOMAIN tree \subseteq Paths /\ << >> \notin DOMAIN tree
  BY DEF TreeOK
<1>4. /\ d = << >> \/ d \in DOMAIN tree
      /\ At(d) # Absent /\ d = Reaches(Absolute(F), TRUE)
  BY <1>1, CanonicalIs
<1>5. d \in Paths
  BY <1>1, <1>3, CanonicalType
<1> HIDE DEF d
<1> DEFINE q == Append(d, x)
<1>6. q \in Paths /\ q # << >> /\ q # d /\ IsPrefix(d, q)
  BY <1>2, <1>5, AppendToPath
<1> HIDE DEF q
<1>7. Directory # Absent
  BY DEF Directory, Absent
<1>8. ASSUME NEW p \in DOMAIN tree, tree[p] # Absent, p # q, IsPrefix(q, p)
      PROVE  FALSE
  <2>1. q \in DOMAIN tree /\ tree[q] = Directory
    BY <1>6, <1>8, AboveIsDirectory
  <2>2. At(q) = Directory /\ IsDirectory(q)
    BY <1>6, <2>1, AtIs DEF IsDirectory, Directory
  <2>3. At(d) = Directory
    <3>1. CASE d = << >>
      <4>1. << >> \notin DOMAIN tree
        BY DEF TreeOK
      <4> QED BY <3>1, <4>1, AtIs
    <3>2. CASE d # << >>
      <4>1. tree[q] # Absent
        BY <1>7, <2>1
      <4>2. d \in DOMAIN tree /\ tree[d] = Directory
        BY <1>5, <1>6, <2>1, <3>2, <4>1, AboveIsDirectory
      <4> QED BY <3>2, <4>2, AtIs
    <3> QED BY <3>1, <3>2
  <2>4. Reaches(Absolute(o), TRUE) = q
    <3>1. IsDirectory(d)
      BY <2>3 DEF IsDirectory, Directory
    <3> QED BY <1>2, <1>4, <1>5, <2>2, <3>1, OneFurther DEF q
  <2>5. q # Nowhere
    BY <1>6, PathsAreRaw
  <2>6. Canonical(o) = q
    BY <1>7, <2>2, <2>4, <2>5 DEF Canonical
  <2> QED BY <1>1, <2>5, <2>6
<1> QED BY <1>1, <1>6, <1>8 DEF q

(* Loading makes a sound policy.                                           *)
LEMMA LoadIsSound ==
  ASSUME ConfigOK(raw), TreeOK(tree), Accepted,
         start'.roots = CanonicalRoots, start'.output = OutputPath, raw' = raw,
         policy' = [roots |-> SortRoots(CanonicalRoots), exact |-> Reduce(raw.exclusions),
                    recursive |-> {p[1] : p \in raw.recursive}]
  PROVE  PolicySound' /\ policy' # None
<1> DEFINE c == CanonicalRoots
<1>1. /\ RootsAccepted(c) /\ ExclusionsAccepted(raw.exclusions, c)
      /\ RecursiveAccepted(raw.recursive) /\ OutputAccepted(OutputPath, c)
  BY DEF Accepted
<1>2. /\ c \in Seq([id : Nat, path : Paths])
      /\ \A x \in ToSet(c) :
           x.path = << >> \/ (x.path \in DOMAIN tree /\ tree[x.path] # Absent)
  BY <1>1, RootsAreThere
<1>3. /\ SortRoots(c) \in Seq([id : Nat, path : Paths]) /\ ToSet(SortRoots(c)) = ToSet(c)
      /\ Ordered(PathsOf(SortRoots(c))) /\ NeighboursApart(PathsOf(SortRoots(c)))
      /\ \A x, y \in ToSet(c) : x # y => ~IsPrefix(x.path, y.path)
  <2> HIDE DEF c
  <2> QED BY <1>1, <1>2, RootsApart
<1>4. raw.exclusions \in Seq([id : Nat, path : Paths])
  <2> DEFINE s == raw.exclusions
  <2>1. s \in Seq([id : Nat, path : RawPaths]) /\ \A i \in DOMAIN s : s[i].path \in Paths
    BY <1>1 DEF ConfigOK, ExclusionsAccepted, Paths
  <2> HIDE DEF s
  <2>2. /\ Len(s) \in Nat /\ DOMAIN s = 1..Len(s) /\ s \in [1..Len(s) -> [id : Nat, path : RawPaths]]
    BY <2>1, LenProperties
  <2>3. s \in [1..Len(s) -> [id : Nat, path : Paths]]
    <3>1. ASSUME NEW i \in 1..Len(s) PROVE s[i] \in [id : Nat, path : Paths]
      <4>1. s[i] \in [id : Nat, path : RawPaths] /\ s[i].path \in Paths
        BY <2>1, <2>2
      <4> QED BY <4>1
    <3> QED BY <2>2, <3>1
  <2> QED BY <2>2, <2>3, SeqDef DEF s
<1>5. /\ Covers(Reduce(raw.exclusions), ToSet(raw.exclusions))
      /\ \A e \in ToSet(raw.exclusions) : e.path \in Paths
  <2>1. ToSet(raw.exclusions) \subseteq [id : Nat, path : Paths]
    BY <1>4, OwnElements
  <2> QED BY <1>4, <2>1, ReduceCovers
<1>6. /\ OutputPath \in Paths
      /\ \A x \in ToSet(c) : ~IsPrefix(OutputPath, x.path) /\ ~IsPrefix(x.path, OutputPath)
  <2>1. OutputPath # Nowhere /\ \A i \in DOMAIN c : ~IsPrefix(c[i].path, OutputPath)
    BY <1>1 DEF OutputAccepted
  <2>2. /\ OutputPath \in Paths /\ OutputPath # << >>
        /\ \A p \in DOMAIN tree :
              tree[p] # Absent /\ p # OutputPath => ~IsPrefix(OutputPath, p)
    BY <2>1, OutputIsNew
  <2>3. \A x \in ToSet(c) : x \in [id : Nat, path : Paths] /\ ~IsPrefix(x.path, OutputPath)
    BY <1>2, <2>1, OwnElements DEF ToSet
  <2> HIDE DEF c
  <2>4. ASSUME NEW x \in ToSet(c) PROVE ~IsPrefix(OutputPath, x.path)
    <3>1. x.path \in Paths
      BY <2>3
    <3>2. CASE x.path = << >>
      <4>1. IsPrefix(x.path, OutputPath)
        BY <2>2, <3>1, <3>2, PrefixByComponents, PathFacts, EmptySeq
      <4> QED BY <2>3, <4>1
    <3>3. CASE x.path # << >>
      <4>1. x.path \in DOMAIN tree /\ tree[x.path] # Absent
        BY <1>2, <3>3
      <4>2. x.path # OutputPath
        <5>1. IsPrefix(OutputPath, OutputPath)
          BY <2>2, PrefixByComponents, PathFacts
        <5> QED BY <2>3, <5>1
      <4> QED BY <2>2, <4>1, <4>2
    <3> QED BY <3>2, <3>3
  <2> QED BY <2>2, <2>3, <2>4
<1>7. policy' # None
  <2>1. \A p \in raw.recursive : p[1] \in Names
    <3>1. ASSUME NEW p \in raw.recursive PROVE p[1] \in Names
      <4>1. p \in Seq(Names \cup {Up}) /\ Len(p) = 1 /\ p # <<Up>>
        BY <1>1 DEF ConfigOK, RawPaths, RecursiveAccepted
      <4>2. p[1] \in Names \cup {Up}
        BY <4>1
      <4>3. p = <<p[1]>>
        BY <4>1
      <4> QED BY <4>1, <4>2, <4>3
    <3> QED BY <3>1
  <2>2. Reduce(raw.exclusions) \subseteq [id : Nat, path : RawPaths]
    <3>1. ToSet(raw.exclusions) \subseteq [id : Nat, path : Paths]
      BY <1>4, OwnElements
    <3>2. \A e \in [id : Nat, path : Paths] : e \in [id : Nat, path : RawPaths]
      BY PathsAreRaw
    <3> QED BY <1>5, <3>1, <3>2 DEF Covers
  <2>3. {p[1] : p \in raw.recursive} \subseteq Names
    BY <2>1
  <2>4. policy' \in [roots : Seq([id : Nat, path : Paths]),
                     exact : SUBSET [id : Nat, path : RawPaths], recursive : SUBSET Names]
    BY <1>3, <2>2, <2>3
  <2> QED BY <2>4, NoneAssumption
<1> HIDE DEF c
<1>8. /\ policy'.roots = SortRoots(c) /\ policy'.exact = Reduce(raw.exclusions)
      /\ policy'.recursive = {p[1] : p \in raw.recursive}
      /\ policy' = [roots |-> policy'.roots, exact |-> policy'.exact,
                    recursive |-> policy'.recursive]
  BY DEF c
<1>9. start'.roots = c /\ start'.output = OutputPath /\ raw' = raw
  BY DEF c
<1> QED BY <1>1, <1>3, <1>5, <1>6, <1>7, <1>8, <1>9 DEF PolicySound


(* A path that has a key has one, and it has one exactly if the            *)
(* configuration, read directly, asks for it.                              *)
LEMMA KeysAreWanted ==
  ASSUME PolicySound, policy # None, raw.recursive \subseteq RawPaths, NEW p \in Paths
  PROVE  /\ Wanted(p) <=> Locate(policy, p) # {}
         /\ Locate(policy, p) # {} => Cardinality(Locate(policy, p)) = 1
         /\ Wanted(p) => Cardinality(RootsAbove(p)) = 1
         /\ Wanted(p) => ~IsPrefix(start.output, p)
<1> DEFINE roots == policy.roots
           exclusions == ToSet(raw.exclusions)
           exact == policy.exact
           recursive == policy.recursive
<1>1. /\ policy = [roots |-> roots, exact |-> exact, recursive |-> recursive]
      /\ roots \in Seq([id : Nat, path : Paths]) /\ ToSet(roots) = ToSet(start.roots)
      /\ Ordered(PathsOf(roots)) /\ NeighboursApart(PathsOf(roots))
      /\ \A x, y \in ToSet(start.roots) : x # y => ~IsPrefix(x.path, y.path)
      /\ \A e \in exclusions : e.path \in Paths
      /\ Covers(exact, exclusions)
      /\ recursive = {q[1] : q \in raw.recursive}
      /\ \A q \in raw.recursive : Len(q) = 1
      /\ start.output \in Paths
      /\ \A x \in ToSet(start.roots) :
           ~IsPrefix(start.output, x.path) /\ ~IsPrefix(x.path, start.output)
  BY DEF PolicySound, RecursiveAccepted
<1> HIDE DEF roots, exclusions, exact, recursive
<1>2. /\ Locate(policy, p) # {} <=> Asked(roots, exclusions, recursive, p)
      /\ \A k, l \in Locate(policy, p) : k = l
  <2> DEFINE made == [roots |-> roots, exact |-> exact, recursive |-> recursive]
  <2>1. /\ roots \in Seq([id : Nat, path : Paths])
        /\ Ordered(PathsOf(roots)) /\ NeighboursApart(PathsOf(roots))
        /\ \A e \in exclusions : e.path \in Paths
        /\ Covers(exact, exclusions)
    BY <1>1
  <2>2. /\ Locate(made, p) # {} <=> Asked(roots, exclusions, recursive, p)
        /\ \A k, l \in Locate(made, p) : k = l
    BY <2>1, LookupIsExact, Zenon
  <2> QED BY <1>1, <2>2
<1>3. \A n : <<n>> \in raw.recursive <=> n \in recursive
  <2>1. ASSUME NEW q \in raw.recursive PROVE q = <<q[1]>>
    <3>1. q \in Seq(Names \cup {Up}) /\ Len(q) = 1
      BY <1>1 DEF RawPaths
    <3> QED BY <3>1
  <2> QED BY <1>1, <2>1
<1>4. Asked(roots, exclusions, recursive, p) <=> Wanted(p)
  <2> DEFINE Asks(r) ==
        /\ IsPrefix(r.path, p) /\ r.path # p
        /\ \A e \in exclusions : e.id = r.id => ~IsPrefix(e.path, Relative(r, p))
        /\ \A k \in (Len(r.path) + 1)..Len(p) : p[k] \notin recursive
  <2>1. Asked(roots, exclusions, recursive, p) <=> \E i \in DOMAIN roots : Asks(roots[i])
    BY Zenon DEF Asked
  <2>2. Wanted(p) <=> \E r \in ToSet(start.roots) : Asks(r)
    BY <1>3 DEF Wanted, RootsAbove, IsStrictPrefix, exclusions
  <2> HIDE DEF Asks
  <2>3. (\E i \in DOMAIN roots : Asks(roots[i])) <=> \E r \in ToSet(roots) : Asks(r)
    BY DEF ToSet
  <2> QED BY <1>1, <2>1, <2>2, <2>3
<1>5. Locate(policy, p) # {} => Cardinality(Locate(policy, p)) = 1
  <2>1. ASSUME NEW k \in Locate(policy, p) PROVE Cardinality(Locate(policy, p)) = 1
    <3>1. Locate(policy, p) = {k}
      BY <1>2
    <3> QED BY <3>1, FS_Singleton
  <2> QED BY <2>1
<1>6. \A x \in ToSet(start.roots) : x.path \in Paths
  <2>1. \A x \in ToSet(roots) : x \in [id : Nat, path : Paths]
    BY <1>1, OwnElements
  <2> QED BY <1>1, <2>1
<1>7. Wanted(p) => RootsAbove(p) # {}
  BY DEF Wanted
<1>8. ASSUME NEW x \in RootsAbove(p)
      PROVE  Cardinality(RootsAbove(p)) = 1 /\ ~IsPrefix(start.output, p)
  <2>1. x \in ToSet(start.roots) /\ IsPrefix(x.path, p) /\ x.path \in Paths
    BY <1>6 DEF RootsAbove, IsStrictPrefix
  <2>2. ASSUME NEW y \in RootsAbove(p) PROVE y = x
    <3>1. y \in ToSet(start.roots) /\ IsPrefix(y.path, p) /\ y.path \in Paths
      BY <1>6 DEF RootsAbove, IsStrictPrefix
    <3> QED BY <1>1, <2>1, <3>1, PrefixesCompare
  <2>3. RootsAbove(p) = {x}
    BY <2>2
  <2>4. ~IsPrefix(start.output, p)
    BY <1>1, <2>1, PrefixesCompare
  <2> QED BY <2>3, <2>4, FS_Singleton
<1> QED BY <1>2, <1>4, <1>5, <1>7, <1>8

-----------------------------------------------------------------------------
(* The invariant.  A policy is made while the tree is still as it was, of  *)
(* which nothing is known later but that its entries are well formed.      *)

CallsLetThrough == Calls \cup [op : {"fchmod"}, inode : Inodes]

Typed ==
  /\ phase \in {"load", "run", "rejected"}
  /\ phase = "run" <=> policy # None
  /\ phase = "load" =>
       /\ DOMAIN before = {} /\ \A t \in Threads : pending[t] = None
       /\ \A h \in handles : ~h.writable
  /\ ConfigOK(raw)
  /\ TreeOK(tree)
  /\ data \in [Inodes -> Inodes \cup {Changed}]
  /\ handles \subseteq [inode : Inodes, writable : BOOLEAN]
  /\ pending \in [Threads -> CallsLetThrough \cup {None}]
  /\ \A p \in DOMAIN before : Cardinality(Locate(policy, p)) = 1
  /\ left \in Nat
  /\ DOMAIN start = {"states", "roots", "output"}

IInv == Typed /\ PolicySound

LEMMA Handles ==
  \A i \in Inodes : \A w \in BOOLEAN :
    [inode |-> i, writable |-> w] \in [inode : Inodes, writable : BOOLEAN]
OBVIOUS

LEMMA Initially == Init => IInv
<1> SUFFICES ASSUME Init PROVE IInv
  OBVIOUS
<1>1. PICK case \in Cases :
        /\ raw = case.config /\ tree = case.tree /\ left = case.calls
        /\ handles = {[inode |-> i, writable |-> FALSE] : i \in case.inherited}
  BY Zenon DEF Init
<1>2. /\ ConfigOK(raw) /\ TreeOK(tree) /\ left \in Nat
      /\ handles \subseteq [inode : Inodes, writable : BOOLEAN]
  <2>1. /\ ConfigOK(case.config) /\ TreeOK(case.tree)
        /\ case.inherited \subseteq Inodes /\ case.calls \in Nat
    BY CasesAssumption, Zenon
  <2>2. handles \subseteq [inode : Inodes, writable : BOOLEAN]
    <3>1. \A i \in case.inherited :
            [inode |-> i, writable |-> FALSE] \in [inode : Inodes, writable : BOOLEAN]
      BY <2>1, Handles
    <3>2. handles = {[inode |-> i, writable |-> FALSE] : i \in case.inherited}
      BY <1>1
    <3>3. ASSUME NEW h \in handles PROVE h \in [inode : Inodes, writable : BOOLEAN]
      <4>1. PICK i \in case.inherited : h = [inode |-> i, writable |-> FALSE]
        BY <3>2, Zenon
      <4> QED BY <3>1, <4>1, Zenon
    <3> QED BY <3>3
  <2>3. ConfigOK(raw) /\ TreeOK(tree)
    BY <1>1, <2>1, Zenon
  <2> QED BY <1>1, <2>1, <2>2, <2>3
<1>3. /\ phase = "load" /\ policy = None /\ data = [i \in Inodes |-> i]
      /\ pending = [t \in Threads |-> None] /\ before = [p \in {} |-> Absent]
      /\ DOMAIN start = {"states", "roots", "output"}
  BY DEF Init
<1>4. ASSUME NEW h \in handles PROVE ~h.writable
  <2>1. PICK i : h = [inode |-> i, writable |-> FALSE]
    BY <1>1
  <2> QED BY <2>1
<1>5. /\ DOMAIN before = {} /\ pending \in [Threads -> CallsLetThrough \cup {None}]
      /\ data \in [Inodes -> Inodes \cup {Changed}]
      /\ \A t \in Threads : pending[t] = None
  BY <1>3
<1>6. Typed
  BY <1>2, <1>3, <1>4, <1>5 DEF Typed
<1> QED BY <1>3, <1>6 DEF IInv, PolicySound

LEMMA PolicyKept ==
  ASSUME PolicySound, UNCHANGED <<raw, policy, start>>
  PROVE  PolicySound'
BY DEF PolicySound

LEMMA LoadKeeps ==
  ASSUME IInv, Load
  PROVE  IInv'
<1>1. /\ phase = "load" /\ TreeOK(tree) /\ ConfigOK(raw) /\ DOMAIN before = {}
      /\ policy = None /\ DOMAIN start = {"states", "roots", "output"}
  BY DEF Load, IInv, Typed
<1>2. UNCHANGED <<raw, tree, data, handles, pending, before, left>>
  BY DEF Load
<1>3. CASE Accepted
  <2>1. /\ phase' = "run"
        /\ policy' = [roots |-> SortRoots(CanonicalRoots), exact |-> Reduce(raw.exclusions),
                      recursive |-> {p[1] : p \in raw.recursive}]
        /\ start' = [start EXCEPT !.roots = CanonicalRoots, !.output = OutputPath]
    BY <1>3 DEF Load
  <2>2. /\ start'.roots = CanonicalRoots /\ start'.output = OutputPath
        /\ DOMAIN start' = {"states", "roots", "output"}
    BY <1>1, <2>1
  <2>3. PolicySound' /\ policy' # None
    BY <1>1, <1>2, <1>3, <2>1, <2>2, LoadIsSound
  <2>4. Typed'
    BY <1>1, <1>2, <2>1, <2>2, <2>3 DEF IInv, Typed
  <2> QED BY <2>3, <2>4 DEF IInv
<1>4. CASE ~Accepted
  <2>1. phase' = "rejected" /\ policy' = policy /\ start' = start
    BY <1>4 DEF Load
  <2>2. Typed'
    BY <1>1, <1>2, <2>1 DEF IInv, Typed
  <2> QED BY <1>2, <2>1, <2>2, PolicyKept DEF IInv
<1> QED BY <1>3, <1>4

(* Only a path with a single key is captured.                              *)
LEMMA CapturesKeys ==
  ASSUME IInv, policy # None, NEW paths \in SUBSET Paths
  PROVE  \A p \in DOMAIN WithOriginals(paths) : Cardinality(Locate(policy, p)) = 1
<1> DEFINE new == {p \in paths : Locate(policy, p) # {}} \ DOMAIN before
<1>1. DOMAIN WithOriginals(paths) = DOMAIN before \cup new
  BY DEF WithOriginals
<1>2. raw.recursive \subseteq RawPaths /\ PolicySound
  BY DEF IInv, Typed, ConfigOK
<1>3. \A p \in new : Cardinality(Locate(policy, p)) = 1
  BY <1>2, KeysAreWanted
<1>4. \A p \in DOMAIN before : Cardinality(Locate(policy, p)) = 1
  BY DEF IInv, Typed
<1> QED BY <1>1, <1>3, <1>4

(* A call that is let through.                                             *)
LEMMA CallingKeeps ==
  ASSUME IInv, NEW t \in Threads, NEW c \in CallsLetThrough, Calling(t, c),
         \A p \in DOMAIN before' : Cardinality(Locate(policy, p)) = 1
  PROVE  IInv'
<1>1. /\ phase = "run" /\ left > 0 /\ left' = left - 1
      /\ pending' = [pending EXCEPT ![t] = c]
      /\ UNCHANGED <<raw, policy, phase, tree, data, handles, start>>
  BY DEF Calling
<1>2. pending' \in [Threads -> CallsLetThrough \cup {None}]
  BY <1>1 DEF IInv, Typed
<1>3. left' \in Nat
  BY <1>1 DEF IInv, Typed
<1>4. Typed'
  BY <1>1, <1>2, <1>3 DEF IInv, Typed
<1> QED BY <1>1, <1>4, PolicyKept DEF IInv

LEMMA PathCallKeeps ==
  ASSUME IInv, NEW t \in Threads, PathCall(t)
  PROVE  IInv'
<1>1. PICK c \in Calls : Calling(t, c) /\ ProcessPaths(c)
  BY DEF PathCall
<1> DEFINE ps == Arguments(c)
<1>2. DOMAIN tree \subseteq Paths
  BY DEF IInv, Typed, TreeOK
<1>3. \A i \in DOMAIN ps : ps[i] \in Paths
  BY <1>2, ArgumentsType
<1> HIDE DEF ps
<1>4. BeforeDirectory(ps) \in SUBSET Paths
  BY <1>3 DEF BeforeDirectory
<1>5. before' = WithOriginals(BeforeDirectory(ps))
  BY <1>1 DEF ProcessPaths, ps
<1>6. policy # None
  BY <1>1 DEF Calling, IInv, Typed
<1>7. c \in CallsLetThrough
  BY DEF CallsLetThrough
<1> QED BY <1>1, <1>4, <1>5, <1>6, <1>7, CapturesKeys, CallingKeeps

LEMMA DescriptorCallKeeps ==
  ASSUME IInv, NEW t \in Threads, DescriptorCall(t)
  PROVE  IInv'
<1>1. PICK h \in handles :
        /\ Calling(t, [op |-> "fchmod", inode |-> h.inode])
        /\ ProcessDescriptor(h.inode)
  BY DEF DescriptorCall
<1>2. h \in [inode : Inodes, writable : BOOLEAN]
  BY DEF IInv, Typed
<1>3. [op |-> "fchmod", inode |-> h.inode] \in CallsLetThrough
  BY <1>2 DEF CallsLetThrough
<1>4. policy # None
  BY <1>1 DEF Calling, IInv, Typed
<1>5. \A p \in DOMAIN before' : Cardinality(Locate(policy, p)) = 1
  <2>1. CASE NamesOf(h.inode) = {}
    <3>1. before' = before
      BY <1>1, <2>1 DEF ProcessDescriptor
    <3> QED BY <3>1 DEF IInv, Typed
  <2>2. CASE NamesOf(h.inode) # {}
    <3>1. PICK p \in NamesOf(h.inode) : before' = WithOriginals({p})
      BY <1>1, <2>2 DEF ProcessDescriptor
    <3>2. {p} \in SUBSET Paths
      BY DEF NamesOf, IInv, Typed, TreeOK
    <3> QED BY <1>4, <3>1, <3>2, CapturesKeys
  <2> QED BY <2>1, <2>2
<1> QED BY <1>1, <1>3, <1>5, CallingKeeps

-----------------------------------------------------------------------------
(* The kernel's part.                                                      *)

(* What is found at a location is an entry, and a file has an inode.       *)
LEMMA EntryThere ==
  ASSUME IInv, NEW q
  PROVE  /\ (IsFile(q) \/ IsLink(q)) => EntryOK(At(q)) /\ q \in DOMAIN tree
         /\ IsFile(q) => At(q).inode \in Inodes
<1>1. ASSUME IsFile(q) \/ IsLink(q)
      PROVE  q \in DOMAIN tree /\ At(q) = tree[q]
  BY <1>1 DEF IsFile, IsLink, At, Directory, Absent, IInv, Typed, TreeOK
<1>2. \A p \in DOMAIN tree : EntryOK(tree[p])
  BY DEF IInv, Typed, TreeOK
<1>3. ASSUME NEW e, EntryOK(e), e.kind = "file"
      PROVE  e.inode \in Inodes
  BY <1>3 DEF EntryOK, Absent, Directory, File
<1> QED BY <1>1, <1>2, <1>3 DEF IsFile

LEMMA Entries ==
  EntryOK(Absent) /\ \A i \in Inodes : EntryOK(File(i))
BY DEF EntryOK

(* A location has what the tree says.                                      *)
LEMMA Locations ==
  ASSUME TreeOK(tree), NEW q \in DOMAIN tree
  PROVE  /\ At(q) = tree[q] /\ q # << >> /\ q \in Paths /\ q # Nowhere
         /\ IsDirectory(q) <=> tree[q] = Directory
<1>1. q # << >> /\ q \in Paths /\ EntryOK(tree[q])
  BY DEF TreeOK
<1>2. At(q) = tree[q]
  BY <1>1, AtIs
<1>3. tree[q].kind = "directory" <=> tree[q] = Directory
  BY <1>1 DEF EntryOK, Absent, Directory, File
<1> QED BY <1>1, <1>2, <1>3, PathsAreRaw DEF IsDirectory

(* Directories stay, whatever else comes to be.                            *)
LEMMA Replaced ==
  ASSUME TreeOK(tree), DOMAIN tree' = DOMAIN tree,
         \A p \in DOMAIN tree : \/ tree'[p] = tree[p]
                                \/ EntryOK(tree'[p]) /\ tree[p] # Directory
  PROVE  TreeOK(tree')
BY DEF TreeOK

LEMMA ReturnsKeeps ==
  ASSUME IInv, NEW t \in Threads, pending[t] # None, Returns(t),
         TreeOK(tree'),
         data' \in [Inodes -> Inodes \cup {Changed}],
         handles' \subseteq [inode : Inodes, writable : BOOLEAN]
  PROVE  IInv'
<1>1. /\ pending' = [pending EXCEPT ![t] = None]
      /\ UNCHANGED <<raw, policy, phase, before, gaps, left, start>>
  BY DEF Returns
<1>2. pending' \in [Threads -> CallsLetThrough \cup {None}]
  BY <1>1 DEF IInv, Typed
<1>3. phase # "load"
  BY DEF IInv, Typed
<1>4. Typed'
  BY <1>1, <1>2, <1>3 DEF IInv, Typed
<1> QED BY <1>1, <1>4, PolicyKept DEF IInv

LEMMA OpenFileKeeps ==
  ASSUME IInv, NEW t \in Threads, OpenFile(t)
  PROVE  IInv'
<1> DEFINE c == pending[t]
           q == Reaches(c.path, TRUE)
<1>1. /\ c # None /\ IsFile(q) /\ Opens(At(q).inode, c.op # "open_read")
      /\ data' = IF c.op = "creat" THEN [data EXCEPT ![At(q).inode] = Changed] ELSE data
      /\ tree' = tree /\ Returns(t)
  BY DEF OpenFile
<1> HIDE DEF q
<1>2. At(q).inode \in Inodes
  BY <1>1, EntryThere
<1> DEFINE i == At(q).inode
<1> HIDE DEF i
<1>3. data' \in [Inodes -> Inodes \cup {Changed}]
  BY <1>1 DEF IInv, Typed
<1>4. handles' \subseteq [inode : Inodes, writable : BOOLEAN]
  <2>1. handles' = handles \cup {[inode |-> i, writable |-> c.op # "open_read"]}
    BY <1>1 DEF Opens, i
  <2>2. i \in Inodes /\ (c.op # "open_read") \in BOOLEAN
    BY <1>2 DEF i
  <2>3. [inode |-> i, writable |-> c.op # "open_read"] \in [inode : Inodes, writable : BOOLEAN]
    <3> DEFINE w == c.op # "open_read"
    <3>1. w \in BOOLEAN
      OBVIOUS
    <3> HIDE DEF w
    <3>2. [inode |-> i, writable |-> w] \in [inode : Inodes, writable : BOOLEAN]
      BY <2>2, <3>1, Handles
    <3> QED BY <3>2 DEF w
  <2>4. handles \subseteq [inode : Inodes, writable : BOOLEAN]
    BY DEF IInv, Typed
  <2> QED BY <2>1, <2>3, <2>4, Zenon
<1>5. TreeOK(tree)
  BY DEF IInv, Typed
<1> QED BY <1>1, <1>3, <1>4, <1>5, ReturnsKeeps

LEMMA CreateFileKeeps ==
  ASSUME IInv, NEW t \in Threads, CreateFile(t)
  PROVE  IInv'
<1> DEFINE q == Reaches(pending[t].path, TRUE)
<1>1. pending[t] # None /\ Returns(t) /\ q \in DOMAIN tree /\ At(q) = Absent
  BY DEF CreateFile
<1>2. PICK i \in Fresh :
        /\ tree' = [tree EXCEPT ![q] = File(i)]
        /\ data' = [data EXCEPT ![i] = Changed]
        /\ Opens(i, TRUE)
  BY DEF CreateFile
<1> HIDE DEF q
<1>3. i \in Inodes /\ TreeOK(tree)
  BY DEF Fresh, IInv, Typed
<1>4. data' \in [Inodes -> Inodes \cup {Changed}]
  BY <1>2 DEF IInv, Typed
<1>5. handles' \subseteq [inode : Inodes, writable : BOOLEAN]
  <2>1. [inode |-> i, writable |-> TRUE] \in [inode : Inodes, writable : BOOLEAN]
    BY <1>3, Handles
  <2>2. handles' = handles \cup {[inode |-> i, writable |-> TRUE]}
    BY <1>2 DEF Opens
  <2>3. handles \subseteq [inode : Inodes, writable : BOOLEAN]
    BY DEF IInv, Typed
  <2> QED BY <2>1, <2>2, <2>3, Zenon
<1>6. TreeOK(tree')
  <2>1. tree[q] # Directory
    BY <1>1, <1>3, Locations DEF Absent, Directory
  <2>2. /\ DOMAIN tree' = DOMAIN tree /\ tree'[q] = File(i)
        /\ \A p \in DOMAIN tree : p # q => tree'[p] = tree[p]
    BY <1>1, <1>2
  <2> QED BY <1>3, <2>1, <2>2, Entries, Replaced
<1> QED BY <1>1, <1>4, <1>5, <1>6, ReturnsKeeps

LEMMA ChangesKeep ==
  ASSUME IInv, NEW t \in Threads, ChangeFile(t) \/ ChangeDescriptor(t)
  PROVE  IInv'
<1>1. /\ pending[t] # None /\ Returns(t) /\ UNCHANGED <<tree, handles>>
      /\ \E i : data' = [data EXCEPT ![i] = Changed]
  BY DEF ChangeFile, ChangeDescriptor
<1>2. data' \in [Inodes -> Inodes \cup {Changed}]
  BY <1>1 DEF IInv, Typed
<1>3. /\ TreeOK(tree)
      /\ handles \subseteq [inode : Inodes, writable : BOOLEAN]
  BY DEF IInv, Typed
<1> QED BY <1>1, <1>2, <1>3, ReturnsKeeps

(* Names are removed, made and moved, each to an entry.                    *)
LEMMA NamesKeep ==
  ASSUME IInv, NEW t \in Threads,
         \/ Unlink(t) \/ Symlink(t) \/ Rename(t) \/ HardLink(t)
  PROVE  IInv'
<1>1. pending[t] # None /\ Returns(t) /\ UNCHANGED <<data, handles>>
  BY DEF Unlink, Symlink, Rename, HardLink
<1>2. /\ TreeOK(tree)
      /\ data \in [Inodes -> Inodes \cup {Changed}]
      /\ handles \subseteq [inode : Inodes, writable : BOOLEAN]
      /\ pending[t] \in CallsLetThrough
  BY <1>1 DEF IInv, Typed
<1>3. ASSUME NEW q \in DOMAIN tree, ~IsDirectory(q), NEW e, EntryOK(e),
             tree' = [tree EXCEPT ![q] = e]
      PROVE  TreeOK(tree')
  <2>1. tree[q] # Directory
    BY <1>2, <1>3, Locations
  <2>2. DOMAIN tree' = DOMAIN tree /\ \A p \in DOMAIN tree : p # q => tree'[p] = tree[p]
    BY <1>3
  <2>3. tree'[q] = e
    BY <1>3
  <2> QED BY <1>2, <1>3, <2>1, <2>2, <2>3, Replaced
<1>4. CASE Unlink(t)
  <2>1. PICK q : (IsFile(q) \/ IsLink(q)) /\ tree' = [tree EXCEPT ![q] = Absent]
    BY <1>4 DEF Unlink
  <2>2. q \in DOMAIN tree /\ ~IsDirectory(q)
    BY <2>1, EntryThere DEF IsFile, IsLink, IsDirectory
  <2> QED BY <1>1, <1>2, <1>3, <2>1, <2>2, Entries, ReturnsKeeps
<1>5. CASE Symlink(t)
  <2>1. /\ pending[t].op = "symlink"
        /\ \E q \in DOMAIN tree :
             At(q) = Absent /\ tree' = [tree EXCEPT ![q] = Link(pending[t].target)]
    BY <1>5 DEF Symlink
  <2>2. PICK q \in DOMAIN tree :
          At(q) = Absent /\ tree' = [tree EXCEPT ![q] = Link(pending[t].target)]
    BY <2>1
  <2>3. pending[t].target \in Targets
    BY <1>2, <2>1 DEF CallsLetThrough, Calls, Following, TwoPaths
  <2>4. EntryOK(Link(pending[t].target))
    BY <2>3, CallsAssumption
  <2>5. ~IsDirectory(q)
    BY <2>2 DEF IsDirectory, Absent
  <2> QED BY <1>1, <1>2, <1>3, <2>2, <2>4, <2>5, ReturnsKeeps
<1>6. CASE Rename(t)
  <2> DEFINE q == Reaches(pending[t].path, FALSE)
             r == Reaches(pending[t].to, FALSE)
  <2>1. /\ IsFile(q) \/ IsLink(q)
        /\ r \in DOMAIN tree \ {q} /\ ~IsDirectory(r)
        /\ tree' = [tree EXCEPT ![r] = At(q), ![q] = Absent]
    BY <1>6 DEF Rename
  <2> HIDE DEF q, r
  <2>2. EntryOK(At(q)) /\ q \in DOMAIN tree /\ ~IsDirectory(q)
    BY <2>1, EntryThere DEF IsFile, IsLink, IsDirectory
  <2> DEFINE e == At(q)
  <2> HIDE DEF e
  <2>3. tree' = [tree EXCEPT ![r] = e, ![q] = Absent] /\ EntryOK(e)
    BY <2>1, <2>2 DEF e
  <2>4. /\ DOMAIN tree' = DOMAIN tree /\ tree'[q] = Absent /\ tree'[r] = e
        /\ \A p \in DOMAIN tree : p # q /\ p # r => tree'[p] = tree[p]
    BY <2>1, <2>2, <2>3
  <2>5. tree[q] # Directory /\ tree[r] # Directory
    BY <1>2, <2>1, <2>2, Locations
  <2>6. TreeOK(tree')
    BY <1>2, <2>3, <2>4, <2>5, Entries, Replaced
  <2> QED BY <1>1, <1>2, <2>6, ReturnsKeeps
<1>7. CASE HardLink(t)
  <2> DEFINE q == Reaches(pending[t].path, FALSE)
             r == Reaches(pending[t].to, FALSE)
  <2>1. /\ IsFile(q) /\ r \in DOMAIN tree /\ At(r) = Absent
        /\ tree' = [tree EXCEPT ![r] = At(q)]
    BY <1>7 DEF HardLink
  <2> HIDE DEF q, r
  <2>2. EntryOK(At(q)) /\ ~IsDirectory(r)
    BY <2>1, EntryThere DEF IsDirectory, Absent
  <2> QED BY <1>1, <1>2, <1>3, <2>1, <2>2, ReturnsKeeps
<1> QED BY <1>4, <1>5, <1>6, <1>7

LEMMA FailsKeeps ==
  ASSUME IInv, NEW t \in Threads, Fails(t)
  PROVE  IInv'
<1>1. pending[t] # None /\ Returns(t) /\ UNCHANGED <<tree, data, handles>>
  BY DEF Fails
<1>2. /\ TreeOK(tree)
      /\ data \in [Inodes -> Inodes \cup {Changed}]
      /\ handles \subseteq [inode : Inodes, writable : BOOLEAN]
  BY DEF IInv, Typed
<1> QED BY <1>1, <1>2, ReturnsKeeps

LEMMA WriteKeeps ==
  ASSUME IInv, Write
  PROVE  IInv'
<1>1. /\ \E i : data' = [data EXCEPT ![i] = Changed]
      /\ UNCHANGED <<raw, policy, phase, tree, handles, pending, before, left, start>>
  BY DEF Write
<1>2. data' \in [Inodes -> Inodes \cup {Changed}]
  BY <1>1 DEF IInv, Typed
<1>3. Typed'
  BY <1>1, <1>2 DEF IInv, Typed
<1> QED BY <1>1, <1>3, PolicyKept DEF IInv

(* Every step keeps the invariant.                                         *)
LEMMA StepKeeps == IInv /\ [Next]_vars => IInv'
<1> SUFFICES ASSUME IInv, [Next]_vars PROVE IInv'
  OBVIOUS
<1>1. CASE Load
  BY <1>1, LoadKeeps
<1>2. CASE \E t \in Threads : PathCall(t) \/ DescriptorCall(t) \/ Kernel(t)
  <2>1. PICK t \in Threads : PathCall(t) \/ DescriptorCall(t) \/ Kernel(t)
    BY <1>2
  <2>2. CASE PathCall(t) \/ DescriptorCall(t)
    BY <2>2, PathCallKeeps, DescriptorCallKeeps
  <2>3. CASE Kernel(t)
    BY <2>3, OpenFileKeeps, CreateFileKeeps, ChangesKeep, NamesKeep, FailsKeeps DEF Kernel
  <2> QED BY <2>1, <2>2, <2>3
<1>3. CASE Write
  BY <1>3, WriteKeeps
<1>4. CASE UNCHANGED vars
  <2>1. UNCHANGED <<raw, policy, phase, tree, data, handles, pending, before, left, start>>
    BY <1>4 DEF vars
  <2>2. Typed'
    BY <2>1 DEF IInv, Typed
  <2> QED BY <2>1, <2>2, PolicyKept DEF IInv
<1> QED BY <1>1, <1>2, <1>3, <1>4 DEF Next

LEMMA Invariance == Spec => []IInv
BY Initially, StepKeeps, PTL DEF Spec

(* Every variable keeps its type, whatever a run starts with and whatever  *)
(* the command does: what a file's name leads to is a file, and no path is *)
(* captured that has not exactly one key (supervisor.rs:374-578).          *)
THEOREM TrackingTypeCorrect == Spec => []TypeOK
<1>1. IInv => TypeOK
  <2> SUFFICES ASSUME IInv PROVE TypeOK
    OBVIOUS
  <2>1. ASSUME NEW p \in DOMAIN tree
        PROVE  At(p).kind \in {"absent", "directory", "file", "link"}
    <3>1. p # << >> /\ EntryOK(tree[p])
      BY DEF IInv, Typed, TreeOK
    <3>2. At(p) = tree[p]
      BY <3>1, AtIs
    <3> QED BY <3>1, <3>2 DEF EntryOK, Absent, Directory, File
  <2>2. ASSUME NEW t \in Threads, pending[t] # None
        PROVE  pending[t].op \in Following \cup NotFollowing \cup TwoPaths
                 \cup {"open_read", "creat", "fchmod", "io_uring"}
    <3>1. pending[t] \in Calls \cup [op : {"fchmod"}, inode : Inodes]
      BY <2>2 DEF IInv, Typed, CallsLetThrough
    <3> QED BY <3>1 DEF Calls, NotFollowing
  <2>3. \A h \in handles : h.inode \in Inodes /\ h.writable \in BOOLEAN
    BY DEF IInv, Typed
  <2> QED BY <2>1, <2>2, <2>3 DEF IInv, Typed, TypeOK
<1> QED BY <1>1, Invariance, PTL

(* Whatever the configuration and the tree: once a policy is made of them, *)
(* its roots are in order and none is inside another, a path has a key     *)
(* exactly if the configuration asks for it, under one root only, and      *)
(* nothing that has one is in the output (config.rs:239-371,               *)
(* capture.rs:57-133).                                                     *)
THEOREM PolicyAlwaysExact == Spec => []PolicyIsExact
<1>1. IInv => PolicyIsExact
  <2> SUFFICES ASSUME IInv, policy # None
               PROVE  /\ Ordered(PathsOf(policy.roots))
                      /\ \A r, s \in ToSet(start.roots) : r # s => ~IsPrefix(r.path, s.path)
                      /\ \A p \in DOMAIN tree :
                           /\ Wanted(p) <=> Locate(policy, p) # {}
                           /\ Wanted(p) => Cardinality(RootsAbove(p)) = 1
                           /\ Wanted(p) => ~IsPrefix(start.output, p)
    BY DEF PolicyIsExact
  <2>1. /\ PolicySound /\ raw.recursive \subseteq RawPaths
        /\ DOMAIN tree \subseteq Paths
    BY DEF IInv, Typed, TreeOK, ConfigOK
  <2>2. /\ Ordered(PathsOf(policy.roots))
        /\ \A r, s \in ToSet(start.roots) : r # s => ~IsPrefix(r.path, s.path)
    BY <2>1 DEF PolicySound
  <2> QED BY <2>1, <2>2, KeysAreWanted
<1> QED BY <1>1, Invariance, PTL

-----------------------------------------------------------------------------
(* Walks over the same links and directories are the same.                 *)

(* WalkExists, said of a tree at any time.                                 *)
IsWalkOf(f, base, p, follow) ==
  LET K == Len(p) + MaxLinks * MaxTarget
  IN  /\ f[0] = [at |-> base, rest |-> p, links |-> MaxLinks]
      /\ \A n \in 1..K : f[n] = WalkStep(f[n - 1], follow)
      /\ \A n \in 0..K : f[n] \in Walks
      /\ Reaches([base |-> base, raw |-> p], follow) =
           IF f[K].rest = << >> THEN f[K].at ELSE Nowhere

WalksAreThere ==
  TreeOK(tree) =>
    \A base \in Paths : \A p \in RawPaths : \A follow \in BOOLEAN :
      \E f : IsWalkOf(f, base, p, follow)

LEMMA WalksExist == WalksAreThere
BY WalkExists DEF IsWalkOf, WalksAreThere

LEMMA WalksExistLater == WalksAreThere'
BY WalksExist, PTL

SameShape ==
  /\ DOMAIN tree' = DOMAIN tree
  /\ \A p \in DOMAIN tree :
       \/ tree'[p] = tree[p]
       \/ tree[p].kind \in {"absent", "file"} /\ tree'[p].kind \in {"absent", "file"}

LEMMA ShapeSeen ==
  ASSUME TreeOK(tree), SameShape
  PROVE  \A p : /\ IsLink(p)' <=> IsLink(p)
                /\ IsDirectory(p)' <=> IsDirectory(p)
                /\ IsLink(p) => At(p)'.target = At(p).target
<1> TAKE p
<1>1. CASE p \in DOMAIN tree
  <2>1. p # << >> /\ p \in DOMAIN tree' /\ At(p) = tree[p]
    BY <1>1, Locations DEF SameShape
  <2>2. At(p)' = tree'[p]
    BY <2>1 DEF At
  <2> QED BY <1>1, <2>1, <2>2 DEF SameShape, IsLink, IsDirectory
<1>2. CASE p \notin DOMAIN tree
  <2>1. At(p)' = At(p)
    BY <1>2 DEF At, SameShape
  <2> QED BY <2>1 DEF IsLink, IsDirectory
<1> QED BY <1>1, <1>2

LEMMA SameStep ==
  ASSUME TreeOK(tree), SameShape, NEW w, NEW follow
  PROVE  WalkStep(w, follow)' = WalkStep(w, follow)
<1> DEFINE p == Append(w.at, Head(w.rest))
<1>1. /\ IsLink(p)' <=> IsLink(p)
      /\ IsDirectory(p)' <=> IsDirectory(p)
      /\ IsLink(p) => At(p)'.target = At(p).target
  BY ShapeSeen
<1> QED BY <1>1 DEF WalkStep

LEMMA SameReach ==
  ASSUME TreeOK(tree), TreeOK(tree)', SameShape,
         NEW base \in Paths, NEW p \in RawPaths, NEW follow \in BOOLEAN
  PROVE  Reaches([base |-> base, raw |-> p], follow)' =
           Reaches([base |-> base, raw |-> p], follow)
<1> DEFINE K == Len(p) + MaxLinks * MaxTarget
<1>1. PICK f : IsWalkOf(f, base, p, follow)
  BY WalksExist DEF WalksAreThere
<1>2. PICK g : IsWalkOf(g, base, p, follow)'
  BY WalksExistLater DEF WalksAreThere
<1>3. /\ f[0] = [at |-> base, rest |-> p, links |-> MaxLinks]
      /\ \A n \in 1..K : f[n] = WalkStep(f[n - 1], follow)
      /\ Reaches([base |-> base, raw |-> p], follow) =
           IF f[K].rest = << >> THEN f[K].at ELSE Nowhere
  BY <1>1 DEF IsWalkOf
<1>4. /\ g[0] = [at |-> base, rest |-> p, links |-> MaxLinks]
      /\ \A n \in 1..K : g[n] = WalkStep(g[n - 1], follow)'
      /\ Reaches([base |-> base, raw |-> p], follow)' =
           IF g[K].rest = << >> THEN g[K].at ELSE Nowhere
  BY <1>2 DEF IsWalkOf
<1>5. \A n \in 1..K : g[n] = WalkStep(g[n - 1], follow)
  BY <1>4, SameStep
<1>6. K \in Nat
  BY LenProperties, LinksAssumption DEF RawPaths
<1> HIDE DEF K
<1> DEFINE T == {n \in Nat : n <= K => f[n] = g[n]}
<1>7. Nat \subseteq T
  <2>1. 0 \in T
    BY <1>3, <1>4
  <2>2. ASSUME NEW n \in Nat, n \in T PROVE n + 1 \in T
    <3>1. ASSUME n + 1 <= K PROVE f[n + 1] = g[n + 1]
      <4>1. n + 1 \in 1..K /\ (n + 1) - 1 = n /\ n <= K
        BY <1>6, <3>1
      <4>2. f[n] = g[n]
        BY <2>2, <4>1
      <4> QED BY <1>3, <1>5, <4>1, <4>2
    <3> QED BY <3>1
  <2> HIDE DEF T
  <2> QED BY <2>1, <2>2, NumberByNumber
<1>8. f[K] = g[K]
  BY <1>6, <1>7
<1> QED BY <1>3, <1>4, <1>8

-----------------------------------------------------------------------------
(* Where a walk ends.  Every step leaves less of it.                       *)

Ahead(w) == Len(w.rest) + w.links * MaxTarget

LEMMA WalkFacts ==
  ASSUME NEW w \in Walks
  PROVE  /\ w.at \in RawPaths /\ w.rest \in RawPaths /\ w.links \in 0..MaxLinks
         /\ w.links \in Nat /\ Len(w.rest) \in Nat /\ Ahead(w) \in Nat
         /\ w.rest = << >> <=> Len(w.rest) = 0
         /\ Len(w.rest) <= Ahead(w)
<1>1. w.at \in RawPaths /\ w.rest \in RawPaths /\ w.links \in 0..MaxLinks
  BY DEF Walks
<1>2. Len(w.rest) \in Nat /\ (w.rest = << >> <=> Len(w.rest) = 0)
  BY <1>1, EmptySeq, LenProperties DEF RawPaths
<1>3. w.links \in Nat /\ MaxTarget \in Nat
  BY <1>1, LinksAssumption
<1>4. w.links * MaxTarget \in Nat
  BY <1>3
<1> QED BY <1>1, <1>2, <1>3, <1>4 DEF Ahead

LEMMA AheadFalls ==
  ASSUME TreeOK(tree), NEW w \in Walks, NEW follow, w.rest # << >>
  PROVE  Ahead(WalkStep(w, follow)) < Ahead(w)
<1> DEFINE c == Head(w.rest)
           p == Append(w.at, c)
           v == WalkStep(w, follow)
           onLink == IsLink(p) /\ (follow \/ Len(w.rest) # 1)
           M == MaxTarget
<1>1. /\ w.rest \in RawPaths /\ Len(w.rest) \in Nat /\ w.links \in Nat /\ Ahead(w) \in Nat
      /\ Len(w.rest) >= 1 /\ M \in Nat
  BY WalkFacts, LinksAssumption
<1>2. Tail(w.rest) \in RawPaths /\ Len(Tail(w.rest)) = Len(w.rest) - 1
  BY <1>1, HeadTailProperties DEF RawPaths
<1>3. \/ v.rest = Tail(w.rest) /\ v.links = w.links
      \/ v.rest = << >> /\ v.links = 0
      \/ /\ onLink /\ w.links # 0
         /\ v.rest = At(p).target \o Tail(w.rest) /\ v.links = w.links - 1
  <2> HIDE DEF p, c, onLink, v
  <2>1. \/ v = [at |-> Front1(w.at), rest |-> Tail(w.rest), links |-> w.links]
        \/ v = Lost
        \/ onLink /\ w.links # 0 /\ v =
             [at |-> << >>, rest |-> At(p).target \o Tail(w.rest), links |-> w.links - 1]
        \/ v = [at |-> p, rest |-> Tail(w.rest), links |-> w.links]
    BY WalkStepIs DEF p, c, onLink, v
  <2>2. Lost.rest = << >> /\ Lost.links = 0
    BY DEF Lost
  <2>3. \A q : LET u == [at |-> q, rest |-> Tail(w.rest), links |-> w.links]
               IN  u.rest = Tail(w.rest) /\ u.links = w.links
    OBVIOUS
  <2>4. LET u == [at |-> << >>, rest |-> At(p).target \o Tail(w.rest), links |-> w.links - 1]
        IN  u.rest = At(p).target \o Tail(w.rest) /\ u.links = w.links - 1
    OBVIOUS
  <2> QED BY <2>1, <2>2, <2>3, <2>4, Zenon
<1> DEFINE P == w.links * M
           R == v.links * M
<1>0. P \in Nat /\ Ahead(w) = Len(w.rest) + P /\ Ahead(v) = Len(v.rest) + R
  BY <1>1 DEF Ahead
<1> SUFFICES Ahead(v) < Ahead(w)
  OBVIOUS
<1> HIDE DEF v
<1>4. CASE v.rest = Tail(w.rest) /\ v.links = w.links
  <2>1. R = P
    BY <1>4
  <2> HIDE DEF P, R
  <2> QED BY <1>0, <1>1, <1>2, <1>4, <2>1
<1>5. CASE v.rest = << >> /\ v.links = 0
  <2>1. Len(v.rest) = 0 /\ R = 0
    BY <1>5, <1>1
  <2> HIDE DEF P, R
  <2> QED BY <1>0, <1>1, <2>1
<1>6. CASE /\ onLink /\ w.links # 0
           /\ v.rest = At(p).target \o Tail(w.rest) /\ v.links = w.links - 1
  <2>1. At(p).target \in RawPaths /\ Len(At(p).target) <= M
    <3>1. IsLink(p)
      BY <1>6
    <3> HIDE DEF p
    <3>2. p \in DOMAIN tree /\ At(p) = tree[p]
      BY <3>1 DEF IsLink, At, Absent, Directory, TreeOK
    <3>3. EntryOK(tree[p]) /\ tree[p].kind = "link"
      BY <3>1, <3>2 DEF TreeOK, IsLink
    <3>4. Len(tree[p].target) <= M
      BY <3>3 DEF EntryOK, Absent, Directory, File
    <3> QED BY <3>1, <3>2, <3>4, LinkTargets
  <2>2. Len(At(p).target) \in Nat /\ Len(v.rest) = Len(At(p).target) + Len(Tail(w.rest))
    BY <1>2, <1>6, <2>1, ConcatProperties, LenProperties DEF RawPaths
  <2>3. R = P - M
    BY <1>1, <1>6
  <2> HIDE DEF p, P, R, M
  <2>4. Len(v.rest) \in Nat /\ Len(v.rest) <= M + (Len(w.rest) - 1)
    <3> DEFINE a == Len(At(p).target)
               b == Len(Tail(w.rest))
               d == Len(v.rest)
               e == Len(w.rest)
    <3>1. /\ a \in Nat /\ a <= M /\ d = a + b /\ b = e - 1
          /\ e \in Nat /\ e >= 1 /\ M \in Nat
      BY <1>1, <1>2, <2>1, <2>2
    <3> HIDE DEF a, b, d, e
    <3>2. d \in Nat /\ d <= M + (e - 1)
      BY <3>1
    <3> QED BY <3>2 DEF d, e
  <2> QED BY <1>0, <1>1, <2>3, <2>4
<1> QED BY <1>3, <1>4, <1>5, <1>6

(* What holds at the end of a walk, and a step before it where it holds,   *)
(* holds of every walk.                                                    *)
LEMMA AlongWalks ==
  ASSUME TreeOK(tree), NEW follow, NEW T,
         \A w \in Walks : w.rest = << >> => w \in T,
         \A w \in Walks : w.rest # << >> /\ WalkStep(w, follow) \in T => w \in T
  PROVE  Walks \subseteq T
<1> DEFINE U == {n \in Nat : \A w \in Walks : Ahead(w) <= n => w \in T}
<1>1. 0 \in U
  <2>1. ASSUME NEW w \in Walks, Ahead(w) <= 0 PROVE w \in T
    <3>1. w.rest = << >>
      BY <2>1, WalkFacts
    <3> QED BY <3>1
  <2> QED BY <2>1
<1>2. ASSUME NEW n \in Nat, n \in U PROVE n + 1 \in U
  <2>1. ASSUME NEW w \in Walks, Ahead(w) <= n + 1 PROVE w \in T
    <3>1. CASE w.rest = << >>
      BY <3>1
    <3>2. CASE w.rest # << >>
      <4> DEFINE v == WalkStep(w, follow)
      <4>1. v \in Walks
        BY WalkStepType
      <4>2. Ahead(v) < Ahead(w)
        BY <3>2, AheadFalls
      <4> HIDE DEF v
      <4>3. Ahead(v) <= n
        BY <2>1, <4>1, <4>2, WalkFacts
      <4>4. v \in T
        BY <1>2, <4>1, <4>3
      <4> QED BY <3>2, <4>4 DEF v
    <3> QED BY <3>1, <3>2
  <2> QED BY <2>1
<1> HIDE DEF U
<1>3. Nat \subseteq U
  BY <1>1, <1>2, NumberByNumber
<1>4. ASSUME NEW w \in Walks PROVE w \in T
  <2>1. Ahead(w) \in Nat /\ Ahead(w) <= Ahead(w)
    BY WalkFacts
  <2> QED BY <1>3, <2>1 DEF U
<1> QED BY <1>4

(* A walk from w that ends at q after n steps.                             *)
Goes(f, n, w, follow, q) ==
  /\ n \in Nat /\ f[0] = w /\ f[n].rest = << >> /\ f[n].at = q
  /\ \A k \in 1..n : f[k] = WalkStep(f[k - 1], follow)

EndOf(w, follow) == CHOOSE q : \E n, f : Goes(f, n, w, follow, q)

LEMMA OneEnd ==
  ASSUME NEW w, NEW follow, NEW f, NEW n, NEW q, Goes(f, n, w, follow, q),
         NEW g, NEW m, NEW r, Goes(g, m, w, follow, r), n <= m
  PROVE  q = r
<1>1. n \in Nat /\ m \in Nat
  BY DEF Goes
<1> DEFINE T == {k \in Nat : k <= m => g[k] = IF k <= n THEN f[k] ELSE f[n]}
<1>2. 0 \in T
  BY <1>1 DEF Goes
<1>3. ASSUME NEW k \in Nat, k \in T PROVE k + 1 \in T
  <2>1. ASSUME k + 1 <= m
        PROVE  g[k + 1] = IF k + 1 <= n THEN f[k + 1] ELSE f[n]
    <3>1. /\ k <= m /\ k + 1 \in 1..m /\ (k + 1) - 1 = k
          /\ k + 1 <= n => k + 1 \in 1..n /\ k <= n
      BY <1>1, <2>1
    <3>2. g[k + 1] = WalkStep(g[k], follow)
      BY <3>1 DEF Goes
    <3>3. g[k] = IF k <= n THEN f[k] ELSE f[n]
      BY <1>3, <3>1
    <3>4. CASE k + 1 <= n
      <4>1. f[k + 1] = WalkStep(f[k], follow)
        BY <3>1, <3>4 DEF Goes
      <4> QED BY <3>1, <3>2, <3>3, <3>4, <4>1
    <3>5. CASE ~(k + 1 <= n)
      <4>1. g[k] = f[n]
        <5>1. k <= n => k = n
          BY <1>1, <3>5
        <5> QED BY <3>3, <5>1
      <4>2. WalkStep(f[n], follow) = f[n]
        BY WalkStepIs DEF Goes
      <4> QED BY <3>2, <3>5, <4>1, <4>2
    <3> QED BY <3>4, <3>5
  <2> QED BY <2>1
<1> HIDE DEF T
<1>4. Nat \subseteq T
  BY <1>2, <1>3, NumberByNumber
<1>5. g[m] = IF m <= n THEN f[m] ELSE f[n]
  BY <1>1, <1>4 DEF T
<1>6. g[m] = f[n]
  <2>1. m <= n => m = n
    BY <1>1
  <2> QED BY <1>5, <2>1
<1> QED BY <1>6 DEF Goes

LEMMA EndIs ==
  ASSUME NEW w, NEW follow, NEW f, NEW n, NEW q, Goes(f, n, w, follow, q)
  PROVE  EndOf(w, follow) = q
<1> DEFINE r == EndOf(w, follow)
<1>1. PICK m, g : Goes(g, m, w, follow, r)
  BY Zenon DEF EndOf
<1> SUFFICES r = q
  OBVIOUS
<1> HIDE DEF r
<1>2. n \in Nat /\ m \in Nat
  BY <1>1 DEF Goes
<1>3. CASE n <= m
  BY <1>1, <1>3, OneEnd
<1>4. CASE m <= n
  BY <1>1, <1>4, OneEnd
<1> QED BY <1>2, <1>3, <1>4

LEMMA Stops ==
  ASSUME NEW w, NEW follow, w.rest = << >>
  PROVE  /\ EndOf(w, follow) = w.at
         /\ \E n, f : Goes(f, n, w, follow, w.at)
<1> DEFINE f == [k \in {0} |-> w]
<1>1. Goes(f, 0, w, follow, w.at)
  BY DEF Goes
<1> HIDE DEF f
<1> QED BY <1>1, EndIs

(* A step before.                                                          *)
LEMMA StepBefore ==
  ASSUME NEW w, NEW follow, NEW q, NEW n, NEW f,
         Goes(f, n, WalkStep(w, follow), follow, q)
  PROVE  \E g : Goes(g, n + 1, w, follow, q)
<1>1. n \in Nat
  BY DEF Goes
<1> DEFINE g == [k \in 0..(n + 1) |-> IF k = 0 THEN w ELSE f[k - 1]]
<1>2. /\ g[0] = w
      /\ \A k \in 1..(n + 1) : g[k] = f[k - 1] /\ k - 1 \in 0..n
      /\ n + 1 \in 1..(n + 1) /\ (n + 1) - 1 = n /\ n + 1 \in Nat
  BY <1>1
<1> HIDE DEF g
<1>3. ASSUME NEW k \in 1..(n + 1) PROVE g[k] = WalkStep(g[k - 1], follow)
  <2>1. CASE k = 1
    <3>1. k - 1 = 0
      BY <2>1
    <3>2. g[k] = f[0] /\ g[k - 1] = w
      BY <1>2, <3>1
    <3> QED BY <3>2 DEF Goes
  <2>2. CASE k # 1
    <3>1. k - 1 \in 1..n /\ k - 1 \in 1..(n + 1)
      BY <1>1, <2>2
    <3>2. f[k - 1] = WalkStep(f[(k - 1) - 1], follow)
      BY <3>1 DEF Goes
    <3>3. g[k] = f[k - 1] /\ g[k - 1] = f[(k - 1) - 1]
      BY <1>2, <3>1
    <3> QED BY <3>2, <3>3
  <2> QED BY <2>1, <2>2
<1>4. g[n + 1] = f[n]
  BY <1>2
<1>5. Goes(g, n + 1, w, follow, q)
  BY <1>2, <1>3, <1>4 DEF Goes
<1> QED BY <1>5

LEMMA EverEnds ==
  ASSUME TreeOK(tree), NEW w \in Walks, NEW follow
  PROVE  \E n, f, q : Goes(f, n, w, follow, q)
<1> DEFINE T == {v \in Walks : \E n, f, q : Goes(f, n, v, follow, q)}
<1>1. \A v \in Walks : v.rest = << >> => v \in T
  BY Stops
<1>2. \A v \in Walks : v.rest # << >> /\ WalkStep(v, follow) \in T => v \in T
  BY StepBefore
<1> HIDE DEF T
<1>3. Walks \subseteq T
  BY <1>1, <1>2, AlongWalks
<1> QED BY <1>3 DEF T

LEMMA EndOfStep ==
  ASSUME TreeOK(tree), NEW w \in Walks, NEW follow
  PROVE  EndOf(w, follow) = EndOf(WalkStep(w, follow), follow)
<1> DEFINE v == WalkStep(w, follow)
<1>1. v \in Walks
  BY WalkStepType
<1>2. PICK n, f, q : Goes(f, n, v, follow, q)
  BY <1>1, EverEnds
<1>3. EndOf(v, follow) = q
  BY <1>2, EndIs
<1>4. PICK g : Goes(g, n + 1, w, follow, q)
  BY <1>2, StepBefore
<1>5. EndOf(w, follow) = q
  BY <1>4, EndIs
<1> QED BY <1>3, <1>5

LEMMA ReachesEnd ==
  ASSUME TreeOK(tree), NEW base \in Paths, NEW p \in RawPaths, NEW follow \in BOOLEAN
  PROVE  Reaches([base |-> base, raw |-> p], follow) =
           EndOf([at |-> base, rest |-> p, links |-> MaxLinks], follow)
<1> DEFINE K == Len(p) + MaxLinks * MaxTarget
           first == [at |-> base, rest |-> p, links |-> MaxLinks]
<1>1. PICK f :
        /\ f[0] = first
        /\ \A n \in 1..K : f[n] = WalkStep(f[n - 1], follow)
        /\ \A n \in 0..K : f[n] \in Walks
        /\ Reaches([base |-> base, raw |-> p], follow) =
             IF f[K].rest = << >> THEN f[K].at ELSE Nowhere
  BY WalksExist DEF WalksAreThere, IsWalkOf
<1>2. K \in Nat /\ Ahead(first) = K
  <2>1. Len(p) \in Nat /\ MaxLinks * MaxTarget \in Nat
    BY LenProperties, LinksAssumption DEF RawPaths
  <2> QED BY <2>1 DEF Ahead
<1> HIDE DEF K, first
<1> DEFINE T == {n \in Nat : n <= K => f[n].rest = << >> \/ Ahead(f[n]) <= K - n}
<1>3. 0 \in T
  BY <1>1, <1>2
<1>4. ASSUME NEW n \in Nat, n \in T PROVE n + 1 \in T
  <2>1. ASSUME n + 1 <= K PROVE f[n + 1].rest = << >> \/ Ahead(f[n + 1]) <= K - (n + 1)
    <3>1. /\ n + 1 \in 1..K /\ (n + 1) - 1 = n /\ n <= K /\ n \in 0..K /\ n + 1 \in 0..K
      BY <1>2, <2>1
    <3>2. f[n + 1] = WalkStep(f[n], follow) /\ f[n] \in Walks /\ f[n + 1] \in Walks
      BY <1>1, <3>1
    <3>3. CASE f[n].rest = << >>
      BY <3>2, <3>3, WalkStepIs
    <3>4. CASE f[n].rest # << >>
      <4>1. Ahead(f[n]) <= K - n
        BY <1>4, <3>1, <3>4
      <4>2. Ahead(WalkStep(f[n], follow)) < Ahead(f[n])
        BY <3>2, <3>4, AheadFalls
      <4>3. Ahead(f[n]) \in Nat /\ Ahead(f[n + 1]) \in Nat
        BY <3>2, WalkFacts
      <4> QED BY <1>2, <3>2, <4>1, <4>2, <4>3
    <3> QED BY <3>3, <3>4
  <2> QED BY <2>1
<1> HIDE DEF T
<1>5. Nat \subseteq T
  BY <1>3, <1>4, NumberByNumber
<1>6. f[K].rest = << >>
  <2>1. f[K].rest = << >> \/ Ahead(f[K]) <= K - K
    BY <1>2, <1>5 DEF T
  <2>2. f[K] \in Walks
    BY <1>1, <1>2
  <2> QED BY <1>2, <2>1, <2>2, WalkFacts
<1>7. Goes(f, K, first, follow, f[K].at)
  BY <1>1, <1>2, <1>6 DEF Goes
<1>8. EndOf(first, follow) = f[K].at
  BY <1>7, EndIs
<1> QED BY <1>1, <1>6, <1>8 DEF first

-----------------------------------------------------------------------------
(* The same, by where a walk is, what is left of it, and its links.        *)

End(a, r, m, follow) == EndOf([at |-> a, rest |-> r, links |-> m], follow)

LEMMA NoneLeft ==
  ASSUME NEW a, NEW m, NEW follow
  PROVE  End(a, << >>, m, follow) = a
<1> DEFINE w == [at |-> a, rest |-> << >>, links |-> m]
<1>1. w.rest = << >> /\ w.at = a
  OBVIOUS
<1> HIDE DEF w
<1>2. EndOf(w, follow) = a
  BY <1>1, Stops
<1> QED BY <1>2 DEF w, End

LEMMA NextEnd ==
  ASSUME TreeOK(tree), NEW a \in RawPaths, NEW r \in RawPaths, r # << >>,
         NEW m \in 0..MaxLinks, NEW follow
  PROVE  LET c == Head(r)
             p == Append(a, c)
             onLink == IsLink(p) /\ (follow \/ Len(r) # 1)
         IN  /\ c = Up => End(a, r, m, follow) = End(Front1(a), Tail(r), m, follow)
             /\ c # Up /\ onLink /\ m = 0 => End(a, r, m, follow) = Nowhere
             /\ c # Up /\ onLink /\ m # 0 =>
                  End(a, r, m, follow) =
                    End(<< >>, At(p).target \o Tail(r), m - 1, follow)
             /\ c # Up /\ ~onLink /\ (Len(r) = 1 \/ IsDirectory(p)) =>
                  End(a, r, m, follow) = End(p, Tail(r), m, follow)
             /\ c # Up /\ ~onLink /\ ~(Len(r) = 1 \/ IsDirectory(p)) =>
                  End(a, r, m, follow) = Nowhere
<1> DEFINE w == [at |-> a, rest |-> r, links |-> m]
           c == Head(r)
           p == Append(a, c)
           onLink == IsLink(p) /\ (follow \/ Len(r) # 1)
<1>1. w \in Walks /\ w.at = a /\ w.rest = r /\ w.links = m
  BY DEF Walks
<1> HIDE DEF w
<1>2. EndOf(w, follow) = EndOf(WalkStep(w, follow), follow)
  BY <1>1, EndOfStep
<1>3. /\ c = Up => WalkStep(w, follow) =
                     [at |-> Front1(a), rest |-> Tail(r), links |-> m]
      /\ c # Up /\ onLink /\ m = 0 => WalkStep(w, follow) = Lost
      /\ c # Up /\ onLink /\ m # 0 => WalkStep(w, follow) =
           [at |-> << >>, rest |-> At(p).target \o Tail(r), links |-> m - 1]
      /\ c # Up /\ ~onLink /\ (Len(r) = 1 \/ IsDirectory(p)) =>
           WalkStep(w, follow) = [at |-> p, rest |-> Tail(r), links |-> m]
      /\ c # Up /\ ~onLink /\ ~(Len(r) = 1 \/ IsDirectory(p)) =>
           WalkStep(w, follow) = Lost
  BY <1>1, WalkStepIs
<1>4. EndOf(Lost, follow) = Nowhere
  <2>1. Lost.rest = << >> /\ Lost.at = Nowhere
    BY DEF Lost
  <2> QED BY <2>1, Stops
<1>5. End(a, r, m, follow) = EndOf(w, follow)
  BY DEF End, w
<1> HIDE DEF c, p, onLink
<1>6. /\ c = Up => End(a, r, m, follow) = End(Front1(a), Tail(r), m, follow)
      /\ c # Up /\ onLink /\ m = 0 => End(a, r, m, follow) = Nowhere
      /\ c # Up /\ onLink /\ m # 0 =>
           End(a, r, m, follow) = End(<< >>, At(p).target \o Tail(r), m - 1, follow)
      /\ c # Up /\ ~onLink /\ (Len(r) = 1 \/ IsDirectory(p)) =>
           End(a, r, m, follow) = End(p, Tail(r), m, follow)
      /\ c # Up /\ ~onLink /\ ~(Len(r) = 1 \/ IsDirectory(p)) =>
           End(a, r, m, follow) = Nowhere
  BY <1>2, <1>3, <1>4, <1>5, Zenon DEF End
<1> QED BY <1>6 DEF c, p, onLink

StepsOn(a, r, follow) ==
  /\ Head(r) # Up
  /\ ~(IsLink(Append(a, Head(r))) /\ (follow \/ Len(r) # 1))
  /\ Len(r) = 1 \/ IsDirectory(Append(a, Head(r)))

LEMMA StraightOn ==
  ASSUME TreeOK(tree), NEW a \in RawPaths, NEW r \in RawPaths, r # << >>,
         NEW m \in 0..MaxLinks, NEW follow, StepsOn(a, r, follow)
  PROVE  End(a, r, m, follow) = End(Append(a, Head(r)), Tail(r), m, follow)
BY NextEnd, Zenon DEF StepsOn

LEMMA FrontOfAppend ==
  ASSUME NEW p \in Paths, NEW x \in Names
  PROVE  Front(Append(p, x)) = p /\ Last(Append(p, x)) = x
<1> DEFINE q == Append(p, x)
<1>1. /\ q \in Paths /\ q # << >> /\ Len(q) = Len(p) + 1 /\ Len(p) \in Nat
      /\ \A i \in 1..Len(p) : q[i] = p[i]
      /\ q[Len(q)] = x
  BY AppendProperties, AppendToPath DEF Paths
<1> HIDE DEF q
<1>2. Last(q) = x
  BY <1>1 DEF Last
<1>3. /\ Front(q) \in Paths /\ Len(Front(q)) = Len(q) - 1
      /\ \A i \in 1..(Len(q) - 1) : Front(q)[i] = q[i]
  BY <1>1, FrontProperties DEF Paths
<1>4. Len(Front(q)) = Len(p) /\ \A i \in 1..Len(p) : Front(q)[i] = p[i]
  BY <1>1, <1>3
<1>5. Front(q) = p
  BY <1>3, <1>4, SeqEqual DEF Paths
<1> QED BY <1>2, <1>5 DEF q

(* A location is in a directory.                                           *)
LEMMA InDirectory ==
  ASSUME TreeOK(tree), NEW q \in DOMAIN tree
  PROVE  /\ Front(q) \in Paths /\ Last(q) \in Names /\ q = Append(Front(q), Last(q))
         /\ q # << >> /\ Front1(q) = Front(q) /\ IsDirectory(Front(q))
<1>1. q \in Paths /\ q # << >> /\ << >> \notin DOMAIN tree
  BY DEF TreeOK
<1>2. /\ Front1(q) \in Paths /\ Front1(q) = Front(q) /\ Last(q) \in Names
      /\ Len(q) \in Nat /\ Len(q) >= 1 /\ Len(Front(q)) = Len(q) - 1
      /\ q = Append(Front(q), Last(q))
  BY <1>1, FrontProperties DEF Paths
<1>3. CASE Len(q) > 1
  <2>1. Front(q) \in DOMAIN tree /\ tree[Front(q)] = Directory
    BY <1>3 DEF TreeOK
  <2> QED BY <1>1, <1>2, <2>1, Locations
<1>4. CASE ~(Len(q) > 1)
  <2>1. Len(Front(q)) = 0
    BY <1>2, <1>4
  <2>2. Front(q) = << >>
    BY <1>2, <2>1, EmptySeq DEF Paths
  <2> QED BY <1>1, <1>2, <2>2, AtIs DEF IsDirectory, Directory
<1> QED BY <1>1, <1>2, <1>3, <1>4

(* A directory is the first one or a location.                             *)
LEMMA DirectoryIs ==
  ASSUME TreeOK(tree)
  PROVE  /\ IsDirectory(<< >>) /\ ~IsLink(<< >>)
         /\ \A d : IsDirectory(d) =>
              /\ d = << >> \/ d \in DOMAIN tree
              /\ d \in Paths /\ ~IsLink(d) /\ d # Nowhere /\ At(d) # Absent
<1>1. << >> \notin DOMAIN tree /\ DOMAIN tree \subseteq Paths /\ << >> \in Paths
  BY EmptySeq DEF TreeOK, Paths
<1>2. At(<< >>) = Directory
  BY <1>1, AtIs
<1>3. ASSUME NEW d, IsDirectory(d)
      PROVE  (d = << >> \/ d \in DOMAIN tree) /\ ~IsLink(d) /\ At(d) # Absent
  BY <1>3 DEF IsDirectory, IsLink, At, Absent
<1> QED BY <1>1, <1>2, <1>3, PathsAreRaw DEF IsDirectory, IsLink, Directory

(* What a directory is in is one as well.                                  *)
LEMMA DirectoriesAbove ==
  ASSUME TreeOK(tree), NEW p \in Paths
  PROVE  /\ IsDirectory(p) => IsDirectory(Front1(p))
         /\ \A x \in Names : IsDirectory(Append(p, x)) => IsDirectory(p)
<1>1. ASSUME IsDirectory(p) PROVE IsDirectory(Front1(p))
  <2>1. CASE p = << >>
    BY <1>1, <2>1 DEF Front1
  <2>2. CASE p # << >>
    BY <1>1, <2>2, DirectoryIs, InDirectory
  <2> QED BY <2>1, <2>2
<1>2. ASSUME NEW x \in Names, IsDirectory(Append(p, x)) PROVE IsDirectory(p)
  <2>1. Append(p, x) # << >> /\ Append(p, x) \in DOMAIN tree
    BY <1>2, DirectoryIs, AppendToPath
  <2>2. IsDirectory(Front(Append(p, x)))
    BY <2>1, InDirectory
  <2>3. Front(Append(p, x)) = p
    BY FrontOfAppend
  <2> QED BY <2>2, <2>3
<1> QED BY <1>1, <1>2

-----------------------------------------------------------------------------
(* Paths in pieces.                                                        *)

LEMMA Lengths ==
  ASSUME NEW s \in RawPaths
  PROVE  /\ Len(s) \in Nat /\ (s = << >> <=> Len(s) = 0)
         /\ s # << >> => Len(s) >= 1
         /\ \A r \in RawPaths : Len(s \o r) = Len(s) + Len(r)
<1>1. Len(s) \in Nat /\ (s = << >> <=> Len(s) = 0)
  BY EmptySeq, LenProperties DEF RawPaths
<1>2. \A r \in RawPaths : Len(s \o r) = Len(s) + Len(r)
  BY ConcatProperties DEF RawPaths
<1>3. s # << >> => Len(s) >= 1
  BY <1>1
<1> QED BY <1>1, <1>2, <1>3

LEMMA Pieces ==
  ASSUME NEW s \in RawPaths, NEW r \in RawPaths
  PROVE  /\ r # << >> => /\ Head(r) \in Names \cup {Up} /\ Tail(r) \in RawPaths
                         /\ Append(s, Head(r)) \in RawPaths
                         /\ Append(s, Head(r)) \o Tail(r) = s \o r
                         /\ Len(r) \in Nat /\ Len(Tail(r)) = Len(r) - 1
                         /\ Append(s, Head(r)) # << >>
         /\ s \o << >> = s /\ << >> \o r = r
         /\ s \o r \in RawPaths
<1> DEFINE S == Names \cup {Up}
<1>1. s \in Seq(S) /\ r \in Seq(S)
  BY DEF RawPaths
<1> HIDE DEF S
<1>2. s \o << >> = s /\ << >> \o r = r /\ s \o r \in Seq(S)
  BY <1>1, ConcatEmptySeq, ConcatProperties
<1>3. ASSUME r # << >>
      PROVE  /\ Head(r) \in S /\ Tail(r) \in Seq(S)
             /\ Append(s, Head(r)) \in Seq(S)
             /\ Append(s, Head(r)) \o Tail(r) = s \o r
             /\ Len(r) \in Nat /\ Len(Tail(r)) = Len(r) - 1
             /\ Append(s, Head(r)) # << >>
  <2> DEFINE c == Head(r)
             u == Tail(r)
             a == Append(s, c)
  <2>1. c \in S /\ u \in Seq(S) /\ Len(r) \in Nat /\ Len(u) = Len(r) - 1
    BY <1>1, <1>3, HeadTailProperties, LenProperties
  <2>2. <<c>> \o u = r /\ <<c>> \in Seq(S)
    BY <1>1, <1>3, <2>1
  <2>3. a \in Seq(S) /\ a # << >> /\ a = s \o <<c>>
    BY <1>1, <2>1
  <2> HIDE DEF c, u, a
  <2>4. (s \o <<c>>) \o u = s \o (<<c>> \o u)
    BY <1>1, <2>1, <2>2, ConcatAssociative
  <2>5. a \o u = s \o r
    BY <2>2, <2>3, <2>4
  <2> QED BY <2>1, <2>3, <2>5 DEF c, u, a
<1> QED BY <1>2, <1>3 DEF RawPaths, S

LEMMA OnePiece ==
  ASSUME NEW x \in Names
  PROVE  LET r == <<x>>
         IN  /\ r \in RawPaths /\ r # << >> /\ Head(r) = x /\ Tail(r) = << >> /\ Len(r) = 1
             /\ x # Up
             /\ \A s \in RawPaths : s \o r = Append(s, x)
<1>1. x # Up
  BY NamesAssumption DEF Up
<1> QED BY <1>1 DEF RawPaths

LEMMA NormalOfNone == Normalize(<< >>) = << >>
<1>1. << >> \in RawPaths
  BY EmptySeq DEF RawPaths
<1>2. PICK g : IsNormal(g, << >>)
  BY <1>1, NormalExists
<1> DEFINE f == CHOOSE f : IsNormal(f, << >>)
<1>3. IsNormal(f, << >>)
  BY <1>2, Zenon
<1> HIDE DEF f
<1>4. f[0] = << >>
  BY <1>3 DEF IsNormal
<1> QED BY <1>4, NormalizeIs DEF f

(* One component more.                                                     *)
LEMMA NormalOfMore ==
  ASSUME NEW s \in RawPaths, NEW c \in Names \cup {Up}
  PROVE  Normalize(Append(s, c)) = Component(Normalize(s), c)
<1> DEFINE u == Append(s, c)
           f == CHOOSE f : IsNormal(f, s)
           g == CHOOSE g : IsNormal(g, u)
<1>1. /\ u \in RawPaths /\ Len(s) \in Nat /\ Len(u) = Len(s) + 1 /\ u[Len(u)] = c
      /\ \A i \in 1..Len(s) : u[i] = s[i]
  BY AppendProperties, LenProperties DEF RawPaths
<1>2. IsNormal(f, s)
  <2>1. \E h : IsNormal(h, s)
    BY NormalExists
  <2> QED BY <2>1, Zenon
<1>3. IsNormal(g, u)
  <2>1. \E h : IsNormal(h, u)
    BY <1>1, NormalExists
  <2> HIDE DEF u
  <2> QED BY <2>1, Zenon
<1>4. Normalize(s) = f[Len(s)] /\ Normalize(u) = g[Len(u)]
  BY NormalizeIs
<1> HIDE DEF f, g, u
<1>5. f[0] = << >> /\ \A n \in 1..Len(s) : f[n] = Component(f[n - 1], s[n])
  BY <1>1, <1>2 DEF IsNormal
<1>6. g[0] = << >> /\ \A n \in 1..Len(u) : g[n] = Component(g[n - 1], u[n])
  BY <1>1, <1>3 DEF IsNormal
<1> DEFINE T == {n \in Nat : n <= Len(s) => f[n] = g[n]}
<1>7. 0 \in T
  BY <1>5, <1>6
<1>8. ASSUME NEW n \in Nat, n \in T PROVE n + 1 \in T
  <2>1. ASSUME n + 1 <= Len(s) PROVE f[n + 1] = g[n + 1]
    <3>1. n + 1 \in 1..Len(s) /\ n + 1 \in 1..Len(u) /\ (n + 1) - 1 = n /\ n <= Len(s)
      BY <1>1, <2>1
    <3>2. f[n] = g[n] /\ u[n + 1] = s[n + 1]
      BY <1>1, <1>8, <3>1
    <3> QED BY <1>5, <1>6, <3>1, <3>2
  <2> QED BY <2>1
<1> HIDE DEF T
<1>9. Nat \subseteq T
  BY <1>7, <1>8, NumberByNumber
<1>10. f[Len(s)] = g[Len(s)]
  BY <1>1, <1>9 DEF T
<1>11. Len(u) \in 1..Len(u) /\ Len(u) - 1 = Len(s)
  BY <1>1
<1>12. g[Len(u)] = Component(g[Len(s)], c)
  BY <1>1, <1>6, <1>11
<1> QED BY <1>4, <1>10, <1>12 DEF u

LEMMA NormalOfNormal == \A p \in Paths : Normalize(p) = p
<1> DEFINE T == {p \in Paths : Normalize(p) = p}
<1>1. << >> \in T
  BY NormalOfNone, EmptySeq DEF Paths
<1>2. ASSUME NEW s \in Seq(Names), NEW b \in Names, s \in T
      PROVE  Append(s, b) \in T
  <2>1. s \in RawPaths /\ b \in Names \cup {Up} /\ b # Up /\ Append(s, b) \in Paths
    BY PathsAreRaw, OnePiece, AppendProperties DEF Paths
  <2>2. Normalize(Append(s, b)) = Component(s, b)
    BY <1>2, <2>1, NormalOfMore
  <2> QED BY <2>1, <2>2 DEF Component
<1> HIDE DEF T
<1>3. Seq(Names) \subseteq T
  BY <1>1, <1>2, OneByOne
<1> QED BY <1>3 DEF T, Paths

(* A walk from the first directory through the directories of a path.      *)
LEMMA ThroughDirectories ==
  ASSUME TreeOK(tree), NEW D \in Paths, IsDirectory(D), NEW s \in RawPaths,
         NEW m \in 0..MaxLinks, NEW follow
  PROVE  End(<< >>, D \o s, m, follow) = End(D, s, m, follow)
<1> DEFINE T == {d \in Paths : IsDirectory(d) =>
                   \A r \in RawPaths : End(<< >>, d \o r, m, follow) = End(d, r, m, follow)}
<1>1. << >> \in T
  BY Pieces, EmptySeq, PathsAreRaw DEF Paths
<1>2. ASSUME NEW d \in Seq(Names), NEW x \in Names, d \in T
      PROVE  Append(d, x) \in T
  <2> DEFINE e == Append(d, x)
  <2>1. e \in Paths /\ e \in RawPaths /\ d \in Paths /\ d \in RawPaths
    BY AppendToPath, PathsAreRaw DEF Paths
  <2>2. ASSUME IsDirectory(e), NEW r \in RawPaths
        PROVE  End(<< >>, e \o r, m, follow) = End(e, r, m, follow)
    <3> DEFINE u == <<x>> \o r
    <3>1. /\ u \in RawPaths /\ u # << >> /\ Head(u) = x /\ Tail(u) = r /\ x # Up
      <4>1. x # Up /\ r \in Seq(Names \cup {Up}) /\ x \in Names \cup {Up}
        BY OnePiece DEF RawPaths
      <4> QED BY <4>1 DEF RawPaths
    <3> HIDE DEF u
    <3>2. d \o u = e \o r
      BY <2>1, <3>1, Pieces
    <3>3. IsDirectory(d)
      BY <2>1, <2>2, DirectoriesAbove
    <3>4. End(<< >>, d \o u, m, follow) = End(d, u, m, follow)
      BY <1>2, <3>1, <3>3
    <3>5. ~IsLink(e)
      BY <2>2, DirectoryIs
    <3>6. End(d, u, m, follow) = End(e, r, m, follow)
      <4>1. StepsOn(d, u, follow)
        BY <2>2, <3>1, <3>5 DEF StepsOn
      <4>2. End(d, u, m, follow) = End(Append(d, Head(u)), Tail(u), m, follow)
        BY <2>1, <3>1, <4>1, StraightOn
      <4> QED BY <3>1, <4>2
    <3> QED BY <3>2, <3>4, <3>6
  <2> QED BY <2>1, <2>2
<1> HIDE DEF T
<1>3. Seq(Names) \subseteq T
  BY <1>1, <1>2, OneByOne
<1> QED BY <1>3 DEF T, Paths

(* The last component, in the directory it is looked up in.                *)
LEMMA InTheEnd ==
  ASSUME TreeOK(tree), NEW D \in Paths, NEW x \in Names, NEW m \in 0..MaxLinks
  PROVE  /\ End(D, <<x>>, m, FALSE) = Append(D, x)
         /\ ~IsLink(Append(D, x)) => End(D, <<x>>, m, TRUE) = Append(D, x)
<1>1. ASSUME NEW follow \in BOOLEAN, ~(IsLink(Append(D, x)) /\ follow)
      PROVE  End(D, <<x>>, m, follow) = Append(D, x)
  <2>1. D \in RawPaths
    BY PathsAreRaw
  <2>2. End(D, <<x>>, m, follow) = End(Append(D, x), << >>, m, follow)
    <3> DEFINE r == <<x>>
    <3>1. /\ r \in RawPaths /\ r # << >> /\ Head(r) = x /\ Tail(r) = << >> /\ x # Up
          /\ Len(r) = 1
      BY OnePiece
    <3> HIDE DEF r
    <3>2. StepsOn(D, r, follow)
      BY <1>1, <3>1 DEF StepsOn
    <3>3. End(D, r, m, follow) = End(Append(D, Head(r)), Tail(r), m, follow)
      BY <2>1, <3>1, <3>2, StraightOn
    <3> QED BY <3>1, <3>3 DEF r
  <2> QED BY <2>2, NoneLeft
<1> QED BY <1>1

(* A location is where its own path leads, if its last link is not         *)
(* followed.                                                               *)
LEMMA LocationReached ==
  ASSUME TreeOK(tree), NEW q \in DOMAIN tree
  PROVE  /\ Reaches(Absolute(q), FALSE) = q
         /\ Lstat(q) = StateAt(q)
<1> DEFINE D == Front(q)
           x == Last(q)
<1>1. /\ D \in Paths /\ x \in Names /\ q = Append(D, x) /\ IsDirectory(D)
      /\ q \in Paths /\ q \in RawPaths /\ D \in RawPaths /\ << >> \in Paths
  BY InDirectory, PathsAreRaw, EmptySeq DEF TreeOK, Paths
<1> HIDE DEF D, x
<1>2. MaxLinks \in 0..MaxLinks
  BY LinksAssumption
<1>3. Reaches(Absolute(q), FALSE) = End(<< >>, q, MaxLinks, FALSE)
  BY <1>1, ReachesEnd DEF Absolute, End
<1>4. q = D \o <<x>> /\ <<x>> \in RawPaths
  BY <1>1, OnePiece
<1>5. End(<< >>, q, MaxLinks, FALSE) = End(D, <<x>>, MaxLinks, FALSE)
  <2>1. End(<< >>, D \o <<x>>, MaxLinks, FALSE) = End(D, <<x>>, MaxLinks, FALSE)
    BY <1>1, <1>2, <1>4, ThroughDirectories
  <2> QED BY <1>4, <2>1
<1>6. End(D, <<x>>, MaxLinks, FALSE) = q
  BY <1>1, <1>2, InTheEnd
<1> QED BY <1>3, <1>5, <1>6 DEF Lstat

(* The other ways a walk may go on.                                        *)
LEMMA OtherwiseOn ==
  ASSUME TreeOK(tree), NEW a \in RawPaths, NEW r \in RawPaths, r # << >>,
         NEW m \in 0..MaxLinks, NEW follow
  PROVE  LET p == Append(a, Head(r))
         IN  /\ Head(r) = Up => End(a, r, m, follow) = End(Front1(a), Tail(r), m, follow)
             /\ Head(r) # Up /\ ~IsLink(p) /\ ~IsDirectory(p) /\ Len(r) # 1 =>
                  End(a, r, m, follow) = Nowhere
             /\ Head(r) # Up /\ IsLink(p) /\ Len(r) # 1 /\ m = 0 =>
                  End(a, r, m, follow) = Nowhere
             /\ Head(r) # Up /\ IsLink(p) /\ Len(r) # 1 /\ m # 0 =>
                  End(a, r, m, follow) =
                    End(<< >>, At(p).target \o Tail(r), m - 1, follow)
BY NextEnd, Zenon

(* What is before the last component of a path is no link.                 *)
LEMMA NoLinkBefore ==
  ASSUME NEW path, path.base \in Paths, path.raw \in RawPaths, DirectoriesOnly(path),
         NEW s \in RawPaths, NEW r \in RawPaths, s # << >>, r # << >>,
         s \o r = path.base \o path.raw
  PROVE  ~IsLink(Normalize(s))
<1> DEFINE p == path.base \o path.raw
<1>1. /\ Len(s) \in Nat /\ Len(r) \in Nat /\ Len(s) >= 1 /\ Len(r) >= 1
      /\ p = s \o r /\ Len(p) = Len(s) + Len(r)
  BY Lengths
<1>2. Len(s) \in 1..(Len(p) - 1)
  BY <1>1
<1>3. ~IsLink(Normalize(SubSeq(p, 1, Len(s))))
  BY <1>2 DEF DirectoriesOnly
<1> HIDE DEF p
<1>4. SubSeq(p, 1, Len(s)) = s
  <2> DEFINE S == Names \cup {Up}
             u == SubSeq(p, 1, Len(s))
  <2>1. p \in Seq(S) /\ s \in Seq(S)
    BY <1>1, ConcatProperties DEF RawPaths
  <2>2. \A i \in 1..Len(s) : p[i] \in S /\ p[i] = s[i]
    <3>1. \A i \in 1..(Len(s) + Len(r)) :
            (s \o r)[i] = IF i <= Len(s) THEN s[i] ELSE r[i - Len(s)]
      BY ConcatProperties DEF RawPaths
    <3>2. \A i \in 1..Len(s) : i \in 1..(Len(s) + Len(r)) /\ i <= Len(s) /\ s[i] \in S
      BY <1>1, <2>1, ElementOfSeq
    <3> QED BY <1>1, <3>1, <3>2
  <2> HIDE DEF S
  <2>3. /\ u \in Seq(S) /\ Len(u) = Len(s)
        /\ \A i \in 1..Len(s) : u[i] = p[i]
    <3>0. \A i \in 1..Len(s) : p[i] \in S
      BY <2>2
    <3>1. 1 \in Int /\ Len(s) \in Int
      BY <1>1
    <3>2. /\ SubSeq(p, 1, Len(s)) \in Seq(S)
          /\ Len(SubSeq(p, 1, Len(s))) = IF 1 <= Len(s) THEN Len(s) - 1 + 1 ELSE 0
          /\ \A i \in 1..(Len(s) - 1 + 1) : SubSeq(p, 1, Len(s))[i] = p[1 + i - 1]
      BY <3>0, <3>1, SubSeqProperties
    <3>3. Len(s) - 1 + 1 = Len(s) /\ \A i \in 1..Len(s) : 1 + i - 1 = i
      BY <1>1
    <3> QED BY <1>1, <3>2, <3>3
  <2> HIDE DEF u
  <2>4. u = s
    BY <2>1, <2>2, <2>3, SeqEqual
  <2> QED BY <2>4 DEF u
<1> QED BY <1>3, <1>4

(* A walk that is lost or ends at a directory, or one whose last component *)
(* is looked up in the directory that its normal form names.               *)
LeadsInto(a, r, n) ==
  \/ \A follow \in BOOLEAN :
       End(a, r, MaxLinks, follow) = Nowhere \/ IsDirectory(End(a, r, MaxLinks, follow))
  \/ \E D \in Paths, x \in Names :
       /\ IsDirectory(D) /\ n = Append(D, x)
       /\ \A follow \in BOOLEAN :
            End(a, r, MaxLinks, follow) = End(D, <<x>>, MaxLinks, follow)

LEMMA LeadsOn ==
  ASSUME NEW a, NEW r, NEW n, NEW b, NEW u, LeadsInto(b, u, n),
         \A follow \in BOOLEAN : End(a, r, MaxLinks, follow) = End(b, u, MaxLinks, follow)
  PROVE  LeadsInto(a, r, n)
BY Zenon DEF LeadsInto

LEMMA PlainWalk ==
  ASSUME TreeOK(tree), NEW path, path.base \in Paths, path.raw \in RawPaths,
         IsDirectory(path.base), DirectoriesOnly(path)
  PROVE  LeadsInto(path.base, path.raw, Normalize(path.base \o path.raw))
<1> DEFINE z == path.base \o path.raw
           M == MaxLinks
           T == {k \in Nat : \A s, r \in RawPaths :
                   Len(r) = k /\ s \o r = z /\ IsDirectory(Normalize(s)) =>
                     LeadsInto(Normalize(s), r, Normalize(z))}
<1>0. M \in 0..MaxLinks
  BY LinksAssumption
<1>1. 0 \in T
  <2>1. ASSUME NEW s \in RawPaths, NEW r \in RawPaths, Len(r) = 0,
               IsDirectory(Normalize(s))
        PROVE  LeadsInto(Normalize(s), r, Normalize(z))
    <3>1. r = << >>
      BY <2>1, EmptySeq DEF RawPaths
    <3> QED BY <2>1, <3>1, NoneLeft DEF LeadsInto
  <2> QED BY <2>1
<1>2. ASSUME NEW k \in Nat, k \in T PROVE k + 1 \in T
  <2>1. ASSUME NEW s \in RawPaths, NEW r \in RawPaths, Len(r) = k + 1, s \o r = z,
               IsDirectory(Normalize(s))
        PROVE  LeadsInto(Normalize(s), r, Normalize(z))
    <3> DEFINE a == Normalize(s)
               c == Head(r)
               u == Tail(r)
               t == Append(s, c)
               b == Normalize(t)
    <3>1. r # << >>
      <4>1. k + 1 # 0
        OBVIOUS
      <4> QED BY <2>1, <4>1, EmptySeq
    <3>2. /\ c \in Names \cup {Up} /\ u \in RawPaths /\ t \in RawPaths /\ t # << >>
          /\ t \o u = z /\ Len(u) = k /\ Len(r) = k + 1
      <4>1. /\ c \in Names \cup {Up} /\ u \in RawPaths /\ t \in RawPaths /\ t # << >>
            /\ t \o u = s \o r /\ Len(u) = Len(r) - 1
        BY <3>1, Pieces
      <4> HIDE DEF c, u, t, z
      <4> QED BY <2>1, <4>1
    <3>3. b = Component(a, c) /\ a \in Paths /\ a \in RawPaths /\ b \in Paths
      BY <3>2, NormalOfMore, NormalizeType, PathsAreRaw
    <3>4. IsDirectory(b) => LeadsInto(b, u, Normalize(z))
      BY <1>2, <3>2
    <3>5. IsDirectory(a)
      BY <2>1
    <3>6. /\ t \o u = path.base \o path.raw /\ Head(r) = c /\ Tail(r) = u
          /\ (k = 0 <=> u = << >>)
      BY <3>2, EmptySeq, LenProperties DEF RawPaths
    <3> HIDE DEF a, b, c, u, t, z, T
    <3>7. CASE c = Up
      <4>1. b = Front1(a)
        BY <3>3, <3>7 DEF Component
      <4>2. IsDirectory(b)
        BY <3>3, <3>5, <4>1, DirectoriesAbove
      <4>3. ASSUME NEW follow \in BOOLEAN
            PROVE  End(a, r, M, follow) = End(b, u, M, follow)
        <5>1. Head(r) = Up
          BY <3>6, <3>7
        <5>2. End(a, r, M, follow) = End(Front1(a), Tail(r), M, follow)
          BY <1>0, <3>1, <3>3, <5>1, OtherwiseOn
        <5> QED BY <3>6, <4>1, <5>2
      <4> QED BY <3>4, <4>2, <4>3, LeadsOn DEF a
    <3>8. CASE c # Up /\ k = 0
      <4>1. b = Append(a, c) /\ c \in Names /\ u = << >>
        BY <3>2, <3>3, <3>6, <3>8 DEF Component
      <4>2. r = <<c>>
        BY <3>1, <3>2, <3>6, <3>8 DEF RawPaths
      <4>3. t = z
        BY <3>2, <4>1, Pieces
      <4>4. Normalize(z) = Append(a, c)
        BY <4>1, <4>3 DEF b
      <4>5. LeadsInto(a, r, Normalize(z))
        BY <3>3, <3>5, <4>1, <4>2, <4>4 DEF LeadsInto
      <4> QED BY <4>5 DEF a
    <3>9. CASE c # Up /\ k # 0
      <4>1. b = Append(a, c) /\ c \in Names /\ u # << >> /\ Len(r) # 1
        BY <3>2, <3>3, <3>6, <3>9 DEF Component
      <4>2. ~IsLink(b)
        BY <3>2, <3>6, <4>1, NoLinkBefore DEF b
      <4>3. CASE IsDirectory(b)
        <5>1. \A follow \in BOOLEAN : StepsOn(a, r, follow)
          BY <3>6, <3>9, <4>1, <4>2, <4>3 DEF StepsOn
        <5>2. ASSUME NEW follow \in BOOLEAN
              PROVE  End(a, r, M, follow) = End(b, u, M, follow)
          <6>1. End(a, r, M, follow) = End(Append(a, Head(r)), Tail(r), M, follow)
            BY <1>0, <3>1, <3>3, <5>1, StraightOn
          <6> QED BY <3>6, <4>1, <6>1
        <5> QED BY <3>4, <4>3, <5>2, LeadsOn DEF a
      <4>4. CASE ~IsDirectory(b)
        <5>1. \A follow \in BOOLEAN : End(a, r, M, follow) = Nowhere
          BY <1>0, <3>1, <3>3, <3>6, <3>9, <4>1, <4>2, <4>4, OtherwiseOn
        <5> QED BY <5>1 DEF LeadsInto, a
      <4> QED BY <4>3, <4>4
    <3> QED BY <3>7, <3>8, <3>9
  <2> HIDE DEF z
  <2> QED BY <2>1
<1> HIDE DEF T
<1>3. Nat \subseteq T
  BY <1>1, <1>2, NumberByNumber
<1>4. /\ path.base \in RawPaths /\ Normalize(path.base) = path.base
      /\ Len(path.raw) \in Nat
  BY PathsAreRaw, NormalOfNormal, LenProperties DEF RawPaths
<1>5. Len(path.raw) \in T
  BY <1>3, <1>4
<1> QED BY <1>4, <1>5 DEF T

(* A walk that is lost, or whose last component x is looked up where the   *)
(* walk without it ends.                                                   *)
LastIn(a, r, m, x) ==
  \/ \A follow \in BOOLEAN : End(a, Append(r, x), m, follow) = Nowhere
  \/ /\ IsDirectory(End(a, r, m, TRUE))
     /\ \E k \in 0..MaxLinks : \A follow \in BOOLEAN :
          End(a, Append(r, x), m, follow) = End(End(a, r, m, TRUE), <<x>>, k, follow)

LEMMA LastOn ==
  ASSUME NEW a, NEW r, NEW m, NEW x, NEW b, NEW u, NEW l, LastIn(b, u, l, x),
         End(a, r, m, TRUE) = End(b, u, l, TRUE),
         \A follow \in BOOLEAN :
           End(a, Append(r, x), m, follow) = End(b, Append(u, x), l, follow)
  PROVE  LastIn(a, r, m, x)
BY Zenon DEF LastIn

LEMMA MoreAtEnd ==
  ASSUME NEW r \in RawPaths, NEW x \in Names
  PROVE  /\ Append(r, x) \in RawPaths /\ Append(r, x) # << >>
         /\ r # << >> => /\ Head(Append(r, x)) = Head(r)
                         /\ Tail(Append(r, x)) = Append(Tail(r), x)
                         /\ Len(Append(r, x)) # 1
                         /\ Tail(r) \in RawPaths /\ Head(r) \in Names \cup {Up}
         /\ \A t \in RawPaths : t \o Append(r, x) = Append(t \o r, x) /\ t \o r \in RawPaths
         /\ Append(<< >>, x) = <<x>>
<1> DEFINE S == Names \cup {Up}
<1>1. r \in Seq(S) /\ x \in S
  BY DEF RawPaths
<1>2. \A t \in RawPaths : t \in Seq(S)
  BY DEF RawPaths
<1> HIDE DEF S
<1>3. Append(r, x) \in Seq(S) /\ Append(r, x) # << >> /\ Append(<< >>, x) = <<x>>
  <2>1. Append(r, x) \in Seq(S) /\ Append(r, x) # << >>
    BY <1>1, AppendProperties
  <2>2. Append(<< >>, x) = <<x>>
    OBVIOUS
  <2> QED BY <2>1, <2>2
<1>4. ASSUME r # << >>
      PROVE  /\ Head(Append(r, x)) = Head(r)
             /\ Tail(Append(r, x)) = Append(Tail(r), x)
             /\ Len(Append(r, x)) # 1
             /\ Tail(r) \in Seq(S) /\ Head(r) \in S
  <2>1. Len(r) \in Nat /\ Len(r) >= 1
    BY <1>4, Lengths
  <2>2. Len(Append(r, x)) = Len(r) + 1
    BY <1>1, AppendProperties
  <2>3. Tail(r) \in Seq(S) /\ Head(r) \in S
    BY <1>1, <1>4, HeadTailProperties
  <2>4. Head(Append(r, x)) = Head(r) /\ Tail(Append(r, x)) = Append(Tail(r), x)
    BY <1>1, <1>4
  <2>5. Len(Append(r, x)) # 1
    BY <2>1, <2>2
  <2> QED BY <2>3, <2>4, <2>5
<1>5. ASSUME NEW t \in Seq(S)
      PROVE  t \o Append(r, x) = Append(t \o r, x) /\ t \o r \in Seq(S)
  <2>1. /\ Append(r, x) = r \o <<x>> /\ <<x>> \in Seq(S) /\ t \o r \in Seq(S)
        /\ Append(t \o r, x) = (t \o r) \o <<x>>
    BY <1>1, <1>5
  <2>2. (t \o r) \o <<x>> = t \o (r \o <<x>>)
    BY <1>1, <1>5, <2>1, ConcatAssociative
  <2> QED BY <2>1, <2>2
<1> QED BY <1>2, <1>3, <1>4, <1>5 DEF RawPaths, S

LEMMA LastOfWalk ==
  ASSUME TreeOK(tree), NEW x \in Names, NEW a \in Paths, IsDirectory(a),
         NEW r \in RawPaths, NEW m \in 0..MaxLinks
  PROVE  LastIn(a, r, m, x)
<1> DEFINE T == {w \in Walks : IsDirectory(w.at) => LastIn(w.at, w.rest, w.links, x)}
<1>1. ASSUME NEW w \in Walks, w.rest = << >>, IsDirectory(w.at)
      PROVE  LastIn(w.at, w.rest, w.links, x)
  <2>1. w.links \in 0..MaxLinks /\ Append(w.rest, x) = <<x>>
    BY <1>1, WalkFacts, MoreAtEnd
  <2>2. End(w.at, w.rest, w.links, TRUE) = w.at
    BY <1>1, NoneLeft
  <2> QED BY <1>1, <2>1, <2>2 DEF LastIn
<1>2. ASSUME NEW w \in Walks, w.rest # << >>, WalkStep(w, TRUE) \in T, IsDirectory(w.at)
      PROVE  LastIn(w.at, w.rest, w.links, x)
  <2> DEFINE b == w.at
             s == w.rest
             l == w.links
             c == Head(s)
             u == Tail(s)
             p == Append(b, c)
             t == At(p).target
             sx == Append(s, x)
             v == WalkStep(w, TRUE)
  <2>1. /\ b \in RawPaths /\ s \in RawPaths /\ l \in 0..MaxLinks /\ s # << >>
        /\ IsDirectory(b) /\ b \in Paths
    BY <1>2, WalkFacts, DirectoryIs
  <2>2. /\ c \in Names \cup {Up} /\ u \in RawPaths
        /\ sx \in RawPaths /\ sx # << >> /\ Head(sx) = c /\ Tail(sx) = Append(u, x)
        /\ Len(sx) # 1
    BY <2>1, MoreAtEnd
  <2>3. IsDirectory(v.at) => LastIn(v.at, v.rest, v.links, x)
    BY <1>2
  <2>4. EndOf(w, TRUE) = End(b, s, l, TRUE) /\ EndOf(w, TRUE) = EndOf(v, TRUE)
    <3>1. w = [at |-> b, rest |-> s, links |-> l]
      BY DEF Walks
    <3> HIDE DEF b, s, l
    <3>2. EndOf(w, TRUE) = End(b, s, l, TRUE)
      BY <3>1 DEF End
    <3> QED BY <3>2, EndOfStep DEF v
  <2>5. v = [at |-> v.at, rest |-> v.rest, links |-> v.links]
    <3>1. v \in Walks
      BY WalkStepType
    <3> HIDE DEF v
    <3> QED BY <3>1 DEF Walks
  <2>6. EndOf(v, TRUE) = End(v.at, v.rest, v.links, TRUE)
    <3> HIDE DEF v
    <3> QED BY <2>5 DEF End
  <2>7. /\ c = Up => v = [at |-> Front1(b), rest |-> u, links |-> l]
        /\ c # Up /\ IsLink(p) /\ l # 0 => v = [at |-> << >>, rest |-> t \o u, links |-> l - 1]
        /\ c # Up /\ ~IsLink(p) /\ IsDirectory(p) => v = [at |-> p, rest |-> u, links |-> l]
    BY <2>1, WalkStepIs
  <2> HIDE DEF v, c, u, p, t, sx
  <2>8. ASSUME NEW e, NEW y, NEW n, v = [at |-> e, rest |-> y, links |-> n], IsDirectory(e),
               \A follow \in BOOLEAN : End(b, sx, l, follow) = End(e, Append(y, x), n, follow)
        PROVE  LastIn(b, s, l, x)
    <3>1. v.at = e /\ v.rest = y /\ v.links = n
      BY <2>8
    <3>2. LastIn(e, y, n, x) /\ End(b, s, l, TRUE) = End(e, y, n, TRUE)
      BY <2>3, <2>4, <2>6, <2>8, <3>1
    <3> HIDE DEF b, s, l
    <3> QED BY <2>8, <3>2, LastOn DEF sx
  <2>9. CASE c = Up
    <3>1. \A follow \in BOOLEAN : End(b, sx, l, follow) = End(Front1(b), Append(u, x), l, follow)
      <4> TAKE follow \in BOOLEAN
      <4>1. Head(sx) = Up
        BY <2>2, <2>9
      <4>2. End(b, sx, l, follow) = End(Front1(b), Tail(sx), l, follow)
        BY <2>1, <2>2, <4>1, OtherwiseOn
      <4> QED BY <2>2, <4>2
    <3>2. IsDirectory(Front1(b))
      BY <2>1, DirectoriesAbove
    <3>3. v = [at |-> Front1(b), rest |-> u, links |-> l]
      BY <2>7, <2>9
    <3> QED BY <2>8, <3>1, <3>2, <3>3
  <2>10. CASE c # Up /\ IsLink(p) /\ l # 0
    <3>1. t \in RawPaths
      BY <2>10, LinkTargets DEF t
    <3>2. t \o Append(u, x) = Append(t \o u, x)
      BY <2>2, <3>1, MoreAtEnd
    <3>3. \A follow \in BOOLEAN : End(b, sx, l, follow) = End(<< >>, Append(t \o u, x), l - 1, follow)
      <4> TAKE follow \in BOOLEAN
      <4>1. Head(sx) # Up /\ IsLink(Append(b, Head(sx)))
        BY <2>2, <2>10 DEF p
      <4>2. End(b, sx, l, follow) =
              End(<< >>, At(Append(b, Head(sx))).target \o Tail(sx), l - 1, follow)
        BY <2>1, <2>2, <2>10, <4>1, OtherwiseOn
      <4>3. At(Append(b, Head(sx))).target = t
        BY <2>2 DEF t, p
      <4> QED BY <2>2, <3>2, <4>2, <4>3
    <3>4. v = [at |-> << >>, rest |-> t \o u, links |-> l - 1] /\ IsDirectory(<< >>)
      BY <2>7, <2>10, DirectoryIs
    <3> QED BY <2>8, <3>3, <3>4
  <2>11. CASE c # Up /\ ~IsLink(p) /\ IsDirectory(p)
    <3>1. \A follow \in BOOLEAN : End(b, sx, l, follow) = End(p, Append(u, x), l, follow)
      <4> TAKE follow \in BOOLEAN
      <4>1. StepsOn(b, sx, follow)
        BY <2>2, <2>11 DEF StepsOn, p
      <4>2. End(b, sx, l, follow) = End(Append(b, Head(sx)), Tail(sx), l, follow)
        BY <2>1, <2>2, <4>1, StraightOn
      <4> QED BY <2>2, <4>2 DEF p
    <3>2. v = [at |-> p, rest |-> u, links |-> l]
      BY <2>7, <2>11
    <3> QED BY <2>8, <2>11, <3>1, <3>2
  <2>12. CASE \/ c # Up /\ IsLink(p) /\ l = 0
              \/ c # Up /\ ~IsLink(p) /\ ~IsDirectory(p)
    <3>1. ASSUME NEW follow \in BOOLEAN PROVE End(b, sx, l, follow) = Nowhere
      <4>1. /\ Head(sx) # Up /\ Len(sx) # 1
            /\ \/ IsLink(Append(b, Head(sx))) /\ l = 0
               \/ ~IsLink(Append(b, Head(sx))) /\ ~IsDirectory(Append(b, Head(sx)))
        BY <2>2, <2>12 DEF p
      <4> QED BY <2>1, <2>2, <4>1, OtherwiseOn
    <3> QED BY <3>1 DEF LastIn, sx
  <2> QED BY <2>9, <2>10, <2>11, <2>12
<1>3. Walks \subseteq T
  <2>1. \A w \in Walks : w.rest = << >> => w \in T
    BY <1>1
  <2>2. \A w \in Walks : w.rest # << >> /\ WalkStep(w, TRUE) \in T => w \in T
    BY <1>2
  <2> HIDE DEF T
  <2> QED BY <2>1, <2>2, AlongWalks
<1> DEFINE w == [at |-> a, rest |-> r, links |-> m]
<1>4. w \in Walks /\ w.at = a /\ w.rest = r /\ w.links = m
  BY PathsAreRaw DEF Walks
<1> HIDE DEF w
<1>5. w \in T
  BY <1>3, <1>4
<1> QED BY <1>4, <1>5

-----------------------------------------------------------------------------
(* Where the kernel arrives is the path that the supervisor makes of a     *)
(* call, unless a directory is there.                                      *)

(* The last component x of the call's path, and of the path n that is made *)
(* of it, is looked up in the directory D, where d leads.                  *)
LooksUp(path, n, D, d, x, m) ==
  /\ D \in Paths /\ IsDirectory(D) /\ d \in Paths /\ x \in Names /\ m \in 0..MaxLinks
  /\ n = Append(d, x) /\ Reaches(Absolute(d), TRUE) = D
  /\ DirectoriesOnly(path) => d = D
  /\ \A follow \in BOOLEAN :
       /\ Reaches(path, follow) = End(D, <<x>>, m, follow)
       /\ Reaches(Absolute(n), follow) = End(D, <<x>>, m, follow)

LEMMA AbsoluteEnd ==
  ASSUME TreeOK(tree), NEW p \in Paths, NEW follow \in BOOLEAN
  PROVE  Reaches(Absolute(p), follow) = End(<< >>, p, MaxLinks, follow)
<1>1. << >> \in Paths /\ p \in RawPaths
  BY EmptySeq, PathsAreRaw DEF Paths
<1> QED BY <1>1, ReachesEnd DEF Absolute, End

LEMMA DirectoryReached ==
  ASSUME TreeOK(tree), NEW D \in Paths, IsDirectory(D), NEW follow \in BOOLEAN
  PROVE  Reaches(Absolute(D), follow) = D
<1>1. MaxLinks \in 0..MaxLinks /\ << >> \in RawPaths /\ D \in RawPaths
  BY LinksAssumption, PathsAreRaw, EmptySeq DEF RawPaths
<1>2. D \o << >> = D
  BY <1>1, Pieces
<1>3. End(<< >>, D \o << >>, MaxLinks, follow) = End(D, << >>, MaxLinks, follow)
  BY <1>1, ThroughDirectories
<1> QED BY <1>2, <1>3, AbsoluteEnd, NoneLeft

LEMMA CallLeads ==
  ASSUME TreeOK(tree), NEW path \in CallPaths, IsDirectory(path.base),
         DirectoriesOnly(path) \/ Up \notin ToSet(path.raw)
  PROVE  \/ \A follow \in BOOLEAN :
              Reaches(path, follow) = Nowhere \/ IsDirectory(Reaches(path, follow))
         \/ \E D, d, x, m : LooksUp(path, Normalize(path.base \o path.raw), D, d, x, m)
<1> DEFINE base == path.base
           r == path.raw
           z == base \o r
           n == Normalize(z)
           M == MaxLinks
<1>1. /\ base \in Paths /\ base \in RawPaths /\ r \in RawPaths
      /\ path = [base |-> base, raw |-> r] /\ M \in 0..M
  <2>1. path \in [base : Paths, raw : RawPaths]
    BY CallsAssumption
  <2> QED BY <2>1, PathsAreRaw, LinksAssumption
<1>2. \A follow \in BOOLEAN : Reaches(path, follow) = End(base, r, M, follow)
  <2> TAKE follow \in BOOLEAN
  <2> HIDE DEF base, r
  <2>1. Reaches([base |-> base, raw |-> r], follow) = End(base, r, M, follow)
    BY <1>1, ReachesEnd DEF End
  <2> QED BY <1>1, <2>1
<1>3. CASE DirectoriesOnly(path)
  <2>1. LeadsInto(base, r, n)
    BY <1>1, <1>3, PlainWalk
  <2> HIDE DEF base, r, z, n
  <2>2. ASSUME NEW D \in Paths, NEW x \in Names, IsDirectory(D), n = Append(D, x),
               \A follow \in BOOLEAN : End(base, r, M, follow) = End(D, <<x>>, M, follow)
        PROVE  LooksUp(path, n, D, D, x, M)
    <3>1. n \in Paths /\ n = D \o <<x>> /\ <<x>> \in RawPaths
      BY <2>2, AppendToPath, OnePiece, PathsAreRaw
    <3>2. \A follow \in BOOLEAN : Reaches(Absolute(n), follow) = End(D, <<x>>, M, follow)
      <4> TAKE follow \in BOOLEAN
      <4>1. Reaches(Absolute(n), follow) = End(<< >>, n, M, follow)
        BY <3>1, AbsoluteEnd
      <4>2. End(<< >>, D \o <<x>>, M, follow) = End(D, <<x>>, M, follow)
        BY <1>1, <2>2, <3>1, ThroughDirectories
      <4> QED BY <3>1, <4>1, <4>2
    <3>3. Reaches(Absolute(D), TRUE) = D
      BY <2>2, DirectoryReached
    <3>4. \A follow \in BOOLEAN : Reaches(path, follow) = End(D, <<x>>, M, follow)
      BY <1>2, <2>2
    <3> QED BY <1>1, <2>2, <3>2, <3>3, <3>4 DEF LooksUp
  <2>3. \/ \A follow \in BOOLEAN :
             Reaches(path, follow) = Nowhere \/ IsDirectory(Reaches(path, follow))
        \/ \E D, d, x, m : LooksUp(path, n, D, d, x, m)
    <3>1. CASE \A follow \in BOOLEAN :
                 End(base, r, M, follow) = Nowhere \/ IsDirectory(End(base, r, M, follow))
      BY <1>2, <3>1
    <3>2. CASE \E D \in Paths, x \in Names :
                 /\ IsDirectory(D) /\ n = Append(D, x)
                 /\ \A follow \in BOOLEAN : End(base, r, M, follow) = End(D, <<x>>, M, follow)
      BY <2>2, <3>2
    <3> QED BY <2>1, <3>1, <3>2 DEF LeadsInto
  <2> QED BY <2>3 DEF n, z, base, r
<1>4. CASE r = << >>
  <2>1. \A follow \in BOOLEAN : Reaches(path, follow) = base
    BY <1>2, <1>4, NoneLeft
  <2> QED BY <2>1
<1>5. CASE ~DirectoriesOnly(path) /\ r # << >>
  <2>1. r \in Paths /\ z \in Paths /\ z # << >>
    <3>1. \A i \in 1..Len(r) : r[i] \in Names \cup {Up} /\ r[i] # Up
      BY <1>1, <1>5, ElementOfSeq DEF RawPaths, ToSet
    <3>2. r \in Seq(Names)
      BY <1>1, <3>1 DEF RawPaths
    <3>3. z \in Seq(Names) /\ Len(z) = Len(base) + Len(r)
      BY <1>1, <3>2, ConcatProperties DEF Paths
    <3>4. Len(base) \in Nat /\ Len(r) \in Nat /\ Len(r) >= 1
      BY <1>1, <1>5, Lengths
    <3> HIDE DEF base, r, z
    <3>5. z # << >>
      BY <3>3, <3>4
    <3> QED BY <3>2, <3>3, <3>5 DEF Paths
  <2> HIDE DEF base, r, z
  <2>2. n = z
    BY <2>1, NormalOfNormal
  <2> DEFINE d == Front(z)
             x == Last(z)
             D == End(<< >>, d, M, TRUE)
  <2>3. d \in Paths /\ x \in Names /\ z = Append(d, x) /\ << >> \in Paths /\ d \in RawPaths
    BY <2>1, FrontProperties, PathsAreRaw, EmptySeq DEF Front1, Paths
  <2> HIDE DEF d, x
  <2>4. \A follow \in BOOLEAN : Reaches(path, follow) = End(<< >>, z, M, follow)
    <3> TAKE follow \in BOOLEAN
    <3>1. End(<< >>, base \o r, M, follow) = End(base, r, M, follow)
      BY <1>1, ThroughDirectories DEF base
    <3> QED BY <1>2, <3>1 DEF z
  <2>5. \A follow \in BOOLEAN : Reaches(Absolute(z), follow) = End(<< >>, z, M, follow)
    BY <2>1, AbsoluteEnd
  <2>6. LastIn(<< >>, d, M, x)
    BY <1>1, <2>3, DirectoryIs, LastOfWalk
  <2>7. Reaches(Absolute(d), TRUE) = D
    BY <2>3, AbsoluteEnd
  <2> HIDE DEF D
  <2>8. CASE \A follow \in BOOLEAN : End(<< >>, z, M, follow) = Nowhere
    BY <2>4, <2>8
  <2>9. CASE ~\A follow \in BOOLEAN : End(<< >>, z, M, follow) = Nowhere
    <3>1. IsDirectory(D) /\ \E k \in 0..M : \A follow \in BOOLEAN :
            End(<< >>, z, M, follow) = End(D, <<x>>, k, follow)
      BY <2>3, <2>6, <2>9 DEF LastIn, D
    <3>2. PICK k \in 0..M : \A follow \in BOOLEAN :
            End(<< >>, z, M, follow) = End(D, <<x>>, k, follow)
      BY <3>1
    <3>3. D \in Paths
      BY <3>1, DirectoryIs
    <3>4. LooksUp(path, z, D, d, x, k)
      BY <1>5, <2>3, <2>4, <2>5, <2>7, <3>1, <3>2, <3>3 DEF LooksUp
    <3> QED BY <2>2, <3>4 DEF n, z, base, r
  <2> QED BY <2>8, <2>9
<1> QED BY <1>3, <1>4, <1>5

(* resolve_path and the kernel agree: if the call of a command leads to a  *)
(* file, a link or a free name, then the path that is made of it when it   *)
(* is noticed, by removing ".." and by asking for canonical paths, is the  *)
(* place itself.  The exceptions are ".." behind a link, a directory that  *)
(* is a link for a call that does not follow the last one, and a link to   *)
(* nothing where a file is to be created (supervisor.rs:544-569).          *)
THEOREM ResolvesToEnd ==
  ASSUME TreeOK(tree), NEW path \in CallPaths, IsDirectory(path.base),
         DirectoriesOnly(path) \/ Up \notin ToSet(path.raw),
         NEW follow \in BOOLEAN, ~follow => DirectoriesOnly(path),
         Reaches(path, follow) \in DOMAIN tree, ~IsDirectory(Reaches(path, follow)),
         follow => At(Reaches(path, follow)) # Absent \/ ~Dangles(path)
  PROVE  Resolve(path, follow) = Reaches(path, follow)
<1> DEFINE q == Reaches(path, follow)
           n == Normalize(path.base \o path.raw)
<1>1. q \in DOMAIN tree /\ ~IsDirectory(q) /\ q # Nowhere /\ q \in Paths
  BY Locations
<1>2. PICK D, d, x, m : LooksUp(path, n, D, d, x, m)
  BY <1>1, CallLeads
<1>3. /\ D \in Paths /\ IsDirectory(D) /\ d \in Paths /\ x \in Names /\ m \in 0..MaxLinks
      /\ n = Append(d, x) /\ Reaches(Absolute(d), TRUE) = D
      /\ DirectoriesOnly(path) => d = D
      /\ q = End(D, <<x>>, m, follow)
      /\ Reaches(path, FALSE) = End(D, <<x>>, m, FALSE)
      /\ Reaches(Absolute(n), follow) = q
  BY <1>2 DEF LooksUp
<1>4. End(D, <<x>>, m, FALSE) = Append(D, x)
      /\ (~IsLink(Append(D, x)) => End(D, <<x>>, m, TRUE) = Append(D, x))
  BY <1>3, InTheEnd
<1>5. CASE ~follow
  <2>1. Resolve(path, follow) = n
    BY <1>5 DEF Resolve
  <2> HIDE DEF n, q
  <2>2. q = n
    BY <1>3, <1>4, <1>5
  <2> QED BY <2>1, <2>2 DEF q
<1>6. CASE follow /\ At(q) # Absent
  <2>1. Canonical(n) = q
    <3> HIDE DEF n, q
    <3>1. Reaches(Absolute(n), TRUE) = q
      BY <1>3, <1>6
    <3> QED BY <1>1, <1>6, <3>1 DEF Canonical
  <2>2. Canonical(n) # Nowhere => Resolve(path, follow) = Canonical(n)
    BY <1>6 DEF Resolve
  <2> HIDE DEF n
  <2> QED BY <1>1, <2>1, <2>2
<1>7. CASE follow /\ At(q) = Absent
  <2>1. Canonical(n) = Nowhere
    <3> HIDE DEF n, q
    <3>1. Reaches(Absolute(n), TRUE) = q
      BY <1>3, <1>7
    <3> QED BY <1>1, <1>7, <3>1 DEF Canonical
  <2>2. n # << >> /\ Front1(n) = d /\ Last(n) = x
    <3> HIDE DEF n
    <3>1. n # << >>
      BY <1>3, AppendToPath
    <3> QED BY <1>3, <3>1, FrontOfAppend DEF Front1
  <2>3. Canonical(Front1(n)) = D
    <3> HIDE DEF n
    <3>1. D # Nowhere /\ At(D) # Absent
      BY <1>3, DirectoryIs
    <3> QED BY <1>3, <2>2, <3>1 DEF Canonical
  <2>4. Canonical(n) = Nowhere /\ n # << >> /\ Canonical(Front1(n)) # Nowhere =>
          Resolve(path, follow) = Append(Canonical(Front1(n)), Last(n))
    BY <1>7 DEF Resolve
  <2> HIDE DEF n, q
  <2>5. D # Nowhere
    BY <1>3, DirectoryIs
  <2>6. Resolve(path, follow) = Append(D, x)
    BY <2>1, <2>2, <2>3, <2>4, <2>5
  <2>7. ~IsLink(Append(D, x))
    <3>1. q = Reaches(path, TRUE)
      BY <1>7 DEF q
    <3>2. ~Dangles(path)
      BY <1>7 DEF q
    <3>3. ~IsLink(Reaches(path, FALSE))
      BY <1>7, <3>1, <3>2 DEF Dangles
    <3> QED BY <1>3, <1>4, <3>3
  <2>8. q = Append(D, x)
    BY <1>3, <1>4, <1>7, <2>7
  <2> QED BY <2>6, <2>8 DEF q
<1> QED BY <1>5, <1>6, <1>7

-----------------------------------------------------------------------------
(* Why no change goes untracked.  A file that is open for writing has its  *)
(* names captured, a call that was let through has the places captured it  *)
(* will change when the kernel carries it out, and what is not captured is *)
(* what it was.  A place stays the one it was when the call was noticed,   *)
(* for nobody moves a link while another call is pending.                  *)

Safe(p) == Wanted(p) => p \in DOMAIN before
Held(i) == \A p \in NamesOf(i) : Safe(p)
Covered(q) == q \in DOMAIN tree /\ ~IsDirectory(q) => Safe(q)
CoveredOrNew(q) ==
  q \in DOMAIN tree /\ ~IsDirectory(q) => Safe(q) \/ start.states[q] = Absent

Prepared(c) ==
  /\ c.op \notin {"creat", "link", "openat2", "io_uring"}
  /\ c.op = "fchmod" => Held(c.inode)
  /\ c.op = "open_create" => Covered(Reaches(c.path, TRUE))
  /\ c.op \in {"open_write", "chmod"} => CoveredOrNew(Reaches(c.path, TRUE))
  /\ c.op \in NotFollowing \cup {"rename"} => Covered(Reaches(c.path, FALSE))
  /\ c.op = "rename" => Covered(Reaches(c.to, FALSE))

Originals ==
  \A p \in DOMAIN tree :
    IF p \in DOMAIN before THEN before[p] = start.states[p]
    ELSE phase = "load" \/ Wanted(p) => StateAt(p) = start.states[p]

Accounted ==
  /\ Originals /\ OneName(tree)
  /\ \A h \in handles : h.writable => Held(h.inode)
  /\ \A t \in Threads : pending[t] # None => Prepared(pending[t])

Alone ==
  \A t, u \in Threads :
    t # u /\ pending[t] # None /\ pending[u] # None => ~MovesLinks(pending[t])

Kept ==
  /\ \A path \in CallPaths : IsDirectory(path.base)
  /\ DOMAIN start.states = DOMAIN tree
  /\ Alone
  /\ gaps = {} => Accounted

LEMMA SameWanted ==
  ASSUME UNCHANGED <<raw, start>>
  PROVE  \A p : Wanted(p)' <=> Wanted(p)
BY DEF Wanted, RootsAbove

(* What a path leads to while no link and no directory comes or goes.      *)
LEMMA SamePlace ==
  ASSUME TreeOK(tree), TreeOK(tree)', SameShape, NEW path \in CallPaths,
         NEW follow \in BOOLEAN
  PROVE  Reaches(path, follow)' = Reaches(path, follow)
<1> DEFINE base == path.base
           p == path.raw
<1>1. path \in [base : Paths, raw : RawPaths]
  BY CallsAssumption
<1>2. base \in Paths /\ p \in RawPaths /\ path = [base |-> base, raw |-> p]
  BY <1>1
<1> HIDE DEF base, p
<1>3. Reaches([base |-> base, raw |-> p], follow)' = Reaches([base |-> base, raw |-> p], follow)
  BY <1>2, SameReach
<1> QED BY <1>2, <1>3

LEMMA PathsOfCall ==
  ASSUME NEW c \in CallsLetThrough
  PROVE  /\ c.op \notin {"io_uring", "fchmod"} => c.path \in CallPaths /\ c.path \in PathsIn(c)
         /\ c.op \in TwoPaths => c.to \in CallPaths /\ c.to \in PathsIn(c)
         /\ PathsIn(c) \subseteq CallPaths
         /\ c.op = "fchmod" => c.inode \in Inodes
         /\ c.op = "fchmod" <=> c \notin Calls
<1>1. CASE c \in Calls
  <2>1. c.op \notin {"io_uring", "fchmod"} => c.path \in CallPaths
    BY <1>1 DEF Calls, Following, TwoPaths
  <2>2. c.op \in TwoPaths => c.to \in CallPaths
    BY <1>1 DEF Calls, Following, TwoPaths
  <2>3. c.op # "fchmod"
    BY <1>1 DEF Calls, Following, TwoPaths
  <2> QED BY <1>1, <2>1, <2>2, <2>3 DEF PathsIn, TwoPaths
<1>2. CASE c \in [op : {"fchmod"}, inode : Inodes]
  <2>1. c.op = "fchmod" /\ c.inode \in Inodes
    BY <1>2
  <2>2. c \notin Calls
    BY <2>1 DEF Calls, Following, TwoPaths
  <2> QED BY <2>1, <2>2 DEF PathsIn, TwoPaths
<1> QED BY <1>1, <1>2 DEF CallsLetThrough

LEMMA SameMoves ==
  ASSUME TreeOK(tree), TreeOK(tree)', SameShape, NEW c \in CallsLetThrough
  PROVE  MovesLinks(c)' <=> MovesLinks(c)
<1>1. ASSUME NEW path \in PathsIn(c)
      PROVE  IsLink(Reaches(path, FALSE))' <=> IsLink(Reaches(path, FALSE))
  <2>1. path \in CallPaths
    BY PathsOfCall
  <2>2. PICK r : r = Reaches(path, FALSE)
    OBVIOUS
  <2>3. Reaches(path, FALSE)' = r
    BY <2>1, <2>2, SamePlace
  <2>4. IsLink(r)' <=> IsLink(r)
    BY ShapeSeen
  <2> QED BY <2>2, <2>3, <2>4
<1> QED BY <1>1 DEF MovesLinks, PathsIn

(* What is captured stays captured.                                        *)
LEMMA CoverGrows ==
  ASSUME UNCHANGED <<raw, start>>, DOMAIN before \subseteq DOMAIN before', NEW p
  PROVE  Safe(p) => Safe(p)'
BY SameWanted DEF Safe

LEMMA CoverStays ==
  ASSUME TreeOK(tree), SameShape, UNCHANGED <<raw, start>>,
         DOMAIN before \subseteq DOMAIN before', NEW q
  PROVE  /\ Covered(q) => Covered(q)'
         /\ CoveredOrNew(q) => CoveredOrNew(q)'
<1>1. /\ IsDirectory(q)' <=> IsDirectory(q)
      /\ q \in DOMAIN tree' <=> q \in DOMAIN tree
  BY ShapeSeen DEF SameShape
<1>2. Safe(q) => Safe(q)'
  BY CoverGrows
<1> QED BY <1>1, <1>2 DEF Covered, CoveredOrNew

LEMMA PreparedStays ==
  ASSUME TreeOK(tree), TreeOK(tree)', SameShape, UNCHANGED <<raw, start>>,
         DOMAIN before \subseteq DOMAIN before', NEW c \in CallsLetThrough,
         \A i \in Inodes : Held(i) => Held(i)', Prepared(c)
  PROVE  Prepared(c)'
<1>1. ASSUME NEW path \in CallPaths, NEW follow \in BOOLEAN
      PROVE  /\ Covered(Reaches(path, follow)) => Covered(Reaches(path, follow))'
             /\ CoveredOrNew(Reaches(path, follow)) => CoveredOrNew(Reaches(path, follow))'
  <2>1. PICK r : r = Reaches(path, follow)
    OBVIOUS
  <2>2. Reaches(path, follow)' = r
    BY <2>1, SamePlace
  <2>3. /\ Covered(r) => Covered(r)'
        /\ CoveredOrNew(r) => CoveredOrNew(r)'
    BY CoverStays
  <2> QED BY <2>1, <2>2, <2>3
<1>2. /\ c.op \notin {"io_uring", "fchmod"} => c.path \in CallPaths
      /\ c.op \in TwoPaths => c.to \in CallPaths
      /\ c.op = "fchmod" => c.inode \in Inodes
  BY PathsOfCall
<1>3. c.op = "fchmod" => Held(c.inode)'
  BY <1>2 DEF Prepared
<1>4. c.op \in {"open_create"} => Covered(Reaches(c.path, TRUE))'
  BY <1>1, <1>2 DEF Prepared
<1>5. c.op \in {"open_write", "chmod"} => CoveredOrNew(Reaches(c.path, TRUE))'
  BY <1>1, <1>2 DEF Prepared
<1>6. c.op \in NotFollowing \cup {"rename"} => Covered(Reaches(c.path, FALSE))'
  BY <1>1, <1>2 DEF Prepared, NotFollowing
<1>7. c.op = "rename" => Covered(Reaches(c.to, FALSE))'
  BY <1>1, <1>2 DEF Prepared, TwoPaths
<1> QED BY <1>3, <1>4, <1>5, <1>6, <1>7 DEF Prepared

-----------------------------------------------------------------------------
(* A call is noticed.                                                      *)

LEMMA Captured ==
  ASSUME IInv, policy # None, NEW paths \in SUBSET Paths
  PROVE  LET b == WithOriginals(paths)
         IN  /\ DOMAIN before \subseteq DOMAIN b
             /\ \A p \in DOMAIN b :
                  IF p \in DOMAIN before THEN b[p] = before[p]
                  ELSE Wanted(p) /\ b[p] = Lstat(p)
             /\ \A p \in paths : Wanted(p) => p \in DOMAIN b
<1> DEFINE new == {p \in paths : Locate(policy, p) # {}} \ DOMAIN before
           b == WithOriginals(paths)
<1>1. b = [p \in DOMAIN before \cup new |->
             IF p \in DOMAIN before THEN before[p] ELSE Lstat(p)]
  BY DEF WithOriginals
<1>2. \A p \in paths : Wanted(p) <=> Locate(policy, p) # {}
  <2>1. raw.recursive \subseteq RawPaths /\ PolicySound
    BY DEF IInv, Typed, ConfigOK
  <2> QED BY <2>1, KeysAreWanted
<1>3. \A p : p \in new <=> p \in paths /\ Wanted(p) /\ p \notin DOMAIN before
  BY <1>2
<1> HIDE DEF new, b
<1>4. DOMAIN b = DOMAIN before \cup new
  BY <1>1
<1>5. \A p \in DOMAIN b : b[p] = IF p \in DOMAIN before THEN before[p] ELSE Lstat(p)
  BY <1>1, <1>4
<1>6. \A p \in paths : Wanted(p) => p \in DOMAIN b
  BY <1>3, <1>4
<1>7. \A p \in DOMAIN b :
        IF p \in DOMAIN before THEN b[p] = before[p] ELSE Wanted(p) /\ b[p] = Lstat(p)
  BY <1>3, <1>4, <1>5
<1> QED BY <1>4, <1>6, <1>7 DEF b

LEMMA StatesStay ==
  ASSUME UNCHANGED <<tree, data>>
  PROVE  /\ \A p : StateAt(p)' = StateAt(p)
         /\ \A i : NamesOf(i)' = NamesOf(i)
         /\ \A p : IsDirectory(p)' <=> IsDirectory(p)
BY DEF StateAt, IsFile, IsDirectory, At, NamesOf

LEMMA OriginalsStay ==
  ASSUME IInv, phase = "run", Originals, NEW paths \in SUBSET Paths,
         before' = WithOriginals(paths), UNCHANGED <<raw, phase, tree, data, start>>
  PROVE  Originals'
<1>1. policy # None /\ TreeOK(tree)
  BY DEF IInv, Typed
<1>2. /\ DOMAIN before \subseteq DOMAIN before'
      /\ \A p \in DOMAIN before' :
           IF p \in DOMAIN before THEN before'[p] = before[p]
           ELSE Wanted(p) /\ before'[p] = Lstat(p)
  BY <1>1, Captured
<1>3. \A p : StateAt(p)' = StateAt(p)
  BY StatesStay
<1>4. \A p : Wanted(p)' <=> Wanted(p)
  BY SameWanted
<1>5. \A p \in DOMAIN tree :
        IF p \in DOMAIN before THEN before[p] = start.states[p]
        ELSE Wanted(p) => StateAt(p) = start.states[p]
  BY DEF Originals
<1>6. \A p \in DOMAIN tree : Lstat(p) = StateAt(p)
  BY <1>1, LocationReached
<1>7. ASSUME NEW p \in DOMAIN tree
      PROVE  IF p \in DOMAIN before' THEN before'[p] = start.states[p]
             ELSE Wanted(p) => StateAt(p) = start.states[p]
  BY <1>2, <1>5, <1>6
<1>8. start' = start /\ tree' = tree /\ phase' = "run"
  OBVIOUS
<1> QED BY <1>3, <1>4, <1>7, <1>8 DEF Originals

(* If no gap is noted, every path of the call is captured.                 *)
LEMMA AllNoticed ==
  ASSUME NEW ps, NEW n \in Nat, DOMAIN ps = 1..n, GapsOf(ps) = {}
  PROVE  \A i \in 1..n : ps[i] \in BeforeDirectory(ps)
<1>1. \A i \in 1..n : ~IsDirectoryNow(ps[i])
  BY DEF GapsOf
<1>2. \A i \in 1..n : \A j \in 1..i : j \in 1..n
  OBVIOUS
<1> QED BY <1>1, <1>2 DEF BeforeDirectory

LEMMA OneOrTwo ==
  ASSUME NEW a, NEW b
  PROVE  /\ DOMAIN <<a>> = 1..1 /\ <<a>>[1] = a
         /\ DOMAIN <<a, b>> = 1..2 /\ <<a, b>>[1] = a /\ <<a, b>>[2] = b
OBVIOUS

LEMMA CallingKept ==
  ASSUME IInv, Kept, Habits = {}, NEW t \in Threads, NEW c \in CallsLetThrough,
         Calling(t, c), NEW paths \in SUBSET Paths,
         before' = WithOriginals(paths) \/ before' = before,
         gaps' = {} => gaps = {} /\ Prepared(c)'
  PROVE  Kept'
<1>1. /\ phase = "run" /\ pending' = [pending EXCEPT ![t] = c] /\ Plain(c)
      /\ UNCHANGED <<raw, policy, phase, tree, data, handles, start>>
  BY DEF Calling
<1>2. /\ TreeOK(tree) /\ pending \in [Threads -> CallsLetThrough \cup {None}]
      /\ handles \subseteq [inode : Inodes, writable : BOOLEAN] /\ policy # None
  BY <1>1 DEF IInv, Typed
<1>3. TreeOK(tree)' /\ SameShape
  BY <1>1, <1>2 DEF TreeOK, SameShape
<1>4. DOMAIN before \subseteq DOMAIN before'
  BY <1>2, Captured
<1>5. (\A path \in CallPaths : IsDirectory(path.base))'
  BY <1>1, StatesStay DEF Kept
<1>6. (DOMAIN start.states = DOMAIN tree)'
  BY <1>1 DEF Kept
<1>7. /\ pending'[t] = c
      /\ \A u \in Threads : u # t => pending'[u] = pending[u]
  BY <1>1, <1>2
<1>8. Alone'
  <2>1. ASSUME NEW w \in Threads, (pending[w] # None)'
        PROVE  MovesLinks(pending[w])' <=> MovesLinks(pending'[w])
    <3>1. PICK d : d = pending'[w]
      OBVIOUS
    <3>2. d \in CallsLetThrough
      BY <1>2, <1>7, <2>1, <3>1
    <3>3. MovesLinks(d)' <=> MovesLinks(d)
      BY <1>2, <1>3, <3>2, SameMoves
    <3> QED BY <3>1, <3>3
  <2>2. \A w \in Threads : pending[w] # None => ~MovesLinks(c) /\ ~MovesLinks(pending[w])
    BY <1>1 DEF Plain
  <2>3. ASSUME NEW u \in Threads, NEW v \in Threads, u # v,
               (pending[u] # None)', (pending[v] # None)'
        PROVE  ~MovesLinks(pending'[u])
    <3>1. CASE u = t
      BY <1>7, <2>2, <2>3, <3>1
    <3>2. CASE v = t
      BY <1>7, <2>2, <2>3, <3>2
    <3>3. CASE u # t /\ v # t
      BY <1>7, <2>3, <3>3 DEF Kept, Alone
    <3> QED BY <3>1, <3>2, <3>3
  <2> QED BY <2>1, <2>3 DEF Alone
<1>9. ASSUME gaps' = {} PROVE Accounted'
  <2>1. gaps = {} /\ Prepared(c)' /\ Accounted
    BY <1>9 DEF Kept
  <2>2. Originals'
    <3>1. CASE before' = WithOriginals(paths)
      BY <1>1, <2>1, <3>1, OriginalsStay DEF Accounted
    <3>2. CASE before' = before
      BY <1>1, <2>1, <3>2, StatesStay, SameWanted DEF Accounted, Originals
    <3> QED BY <3>1, <3>2
  <2>3. \A i : Held(i) => Held(i)'
    BY <1>1, <1>4, StatesStay, CoverGrows DEF Held
  <2>4. OneName(tree)'
    BY <1>1, <2>1 DEF Accounted, OneName
  <2>5. (\A h \in handles : h.writable => Held(h.inode))'
    BY <1>1, <2>1, <2>3 DEF Accounted
  <2>6. ASSUME NEW u \in Threads, (pending[u] # None)'
        PROVE  Prepared(pending[u])'
    <3>1. CASE u = t
      <4>1. pending'[u] = c
        BY <1>7, <3>1
      <4> QED BY <2>1, <4>1
    <3>2. CASE u # t
      <4>1. PICK d : d = pending[u]
        OBVIOUS
      <4>2. d \in CallsLetThrough /\ Prepared(d) /\ pending'[u] = d
        BY <1>2, <1>7, <2>1, <2>6, <3>2, <4>1 DEF Accounted
      <4>3. Prepared(d)'
        BY <1>1, <1>2, <1>3, <1>4, <2>3, <4>2, PreparedStays
      <4> QED BY <4>2, <4>3
    <3> QED BY <3>1, <3>2
  <2> QED BY <2>2, <2>4, <2>5, <2>6 DEF Accounted
<1> QED BY <1>5, <1>6, <1>8, <1>9 DEF Kept

(* The place a path leads to, once the path that was made of it is         *)
(* captured.                                                               *)
LEMMA PlaceCaptured ==
  ASSUME IInv, phase = "run", Originals, NEW path \in CallPaths, IsDirectory(path.base),
         DirectoriesOnly(path) \/ Up \notin ToSet(path.raw),
         NEW follow \in BOOLEAN, ~follow => DirectoriesOnly(path),
         NEW paths \in SUBSET Paths, Resolve(path, follow) \in paths,
         before' = WithOriginals(paths),
         UNCHANGED <<raw, policy, phase, tree, data, handles, start>>
  PROVE  /\ CoveredOrNew(Reaches(path, follow))'
         /\ ~follow \/ ~Dangles(path) => Covered(Reaches(path, follow))'
<1>1. policy # None /\ TreeOK(tree)
  BY DEF IInv, Typed
<1>2. TreeOK(tree)' /\ SameShape
  BY <1>1 DEF TreeOK, SameShape
<1>3. PICK q : q = Reaches(path, follow)
  OBVIOUS
<1>4. Reaches(path, follow)' = q
  BY <1>1, <1>2, <1>3, SamePlace
<1>5. /\ \A p : Wanted(p)' <=> Wanted(p)
      /\ \A p : IsDirectory(p)' <=> IsDirectory(p)
      /\ \A p : p \in DOMAIN tree' <=> p \in DOMAIN tree
      /\ start' = start
  BY SameWanted, StatesStay
<1>6. /\ DOMAIN before \subseteq DOMAIN before'
      /\ \A p \in paths : Wanted(p) => p \in DOMAIN before'
  BY <1>1, Captured
<1>7. ASSUME q \in DOMAIN tree, ~IsDirectory(q), follow => At(q) # Absent \/ ~Dangles(path)
      PROVE  Safe(q)'
  <2>1. Resolve(path, follow) = q
    BY <1>1, <1>3, <1>7, ResolvesToEnd
  <2> QED BY <1>5, <1>6, <2>1 DEF Safe
<1>8. ASSUME q \in DOMAIN tree, At(q) = Absent
      PROVE  Safe(q)' \/ start'.states[q] = Absent
  <2>1. CASE q \in DOMAIN before \/ ~Wanted(q)
    BY <1>5, <1>6, <2>1 DEF Safe
  <2>2. CASE q \notin DOMAIN before /\ Wanted(q)
    <3>1. StateAt(q) = start.states[q]
      BY <1>8, <2>2 DEF Originals
    <3>2. StateAt(q) = Absent
      BY <1>8 DEF StateAt, IsFile, Absent
    <3> QED BY <1>5, <3>1, <3>2
  <2> QED BY <2>1, <2>2
<1>9. CoveredOrNew(q)'
  BY <1>5, <1>7, <1>8 DEF CoveredOrNew
<1>10. ~follow \/ ~Dangles(path) => Covered(q)'
  BY <1>5, <1>7 DEF Covered
<1> QED BY <1>4, <1>9, <1>10

LEMMA PathCallPrepares ==
  ASSUME IInv, Kept, Habits = {}, NEW t \in Threads, NEW c \in Calls,
         Calling(t, c), ProcessPaths(c), gaps' = {}
  PROVE  Prepared(c)'
<1> DEFINE ps == Arguments(c)
           paths == BeforeDirectory(ps)
<1>1. /\ gaps = {} /\ Noted(c) = {} /\ GapsOf(ps) = {} /\ before' = WithOriginals(paths)
  BY DEF ProcessPaths
<1>2. /\ phase = "run" /\ Plain(c)
      /\ UNCHANGED <<raw, policy, phase, tree, data, handles, start>>
  BY DEF Calling
<1>3. /\ DOMAIN tree \subseteq Paths /\ TreeOK(tree) /\ Originals
      /\ \A path \in CallPaths : IsDirectory(path.base)
  BY <1>1 DEF IInv, Typed, TreeOK, Kept, Accounted
<1>4. c \in CallsLetThrough
  BY DEF CallsLetThrough
<1>5. /\ c.op # "creat"
      /\ c.op = "open_create" => ~Dangles(c.path)
      /\ \A path \in PathsIn(c) :
           /\ DirectoriesOnly(path) \/ Up \notin ToSet(path.raw)
           /\ c.op \notin Following => DirectoriesOnly(path)
  BY <1>2 DEF Plain
<1>6. c.op \notin {"link", "openat2", "io_uring"}
  BY <1>1 DEF Noted
<1>7. c.op # "fchmod"
  BY <1>4, PathsOfCall
<1>8. /\ c.op \notin {"io_uring", "fchmod"} => c.path \in CallPaths /\ c.path \in PathsIn(c)
      /\ c.op \in TwoPaths => c.to \in CallPaths /\ c.to \in PathsIn(c)
  BY <1>4, PathsOfCall
<1>9. \A i \in DOMAIN ps : ps[i] \in Paths
  BY <1>3, ArgumentsType
<1>10. /\ c.op \in Following => ps = <<Resolve(c.path, TRUE)>>
       /\ c.op \in NotFollowing => ps = <<Resolve(c.path, FALSE)>>
       /\ c.op = "rename" => ps = <<Resolve(c.path, FALSE), Resolve(c.to, FALSE)>>
  BY DEF Arguments, Following, NotFollowing
<1>11. paths \in SUBSET Paths
  <2> HIDE DEF ps
  <2> QED BY <1>9 DEF BeforeDirectory
<1> HIDE DEF ps
<1>12. ASSUME NEW n \in Nat, DOMAIN ps = 1..n PROVE \A i \in 1..n : ps[i] \in paths
  BY <1>1, <1>12, AllNoticed
<1> HIDE DEF paths
<1>13. c.op \in Following => Resolve(c.path, TRUE) \in paths
  <2>1. ASSUME NEW a, ps = <<a>> PROVE a \in paths
    BY <1>12, <2>1, OneOrTwo
  <2> QED BY <1>10, <2>1
<1>14. c.op \in NotFollowing => Resolve(c.path, FALSE) \in paths
  <2>1. ASSUME NEW a, ps = <<a>> PROVE a \in paths
    BY <1>12, <2>1, OneOrTwo
  <2> QED BY <1>10, <2>1
<1>15. c.op = "rename" => Resolve(c.path, FALSE) \in paths /\ Resolve(c.to, FALSE) \in paths
  <2>1. ASSUME NEW a, NEW b, ps = <<a, b>> PROVE a \in paths /\ b \in paths
    BY <1>12, <2>1, OneOrTwo
  <2> QED BY <1>10, <2>1
<1>16. ASSUME NEW path \in CallPaths, path \in PathsIn(c), NEW follow \in BOOLEAN,
              ~follow => c.op \notin Following, Resolve(path, follow) \in paths
       PROVE  /\ CoveredOrNew(Reaches(path, follow))'
              /\ ~follow \/ ~Dangles(path) => Covered(Reaches(path, follow))'
  <2>1. ~follow => DirectoriesOnly(path)
    BY <1>5, <1>16
  <2>2. DirectoriesOnly(path) \/ Up \notin ToSet(path.raw)
    BY <1>5, <1>16
  <2>3. IsDirectory(path.base)
    BY <1>3
  <2> QED BY <1>1, <1>2, <1>3, <1>11, <1>16, <2>1, <2>2, <2>3, PlaceCaptured
<1>17. c.op = "open_create" => Covered(Reaches(c.path, TRUE))'
  BY <1>5, <1>8, <1>13, <1>16 DEF Following
<1>18. c.op \in {"open_write", "chmod"} => CoveredOrNew(Reaches(c.path, TRUE))'
  BY <1>8, <1>13, <1>16 DEF Following
<1>19. c.op \in NotFollowing \cup {"rename"} => Covered(Reaches(c.path, FALSE))'
  <2>1. c.op \in NotFollowing \cup {"rename"} =>
          /\ c.op \notin Following /\ c.path \in CallPaths /\ c.path \in PathsIn(c)
          /\ Resolve(c.path, FALSE) \in paths
    BY <1>8, <1>14, <1>15 DEF Following, NotFollowing
  <2> QED BY <1>16, <2>1
<1>20. c.op = "rename" => Covered(Reaches(c.to, FALSE))'
  <2>1. c.op = "rename" =>
          /\ c.op \notin Following /\ c.to \in CallPaths /\ c.to \in PathsIn(c)
          /\ Resolve(c.to, FALSE) \in paths
    BY <1>8, <1>15 DEF Following, TwoPaths
  <2> QED BY <1>16, <2>1
<1> QED BY <1>5, <1>6, <1>7, <1>17, <1>18, <1>19, <1>20 DEF Prepared

LEMMA PathCallKept ==
  ASSUME IInv, Kept, Habits = {}, NEW t \in Threads, PathCall(t)
  PROVE  Kept'
<1>1. PICK c \in Calls : Calling(t, c) /\ ProcessPaths(c)
  BY DEF PathCall
<1> DEFINE ps == Arguments(c)
<1>2. DOMAIN tree \subseteq Paths
  BY DEF IInv, Typed, TreeOK
<1>3. \A i \in DOMAIN ps : ps[i] \in Paths
  BY <1>2, ArgumentsType
<1> HIDE DEF ps
<1>4. BeforeDirectory(ps) \in SUBSET Paths
  BY <1>3 DEF BeforeDirectory
<1>5. before' = WithOriginals(BeforeDirectory(ps)) /\ (gaps' = {} => gaps = {})
  BY <1>1 DEF ProcessPaths, ps
<1>6. gaps' = {} => Prepared(c)'
  BY <1>1, PathCallPrepares
<1>7. c \in CallsLetThrough
  BY DEF CallsLetThrough
<1> QED BY <1>1, <1>4, <1>5, <1>6, <1>7, CallingKept

LEMMA DescriptorCallKept ==
  ASSUME IInv, Kept, Habits = {}, NEW t \in Threads, DescriptorCall(t)
  PROVE  Kept'
<1>1. PICK h \in handles :
        /\ Calling(t, [op |-> "fchmod", inode |-> h.inode])
        /\ ProcessDescriptor(h.inode)
  BY DEF DescriptorCall
<1> DEFINE c == [op |-> "fchmod", inode |-> h.inode]
<1>2. c \in CallsLetThrough
  BY DEF IInv, Typed, CallsLetThrough
<1>3. /\ policy # None
      /\ UNCHANGED <<raw, policy, phase, tree, data, handles, start>>
  BY <1>1 DEF Calling, IInv, Typed
<1>4. CASE NamesOf(h.inode) = {}
  <2>1. before' = before /\ gaps' # {}
    BY <1>1, <1>4 DEF ProcessDescriptor
  <2> QED BY <1>1, <1>2, <2>1, CallingKept
<1>5. CASE NamesOf(h.inode) # {}
  <2>1. PICK p \in NamesOf(h.inode) : before' = WithOriginals({p}) /\ gaps' = gaps
    BY <1>1, <1>5 DEF ProcessDescriptor
  <2>2. {p} \in SUBSET Paths
    BY DEF NamesOf, IInv, Typed, TreeOK
  <2>3. ASSUME gaps' = {} PROVE Prepared(c)'
    <3>1. OneName(tree) /\ TreeOK(tree)
      BY <2>1, <2>3 DEF Kept, Accounted, IInv, Typed
    <3>2. ASSUME NEW n \in NamesOf(h.inode) PROVE n = p
      <4>1. n \in DOMAIN tree /\ p \in DOMAIN tree /\ tree[n] = File(h.inode)
            /\ tree[p] = File(h.inode)
        BY <2>1, <3>1, <3>2, Locations DEF NamesOf
      <4> QED BY <3>1, <4>1 DEF OneName, File
    <3>3. Wanted(p) => p \in DOMAIN before'
      BY <1>3, <2>1, <2>2, Captured
    <3>4. Held(h.inode)'
      <4>1. NamesOf(h.inode)' = NamesOf(h.inode) /\ (Wanted(p)' <=> Wanted(p))
        BY <1>3, StatesStay, SameWanted
      <4> QED BY <3>2, <3>3, <4>1 DEF Held, Safe
    <3> QED BY <3>4 DEF Prepared, NotFollowing
  <2> HIDE DEF c
  <2>4. Calling(t, c)
    BY <1>1 DEF c
  <2> QED BY <1>2, <2>1, <2>2, <2>3, <2>4, CallingKept
<1> QED BY <1>4, <1>5

-----------------------------------------------------------------------------
(* The kernel carries a call out.                                          *)

ShapeKept(t) ==
  /\ DOMAIN tree' = DOMAIN tree
  /\ \A p \in DOMAIN tree : tree[p] = Directory => tree'[p] = Directory
  /\ SameShape \/ MovesLinks(pending[t])

DataKept ==
  /\ \A p \in DOMAIN tree : tree'[p] = tree[p] \/ Safe(p)
  /\ \A i \in Inodes : data'[i] = data[i] \/ Held(i)
  /\ \A h \in handles' : h \in handles \/ (h.writable => Held(h.inode))
  /\ OneName(tree')

LEMMA FileHere ==
  ASSUME IInv, NEW q, IsFile(q)
  PROVE  /\ q \in DOMAIN tree /\ ~IsDirectory(q) /\ At(q) = tree[q]
         /\ At(q).inode \in Inodes /\ tree[q] = File(At(q).inode)
<1>1. /\ q \in DOMAIN tree /\ At(q).inode \in Inodes /\ EntryOK(At(q)) /\ TreeOK(tree)
  BY EntryThere DEF IInv, Typed
<1>2. At(q) = tree[q]
  BY <1>1, Locations
<1>3. ASSUME NEW e, EntryOK(e), e.kind = "file"
      PROVE  e = File(e.inode) /\ e.kind # "directory"
  BY <1>3 DEF EntryOK, Absent, Directory, File
<1> QED BY <1>1, <1>2, <1>3 DEF IsFile, IsDirectory

LEMMA NamesAre ==
  ASSUME TreeOK(tree), NEW i
  PROVE  NamesOf(i) = {p \in DOMAIN tree : tree[p] = File(i)}
BY Locations DEF NamesOf

LEMMA OnlyName ==
  ASSUME IInv, OneName(tree), NEW q, IsFile(q), Safe(q)
  PROVE  Held(At(q).inode)
<1>1. q \in DOMAIN tree /\ tree[q] = File(At(q).inode) /\ tree[q].kind = "file"
  BY FileHere DEF File
<1>2. \A p \in NamesOf(At(q).inode) : p \in DOMAIN tree /\ tree[p] = tree[q]
  BY <1>1, NamesAre DEF IInv, Typed
<1> QED BY <1>1, <1>2 DEF OneName, Held

(* A file is not what was absent at the beginning and is not captured.     *)
LEMMA FileIsCaptured ==
  ASSUME IInv, Originals, NEW q, IsFile(q), CoveredOrNew(q)
  PROVE  Safe(q)
<1>1. q \in DOMAIN tree /\ ~IsDirectory(q) /\ q # Nowhere
  BY FileHere, Locations DEF IInv, Typed
<1>2. StateAt(q).kind = "present"
  BY <1>1 DEF StateAt
<1>3. StateAt(q) # Absent
  BY <1>2 DEF Absent
<1>4. ASSUME start.states[q] = Absent, Wanted(q), q \notin DOMAIN before
      PROVE  FALSE
  BY <1>1, <1>3, <1>4 DEF Originals
<1> QED BY <1>1, <1>4 DEF CoveredOrNew, Safe

LEMMA HeldStays ==
  ASSUME TreeOK(tree), TreeOK(tree)', UNCHANGED <<raw, start, before>>,
         DOMAIN tree' = DOMAIN tree, DataKept, NEW i
  PROVE  Held(i) => Held(i)'
<1>1. ASSUME Held(i), NEW p \in NamesOf(i)'
      PROVE  Safe(p)
  <2>1. NamesOf(i)' = {n \in DOMAIN tree' : tree'[n] = File(i)}
    <3>1. \A n \in DOMAIN tree' : At(n)' = tree'[n]
      BY DEF At, TreeOK
    <3> QED BY <3>1 DEF NamesOf
  <2>2. p \in DOMAIN tree /\ tree'[p] = File(i)
    BY <1>1, <2>1
  <2>3. CASE tree'[p] = tree[p]
    <3>1. p \in NamesOf(i)
      BY <2>2, <2>3, NamesAre
    <3> QED BY <1>1, <3>1 DEF Held
  <2> QED BY <2>2, <2>3 DEF DataKept
<1>2. \A p : Safe(p) => Safe(p)'
  BY CoverGrows
<1> QED BY <1>1, <1>2 DEF Held

LEMMA OriginalsRemain ==
  ASSUME IInv, TreeOK(tree)', Originals, phase # "load", DOMAIN tree' = DOMAIN tree, DataKept,
         UNCHANGED <<raw, phase, start, before>>
  PROVE  Originals'
<1>1. TreeOK(tree) /\ phase' # "load" /\ start' = start /\ before' = before
  BY DEF IInv, Typed
<1>2. ASSUME NEW p \in DOMAIN tree, p \notin DOMAIN before, Wanted(p)
      PROVE  StateAt(p)' = StateAt(p)
  <2>1. ~Safe(p)
    BY <1>2 DEF Safe
  <2>2. tree'[p] = tree[p] /\ At(p) = tree[p]
    BY <1>1, <1>2, <2>1, Locations DEF DataKept
  <2>3. At(p)' = At(p)
    BY <1>1, <1>2, <2>2 DEF At
  <2>4. IsFile(p)' <=> IsFile(p)
    BY <2>3 DEF IsFile
  <2>5. CASE IsFile(p)
    <3>1. At(p).inode \in Inodes /\ p \in NamesOf(At(p).inode)
      BY <1>1, <1>2, <2>5, FileHere, NamesAre
    <3>2. ~Held(At(p).inode)
      BY <2>1, <3>1 DEF Held
    <3>3. data'[At(p).inode] = data[At(p).inode]
      BY <3>1, <3>2 DEF DataKept
    <3> QED BY <2>3, <2>4, <3>3 DEF StateAt
  <2>6. CASE ~IsFile(p)
    BY <2>3, <2>4, <2>6 DEF StateAt
  <2> QED BY <2>5, <2>6
<1>3. \A p : Wanted(p)' <=> Wanted(p)
  BY SameWanted
<1> QED BY <1>1, <1>2, <1>3 DEF Originals

LEMMA KernelKept ==
  ASSUME IInv, TreeOK(tree)', Kept, NEW t \in Threads, pending[t] # None, Returns(t),
         ShapeKept(t), gaps = {} => DataKept
  PROVE  Kept'
<1>1. /\ TreeOK(tree) /\ pending \in [Threads -> CallsLetThrough \cup {None}]
      /\ phase # "load" /\ handles \subseteq [inode : Inodes, writable : BOOLEAN]
  BY DEF IInv, Typed
<1>2. /\ pending' = [pending EXCEPT ![t] = None]
      /\ UNCHANGED <<raw, policy, phase, before, gaps, left, start>>
  BY DEF Returns
<1>3. /\ pending'[t] = None
      /\ \A u \in Threads : u # t => pending'[u] = pending[u]
  BY <1>1, <1>2
<1>4. DOMAIN tree' = DOMAIN tree
  BY DEF ShapeKept
<1>5. (\A path \in CallPaths : IsDirectory(path.base))'
  <2>1. ASSUME NEW p, IsDirectory(p) PROVE IsDirectory(p)'
    <3>1. CASE p = << >>
      <4>1. << >> \notin DOMAIN tree'
        BY DEF TreeOK
      <4>2. At(p)' = Directory
        BY <3>1, <4>1 DEF At
      <4> QED BY <4>2 DEF IsDirectory, Directory
    <3>2. CASE p \in DOMAIN tree
      <4>1. tree'[p] = Directory /\ p # << >>
        BY <1>1, <2>1, <3>2, Locations DEF ShapeKept
      <4>2. At(p)' = Directory
        BY <1>4, <3>2, <4>1 DEF At
      <4> QED BY <4>2 DEF IsDirectory, Directory
    <3>3. CASE p # << >> /\ p \notin DOMAIN tree
      BY <2>1, <3>3 DEF IsDirectory, At, Absent
    <3> QED BY <3>1, <3>2, <3>3
  <2> QED BY <2>1 DEF Kept
<1>6. (DOMAIN start.states = DOMAIN tree)'
  BY <1>2, <1>4 DEF Kept
<1>7. ASSUME NEW u \in Threads, (pending[u] # None)'
      PROVE  /\ u # t /\ pending'[u] = pending[u] /\ pending[u] \in CallsLetThrough
             /\ SameShape
  <2>1. u # t /\ pending[u] # None /\ pending'[u] = pending[u]
    BY <1>3, <1>7
  <2>2. ~MovesLinks(pending[t])
    BY <2>1 DEF Kept, Alone
  <2> QED BY <1>1, <2>1, <2>2 DEF ShapeKept
<1>8. Alone'
  <2>1. ASSUME NEW u \in Threads, NEW v \in Threads, u # v,
               (pending[u] # None)', (pending[v] # None)'
        PROVE  ~MovesLinks(pending[u])'
    <3>1. PICK d : d = pending[u]
      OBVIOUS
    <3>2. pending'[u] = d /\ d \in CallsLetThrough /\ ~MovesLinks(d) /\ SameShape
      BY <1>7, <2>1, <3>1 DEF Kept, Alone
    <3>3. ~MovesLinks(d)'
      BY <1>1, <3>2, SameMoves
    <3> QED BY <3>2, <3>3
  <2> QED BY <2>1 DEF Alone
<1>9. ASSUME gaps' = {} PROVE Accounted'
  <2>1. gaps = {} /\ Accounted /\ DataKept
    BY <1>2, <1>9 DEF Kept
  <2>2. Originals'
    BY <1>1, <1>2, <1>4, <2>1, OriginalsRemain DEF Accounted
  <2>3. \A i : Held(i) => Held(i)'
    BY <1>1, <1>2, <1>4, <2>1, HeldStays
  <2>4. OneName(tree)'
    BY <2>1 DEF DataKept, OneName
  <2>5. (\A h \in handles : h.writable => Held(h.inode))'
    BY <2>1, <2>3 DEF Accounted, DataKept
  <2>6. ASSUME NEW u \in Threads, (pending[u] # None)'
        PROVE  Prepared(pending[u])'
    <3>1. PICK d : d = pending[u]
      OBVIOUS
    <3>2. pending'[u] = d /\ d \in CallsLetThrough /\ Prepared(d) /\ SameShape
      BY <1>7, <2>1, <2>6, <3>1 DEF Accounted
    <3>3. Prepared(d)'
      BY <1>1, <1>2, <2>3, <3>2, PreparedStays
    <3> QED BY <3>2, <3>3
  <2> QED BY <2>2, <2>4, <2>5, <2>6 DEF Accounted
<1> QED BY <1>5, <1>6, <1>8, <1>9 DEF Kept

-----------------------------------------------------------------------------
(* What each call does to the tree and to the files.                       *)

LEMMA InACall ==
  ASSUME IInv, Kept, NEW t \in Threads, pending[t] # None
  PROVE  /\ pending[t] \in CallsLetThrough /\ phase # "load" /\ TreeOK(tree)
         /\ gaps = {} => Prepared(pending[t]) /\ Originals /\ OneName(tree)
BY DEF IInv, Typed, Kept, Accounted

LEMMA FileChanged ==
  ASSUME IInv, Originals, OneName(tree), NEW q, IsFile(q), CoveredOrNew(q)
  PROVE  Held(At(q).inode)
BY FileIsCaptured, OnlyName

LEMMA TreeStays ==
  ASSUME UNCHANGED tree, NEW t
  PROVE  ShapeKept(t) /\ (OneName(tree) => OneName(tree'))
BY DEF ShapeKept, SameShape

LEMMA OpenFileKept ==
  ASSUME IInv, Kept, NEW t \in Threads, OpenFile(t)
  PROVE  ShapeKept(t) /\ (gaps = {} => DataKept)
<1> DEFINE c == pending[t]
           q == Reaches(c.path, TRUE)
<1>1. /\ c # None /\ c.op \in {"open_read", "open_write", "open_create", "openat2", "creat"}
      /\ IsFile(q)
      /\ handles' = handles \cup {[inode |-> At(q).inode, writable |-> c.op # "open_read"]}
      /\ c.op # "creat" => data' = data
      /\ tree' = tree
  BY DEF OpenFile, Opens
<1> HIDE DEF c, q
<1>2. ASSUME gaps = {} PROVE DataKept
  <2>1. Prepared(c) /\ Originals /\ OneName(tree)
    BY <1>1, <1>2, InACall DEF c
  <2>2. c.op \in {"open_read", "open_write", "open_create"}
    BY <1>1, <2>1 DEF Prepared
  <2>3. c.op # "open_read" => CoveredOrNew(q)
    BY <2>1, <2>2 DEF Prepared, q, Covered, CoveredOrNew
  <2>4. c.op # "open_read" => Held(At(q).inode)
    BY <1>1, <2>1, <2>3, FileChanged
  <2>5. ASSUME NEW h \in handles', h \notin handles, h.writable PROVE Held(h.inode)
    <3>1. h = [inode |-> At(q).inode, writable |-> c.op # "open_read"]
      BY <1>1, <2>5, Zenon
    <3>2. h.inode = At(q).inode /\ h.writable = (c.op # "open_read")
      BY <3>1, Zenon
    <3> QED BY <2>4, <2>5, <3>2
  <2> QED BY <1>1, <2>1, <2>2, <2>5 DEF DataKept
<1> QED BY <1>1, <1>2, TreeStays

LEMMA CreateFileKept ==
  ASSUME IInv, Kept, NEW t \in Threads, CreateFile(t)
  PROVE  ShapeKept(t) /\ (gaps = {} => DataKept)
<1> DEFINE c == pending[t]
           q == Reaches(c.path, TRUE)
<1>1. /\ c # None /\ c.op \in {"open_create", "creat"}
      /\ q \in DOMAIN tree /\ At(q) = Absent
  BY DEF CreateFile
<1>2. PICK i \in Fresh :
        /\ tree' = [tree EXCEPT ![q] = File(i)]
        /\ data' = [data EXCEPT ![i] = Changed]
        /\ handles' = handles \cup {[inode |-> i, writable |-> TRUE]}
  BY DEF CreateFile, Opens
<1> HIDE DEF c, q
<1>3. i \in Inodes /\ NamesOf(i) = {} /\ data \in [Inodes -> Inodes \cup {Changed}]
  BY DEF Fresh, IInv, Typed
<1>4. /\ TreeOK(tree) /\ tree[q] = Absent
      /\ DOMAIN tree' = DOMAIN tree /\ tree'[q] = File(i)
      /\ \A p \in DOMAIN tree : p # q => tree'[p] = tree[p]
  BY <1>1, <1>2, Locations DEF IInv, Typed
<1>5. ShapeKept(t)
  BY <1>4 DEF ShapeKept, SameShape, Absent, File, Directory
<1>6. ASSUME gaps = {} PROVE DataKept
  <2>1. Prepared(c) /\ OneName(tree)
    BY <1>1, <1>6, InACall DEF c
  <2>2. Covered(q)
    BY <1>1, <2>1 DEF Prepared, q
  <2>3. Safe(q)
    BY <1>1, <2>2 DEF Covered, IsDirectory, Absent
  <2>4. Held(i)
    BY <1>3 DEF Held
  <2>5. \A p \in DOMAIN tree : tree[p] # File(i)
    BY <1>3, <1>4, NamesAre
  <2>6. OneName(tree')
    BY <1>4, <2>1, <2>5 DEF OneName
  <2>7. \A j \in Inodes : data'[j] = data[j] \/ Held(j)
    BY <1>2, <1>3, <2>4
  <2>8. \A h \in handles' : h \in handles \/ (h.writable => Held(h.inode))
    BY <1>2, <2>4
  <2> QED BY <1>4, <2>3, <2>6, <2>7, <2>8 DEF DataKept
<1> QED BY <1>5, <1>6

LEMMA ChangeFileKept ==
  ASSUME IInv, Kept, NEW t \in Threads, ChangeFile(t)
  PROVE  ShapeKept(t) /\ (gaps = {} => DataKept)
<1> DEFINE c == pending[t]
           q == Reaches(c.path, c.op = "chmod")
<1>1. /\ c # None /\ c.op \in {"chmod", "fchmodat2"} /\ IsFile(q)
      /\ data' = [data EXCEPT ![At(q).inode] = Changed]
      /\ tree' = tree /\ handles' = handles
  BY DEF ChangeFile
<1>2. ASSUME gaps = {} PROVE DataKept
  <2>1. Prepared(c) /\ Originals /\ OneName(tree)
    BY <1>1, <1>2, InACall DEF c
  <2>2. CoveredOrNew(q)
    <3>1. CASE c.op = "chmod"
      BY <2>1, <3>1 DEF Prepared, q
    <3>2. CASE c.op = "fchmodat2"
      <4>1. q = Reaches(c.path, FALSE) /\ Covered(Reaches(c.path, FALSE))
        BY <2>1, <3>2 DEF Prepared, NotFollowing, q
      <4> QED BY <4>1 DEF Covered, CoveredOrNew
    <3> QED BY <1>1, <3>1, <3>2
  <2> HIDE DEF c, q
  <2>3. Held(At(q).inode)
    BY <1>1, <2>1, <2>2, FileChanged
  <2>4. \A j \in Inodes : data'[j] = data[j] \/ Held(j)
    BY <1>1, <2>3 DEF IInv, Typed
  <2> QED BY <1>1, <2>1, <2>4 DEF DataKept
<1> QED BY <1>1, <1>2, TreeStays

LEMMA ChangeDescriptorKept ==
  ASSUME IInv, Kept, NEW t \in Threads, ChangeDescriptor(t)
  PROVE  ShapeKept(t) /\ (gaps = {} => DataKept)
<1>1. /\ pending[t] # None /\ pending[t].op = "fchmod"
      /\ data' = [data EXCEPT ![pending[t].inode] = Changed]
      /\ tree' = tree /\ handles' = handles
  BY DEF ChangeDescriptor
<1>2. ASSUME gaps = {} PROVE DataKept
  <2>1. Prepared(pending[t]) /\ OneName(tree)
    BY <1>1, <1>2, InACall
  <2>2. Held(pending[t].inode)
    BY <1>1, <2>1 DEF Prepared
  <2>3. \A j \in Inodes : data'[j] = data[j] \/ Held(j)
    BY <1>1, <2>2 DEF IInv, Typed
  <2> QED BY <1>1, <2>1, <2>3 DEF DataKept
<1> QED BY <1>1, <1>2, TreeStays

(* One location gets another entry.                                        *)
LEMMA EntryReplaced ==
  ASSUME IInv, OneName(tree), NEW q \in DOMAIN tree, NEW e, e.kind # "file",
         tree' = [tree EXCEPT ![q] = e], UNCHANGED <<data, handles>>, Safe(q)
  PROVE  DataKept
<1>1. /\ DOMAIN tree' = DOMAIN tree /\ tree'[q] = e
      /\ \A p \in DOMAIN tree : p # q => tree'[p] = tree[p]
  BY DEF IInv, Typed, TreeOK
<1>2. OneName(tree')
  BY <1>1 DEF OneName
<1> QED BY <1>1, <1>2 DEF DataKept

LEMMA UnlinkKept ==
  ASSUME IInv, Kept, NEW t \in Threads, Unlink(t)
  PROVE  ShapeKept(t) /\ (gaps = {} => DataKept)
<1> DEFINE c == pending[t]
           q == Reaches(c.path, FALSE)
<1>1. /\ c # None /\ c.op = "unlink" /\ (IsFile(q) \/ IsLink(q))
      /\ tree' = [tree EXCEPT ![q] = Absent] /\ data' = data /\ handles' = handles
  BY DEF Unlink
<1>2. c \in CallsLetThrough /\ c.path \in PathsIn(c)
  BY <1>1, InACall, PathsOfCall
<1>3. IsLink(q) => MovesLinks(pending[t])
  BY <1>1, <1>2 DEF MovesLinks
<1> HIDE DEF q
<1>4. /\ q \in DOMAIN tree /\ At(q) = tree[q] /\ ~IsDirectory(q) /\ tree[q] # Directory
  <2>1. q \in DOMAIN tree
    BY <1>1, EntryThere
  <2>2. ~IsDirectory(q)
    BY <1>1 DEF IsFile, IsLink, IsDirectory
  <2> QED BY <2>1, <2>2, Locations DEF IInv, Typed
<1>5. /\ DOMAIN tree' = DOMAIN tree /\ tree'[q] = Absent
      /\ \A p \in DOMAIN tree : p # q => tree'[p] = tree[p]
  BY <1>1, <1>4
<1>6. IsFile(q) => SameShape
  BY <1>4, <1>5 DEF SameShape, IsFile, Absent
<1>7. ShapeKept(t)
  BY <1>1, <1>3, <1>4, <1>5, <1>6 DEF ShapeKept
<1>8. ASSUME gaps = {} PROVE DataKept
  <2>1. Prepared(c) /\ OneName(tree)
    BY <1>1, <1>8, InACall DEF c
  <2>2. Covered(q)
    BY <1>1, <2>1 DEF Prepared, NotFollowing, q
  <2>3. Safe(q) /\ Absent.kind # "file"
    BY <1>4, <2>2 DEF Covered, Absent
  <2> QED BY <1>1, <1>4, <2>1, <2>3, EntryReplaced
<1> QED BY <1>7, <1>8

LEMMA SymlinkKept ==
  ASSUME IInv, Kept, NEW t \in Threads, Symlink(t)
  PROVE  ShapeKept(t) /\ (gaps = {} => DataKept)
<1> DEFINE c == pending[t]
           q == Reaches(c.path, FALSE)
<1>1. /\ c # None /\ c.op = "symlink" /\ q \in DOMAIN tree /\ At(q) = Absent
      /\ tree' = [tree EXCEPT ![q] = Link(c.target)] /\ data' = data /\ handles' = handles
  BY DEF Symlink
<1>2. MovesLinks(pending[t])
  BY <1>1 DEF MovesLinks
<1> HIDE DEF q
<1>3. tree[q] = Absent /\ ~IsDirectory(q)
  BY <1>1, Locations DEF IInv, Typed, IsDirectory, Absent
<1>4. ShapeKept(t)
  BY <1>1, <1>2, <1>3 DEF ShapeKept, Absent, Directory
<1>5. ASSUME gaps = {} PROVE DataKept
  <2>1. Prepared(c) /\ OneName(tree)
    BY <1>1, <1>5, InACall DEF c
  <2>2. Covered(q)
    BY <1>1, <2>1 DEF Prepared, NotFollowing, q
  <2>3. Safe(q) /\ Link(c.target).kind # "file"
    BY <1>1, <1>3, <2>2 DEF Covered, Link
  <2> HIDE DEF c
  <2> QED BY <1>1, <2>1, <2>3, EntryReplaced
<1> QED BY <1>4, <1>5

LEMMA RenameKept ==
  ASSUME IInv, Kept, NEW t \in Threads, Rename(t)
  PROVE  ShapeKept(t) /\ (gaps = {} => DataKept)
<1> DEFINE c == pending[t]
           q == Reaches(c.path, FALSE)
           r == Reaches(c.to, FALSE)
<1>1. /\ c # None /\ c.op = "rename" /\ (IsFile(q) \/ IsLink(q))
      /\ r \in DOMAIN tree /\ r # q /\ ~IsDirectory(r)
      /\ tree' = [tree EXCEPT ![r] = At(q), ![q] = Absent]
      /\ data' = data /\ handles' = handles
  BY DEF Rename
<1>2. c \in CallsLetThrough /\ c.path \in PathsIn(c) /\ c.to \in PathsIn(c)
  BY <1>1, InACall, PathsOfCall DEF TwoPaths
<1>3. IsLink(q) \/ IsLink(r) => MovesLinks(pending[t])
  BY <1>1, <1>2 DEF MovesLinks, TwoPaths
<1> HIDE DEF q, r
<1>4. /\ q \in DOMAIN tree /\ At(q) = tree[q] /\ ~IsDirectory(q) /\ tree[q] # Directory
      /\ At(r) = tree[r] /\ tree[r] # Directory /\ EntryOK(tree[r]) /\ EntryOK(tree[q])
  <2>1. q \in DOMAIN tree /\ TreeOK(tree)
    BY <1>1, EntryThere DEF IInv, Typed
  <2>2. ~IsDirectory(q)
    BY <1>1 DEF IsFile, IsLink, IsDirectory
  <2> QED BY <1>1, <2>1, <2>2, Locations DEF TreeOK
<1>5. /\ DOMAIN tree' = DOMAIN tree /\ tree'[q] = Absent /\ tree'[r] = tree[q]
      /\ \A p \in DOMAIN tree : p # q /\ p # r => tree'[p] = tree[p]
  BY <1>1, <1>4
<1>6. ~IsLink(q) /\ ~IsLink(r) => SameShape
  <2>1. ASSUME NEW e, EntryOK(e), e # Directory, e.kind # "link"
        PROVE  e.kind \in {"absent", "file"}
    BY <2>1 DEF EntryOK, Absent, File
  <2>2. ~IsLink(q) /\ ~IsLink(r) =>
          tree[q].kind \in {"absent", "file"} /\ tree[r].kind \in {"absent", "file"}
    BY <1>4, <2>1 DEF IsLink
  <2>3. Absent.kind = "absent"
    BY DEF Absent
  <2> QED BY <1>5, <2>2, <2>3 DEF SameShape
<1>7. ShapeKept(t)
  BY <1>3, <1>4, <1>5, <1>6 DEF ShapeKept
<1>8. ASSUME gaps = {} PROVE DataKept
  <2>1. Prepared(c) /\ OneName(tree)
    BY <1>1, <1>8, InACall DEF c
  <2>2. Covered(q) /\ Covered(r)
    BY <1>1, <2>1 DEF Prepared, q, r
  <2>3. Safe(q) /\ Safe(r)
    BY <1>1, <1>4, <2>2 DEF Covered
  <2>4. ASSUME NEW a \in DOMAIN tree, NEW b \in DOMAIN tree,
               tree'[a].kind = "file", tree'[a] = tree'[b]
        PROVE  a = b
    <3>1. a # q /\ b # q
      BY <1>5, <2>4 DEF Absent
    <3>2. /\ tree'[a] = tree[IF a = r THEN q ELSE a]
          /\ tree'[b] = tree[IF b = r THEN q ELSE b]
      BY <1>5, <3>1
    <3>3. (IF a = r THEN q ELSE a) = (IF b = r THEN q ELSE b)
      BY <1>4, <2>1, <2>4, <3>2 DEF OneName
    <3> QED BY <3>1, <3>3
  <2>5. OneName(tree')
    BY <1>5, <2>4 DEF OneName
  <2> QED BY <1>1, <1>5, <2>3, <2>5 DEF DataKept
<1> QED BY <1>7, <1>8

LEMMA HardLinkKept ==
  ASSUME IInv, Kept, NEW t \in Threads, HardLink(t)
  PROVE  ShapeKept(t) /\ (gaps = {} => DataKept)
<1> DEFINE c == pending[t]
           q == Reaches(c.path, FALSE)
           r == Reaches(c.to, FALSE)
<1>1. /\ c # None /\ c.op = "link" /\ IsFile(q) /\ r \in DOMAIN tree /\ At(r) = Absent
      /\ tree' = [tree EXCEPT ![r] = At(q)]
  BY DEF HardLink
<1> HIDE DEF q, r
<1>2. At(q).kind = "file" /\ tree[r] = Absent
  BY <1>1, Locations DEF IInv, Typed, IsFile
<1>3. ShapeKept(t)
  BY <1>1, <1>2 DEF ShapeKept, SameShape, Absent, Directory
<1>4. gaps # {}
  BY <1>1, InACall DEF c, Prepared
<1> QED BY <1>3, <1>4

LEMMA FailsKept ==
  ASSUME IInv, Kept, NEW t \in Threads, Fails(t)
  PROVE  ShapeKept(t) /\ (gaps = {} => DataKept)
<1>1. pending[t] # None /\ UNCHANGED <<tree, data, handles>>
  BY DEF Fails
<1>2. gaps = {} => OneName(tree)
  BY <1>1, InACall
<1> QED BY <1>1, <1>2, TreeStays DEF DataKept

LEMMA CallCarriedOut ==
  ASSUME IInv, IInv', Kept, NEW t \in Threads, Kernel(t)
  PROVE  Kept'
<1>1. Returns(t) /\ pending[t] # None
  BY DEF Kernel, OpenFile, CreateFile, ChangeFile, ChangeDescriptor, Unlink, Symlink,
         Rename, HardLink, Fails
<1>2. ShapeKept(t) /\ (gaps = {} => DataKept)
  BY OpenFileKept, CreateFileKept, ChangeFileKept, ChangeDescriptorKept, UnlinkKept,
     SymlinkKept, RenameKept, HardLinkKept, FailsKept DEF Kernel
<1>3. TreeOK(tree)'
  BY DEF IInv, Typed, TreeOK
<1> QED BY <1>1, <1>2, <1>3, KernelKept

LEMMA WriteKept ==
  ASSUME IInv, Kept, Write
  PROVE  Kept'
<1>1. PICK k \in handles : k.writable /\ data' = [data EXCEPT ![k.inode] = Changed]
  BY DEF Write
<1>2. UNCHANGED <<raw, policy, phase, tree, handles, pending, before, gaps, left, start>>
  BY DEF Write
<1>3. TreeOK(tree) /\ TreeOK(tree)' /\ data \in [Inodes -> Inodes \cup {Changed}]
  BY <1>2 DEF IInv, Typed, TreeOK
<1>4. SameShape /\ DOMAIN tree' = DOMAIN tree
  BY <1>2 DEF SameShape
<1>5. (\A path \in CallPaths : IsDirectory(path.base))'
  BY <1>2 DEF Kept, IsDirectory, At
<1>6. Alone'
  <2>1. ASSUME NEW u \in Threads, NEW v \in Threads, u # v,
               (pending[u] # None)', (pending[v] # None)'
        PROVE  ~MovesLinks(pending[u])'
    <3>1. PICK d : d = pending[u]
      OBVIOUS
    <3>2. pending'[u] = d /\ d \in CallsLetThrough /\ ~MovesLinks(d)
      BY <1>2, <2>1, <3>1 DEF Kept, Alone, IInv, Typed
    <3>3. ~MovesLinks(d)'
      BY <1>3, <1>4, <3>2, SameMoves
    <3> QED BY <3>2, <3>3
  <2> QED BY <2>1 DEF Alone
<1>7. ASSUME gaps' = {} PROVE Accounted'
  <2>1. Accounted
    BY <1>2, <1>7 DEF Kept
  <2>2. \A i \in Inodes : data'[i] = data[i] \/ Held(i)
    BY <1>1, <1>3, <2>1 DEF Accounted
  <2>3. DataKept
    BY <1>2, <2>1, <2>2 DEF DataKept, Accounted
  <2>4. Originals'
    <3>1. CASE phase = "load"
      BY <1>1, <3>1 DEF IInv, Typed
    <3>2. CASE phase # "load"
      BY <1>2, <1>3, <1>4, <2>1, <2>3, <3>2, OriginalsRemain DEF Accounted
    <3> QED BY <3>1, <3>2
  <2>5. \A i : Held(i) => Held(i)'
    BY <1>2, <1>3, <1>4, <2>3, HeldStays
  <2>6. OneName(tree)'
    BY <2>3 DEF DataKept, OneName
  <2>7. (\A h \in handles : h.writable => Held(h.inode))'
    BY <1>2, <2>1, <2>5 DEF Accounted
  <2>8. ASSUME NEW u \in Threads, (pending[u] # None)'
        PROVE  Prepared(pending[u])'
    <3>1. PICK d : d = pending[u]
      OBVIOUS
    <3>2. pending'[u] = d /\ d \in CallsLetThrough /\ Prepared(d)
      BY <1>2, <2>1, <2>8, <3>1 DEF Accounted, IInv, Typed
    <3>3. Prepared(d)'
      BY <1>2, <1>3, <1>4, <2>5, <3>2, PreparedStays
    <3> QED BY <3>2, <3>3
  <2> QED BY <2>4, <2>6, <2>7, <2>8 DEF Accounted
<1> QED BY <1>2, <1>5, <1>6, <1>7 DEF Kept

(* While the policy is being made, nothing is pending and nothing is       *)
(* captured.                                                               *)
LEMMA LoadKept ==
  ASSUME IInv, Kept, Load
  PROVE  Kept'
<1>1. /\ phase = "load" /\ DOMAIN start = {"states", "roots", "output"}
      /\ UNCHANGED <<raw, tree, data, handles, pending, before, left, gaps>>
  BY DEF Load, IInv, Typed
<1>2. /\ \A h \in handles : ~h.writable
      /\ \A t \in Threads : pending[t] = None
      /\ DOMAIN before = {}
  BY <1>1 DEF IInv, Typed
<1>3. start'.states = start.states
  <2>1. start' = start \/ start' = [start EXCEPT !.roots = CanonicalRoots, !.output = OutputPath]
    BY DEF Load
  <2> QED BY <1>1, <2>1
<1>4. (\A path \in CallPaths : IsDirectory(path.base))'
  BY <1>1 DEF Kept, IsDirectory, At
<1>5. (DOMAIN start.states = DOMAIN tree)'
  BY <1>1, <1>3 DEF Kept
<1>6. Alone'
  BY <1>1, <1>2 DEF Alone
<1>7. ASSUME gaps' = {} PROVE Accounted'
  <2>1. Originals /\ OneName(tree)
    BY <1>1, <1>7 DEF Kept, Accounted
  <2>2. \A p \in DOMAIN tree : StateAt(p) = start.states[p]
    BY <1>1, <1>2, <2>1 DEF Originals
  <2>3. Originals'
    BY <1>1, <1>2, <1>3, <2>2, StatesStay DEF Originals
  <2>4. OneName(tree)'
    BY <1>1, <2>1 DEF OneName
  <2> QED BY <1>1, <1>2, <2>3, <2>4 DEF Accounted
<1> QED BY <1>4, <1>5, <1>6, <1>7 DEF Kept

LEMMA NothingKept ==
  ASSUME IInv, Kept, UNCHANGED vars
  PROVE  Kept'
<1>1. UNCHANGED <<raw, policy, phase, tree, data, handles, pending, before, gaps, start>>
  BY DEF vars
<1>2. TreeOK(tree) /\ TreeOK(tree)' /\ SameShape
  BY <1>1 DEF IInv, Typed, TreeOK, SameShape
<1>3. /\ \A p : IsDirectory(p)' <=> IsDirectory(p)
      /\ \A p : StateAt(p)' = StateAt(p)
      /\ \A p : Wanted(p)' <=> Wanted(p)
      /\ \A i : Held(i) => Held(i)'
  BY <1>1, StatesStay, SameWanted DEF Held, Safe
<1>4. ASSUME NEW u \in Threads, (pending[u] # None)'
      PROVE  /\ ~MovesLinks(pending[u]) => ~MovesLinks(pending[u])'
             /\ Prepared(pending[u]) => Prepared(pending[u])'
  <2>1. PICK d : d = pending[u]
    OBVIOUS
  <2>2. pending'[u] = d /\ d \in CallsLetThrough
    BY <1>1, <1>4, <2>1 DEF IInv, Typed
  <2>3. MovesLinks(d)' <=> MovesLinks(d)
    BY <1>2, <2>2, SameMoves
  <2>4. Prepared(d) => Prepared(d)'
    BY <1>1, <1>2, <1>3, <2>2, PreparedStays
  <2> QED BY <2>1, <2>2, <2>3, <2>4
<1>5. Alone'
  BY <1>1, <1>4 DEF Kept, Alone
<1>6. ASSUME gaps' = {} PROVE Accounted'
  <2>1. Accounted
    BY <1>1, <1>6 DEF Kept
  <2>2. Originals'
    BY <1>1, <1>3, <2>1 DEF Accounted, Originals
  <2> QED BY <1>1, <1>3, <1>4, <2>1, <2>2 DEF Accounted, OneName
<1> QED BY <1>1, <1>3, <1>5, <1>6 DEF Kept

LEMMA StartsKept == Init => Kept
<1> SUFFICES ASSUME Init PROVE Kept
  OBVIOUS
<1>1. PICK case \in Cases :
        /\ raw = case.config /\ tree = case.tree /\ left = case.calls
        /\ handles = {[inode |-> i, writable |-> FALSE] : i \in case.inherited}
  BY Zenon DEF Init
<1>2. /\ phase = "load" /\ pending = [u \in Threads |-> None]
      /\ before = [p \in {} |-> Absent]
      /\ start.states = [p \in DOMAIN tree |-> StateAt(p)]
  BY DEF Init
<1>3. IInv
  BY Initially
<1>4. OneName(tree)
  BY <1>1, OneNameAssumption
<1>5. ASSUME NEW path \in CallPaths
      PROVE  IsDirectory(path.base)
  <2>1. path.base = << >> \/ (path.base \in DOMAIN tree /\ tree[path.base] = Directory)
    BY <1>1, BaseAssumption
  <2>2. CASE path.base = << >>
    BY <1>3, <2>2 DEF IsDirectory, At, Directory, IInv, Typed, TreeOK
  <2>3. CASE path.base \in DOMAIN tree /\ tree[path.base] = Directory
    BY <1>3, <2>3, Locations DEF IInv, Typed
  <2> QED BY <2>1, <2>2, <2>3
<1>6. \A k \in handles : ~k.writable
  BY <1>2, <1>3 DEF IInv, Typed
<1>7. Alone
  BY <1>2 DEF Alone
<1>8. Originals
  BY <1>2 DEF Originals
<1>9. Accounted
  BY <1>2, <1>4, <1>6, <1>8 DEF Accounted
<1> QED BY <1>2, <1>5, <1>7, <1>9 DEF Kept

LEMMA StepKeepsKept ==
  ASSUME IInv, IInv', Kept, Habits = {}, [Next]_vars
  PROVE  Kept'
<1>1. CASE Load
  BY <1>1, LoadKept
<1>2. CASE \E t \in Threads : PathCall(t)
  BY <1>2, PathCallKept
<1>3. CASE \E t \in Threads : DescriptorCall(t)
  BY <1>3, DescriptorCallKept
<1>4. CASE \E t \in Threads : Kernel(t)
  BY <1>4, CallCarriedOut
<1>5. CASE Write
  BY <1>5, WriteKept
<1>6. CASE UNCHANGED vars
  BY <1>6, NothingKept
<1> QED BY <1>1, <1>2, <1>3, <1>4, <1>5, <1>6 DEF Next

LEMMA AccountedSuffices ==
  ASSUME IInv, Kept
  PROVE  EveryChangeIsTracked
<1> SUFFICES ASSUME phase = "run", gaps = {}, NEW p \in Tracked,
                    StateAt(p) # start.states[p]
             PROVE  p \in DOMAIN before /\ before[p] = start.states[p]
  BY DEF EveryChangeIsTracked
<1>1. p \in DOMAIN tree /\ Wanted(p) /\ Originals
  BY DEF Tracked, Kept, Accounted
<1> QED BY <1>1 DEF Originals

(* Whatever the command does, as long as it is plain, a tracked path that  *)
(* is not what it was at the beginning has its original in the store or a  *)
(* gap was noted: whatever the configuration, the tree with its links, the *)
(* number of threads and the order of their calls, and however late the    *)
(* kernel carries a call out (supervisor.rs:374-578).                      *)
THEOREM ChangesAreTracked == (Habits = {}) => (Spec => []EveryChangeIsTracked)
<1> SUFFICES ASSUME Habits = {} PROVE Spec => []EveryChangeIsTracked
  OBVIOUS
<1>1. Init => IInv /\ Kept
  BY Initially, StartsKept
<1>2. IInv /\ Kept /\ [Next]_vars => (IInv /\ Kept)'
  BY StepKeeps, StepKeepsKept
<1>3. IInv /\ Kept => EveryChangeIsTracked
  BY AccountedSuffices
<1> QED BY <1>1, <1>2, <1>3, PTL DEF Spec
=============================================================================
