----------------------------- MODULE PathPolicy -----------------------------
(***************************************************************************)
(* What a configuration makes of paths: which root a path belongs to and   *)
(* whether it is excluded (config.rs, and the indexes of capture.rs).      *)
(*                                                                         *)
(* A name is a number, in the order of its bytes; an absolute path in      *)
(* normal form is the sequence of its names, and << >> is "/".  Raw paths  *)
(* may also have the component Up, which stands for "..".                  *)
(***************************************************************************)
EXTENDS Naturals, Sequences, SequencesExt

CONSTANT Names
ASSUME NamesAssumption == Names \subseteq Nat \ {0}

Up == 0
Nowhere == <<Up>>      \* the result of a resolution that fails
Paths == Seq(Names)

Front1(p) == IF p = << >> THEN p ELSE Front(p)

(* Component by component, a prefix first: the order of paths.             *)
Precedes(p, q) ==
  \/ IsPrefix(p, q)
  \/ \E i \in DOMAIN p \cap DOMAIN q :
       /\ p[i] < q[i]
       /\ \A j \in 1..(i - 1) : p[j] = q[j]

(* ".." removes the component before it, whatever that component is.       *)
Component(done, c) == IF c = Up THEN Front1(done) ELSE Append(done, c)

Normalize(p) ==
  LET done[n \in 0..Len(p)] ==
        IF n = 0 THEN << >> ELSE Component(done[n - 1], p[n])
  IN  done[Len(p)]

(* A sequence rearranged so that each element and any later one are a pair *)
(* of the order.                                                           *)
Sorted(seq, order) ==
  LET place == CHOOSE f \in Bijection(DOMAIN seq, DOMAIN seq) :
        \A i, j \in DOMAIN seq : i < j => <<seq[f[i]], seq[f[j]]>> \in order
  IN  [i \in DOMAIN seq |-> seq[place[i]]]

-----------------------------------------------------------------------------
(* Roots: records of an id and a path, which was canonicalized.            *)

SortRoots(roots) ==
  Sorted(roots, {ab \in ToSet(roots) \X ToSet(roots) :
                   Precedes(ab[1].path, ab[2].path)})

(* The paths stand in their order.                                         *)
Ordered(paths) ==
  \A i, j \in DOMAIN paths : i < j => Precedes(paths[i], paths[j])

(* Only neighbours in the order are compared.                              *)
NeighboursApart(paths) ==
  \A i \in 1..(Len(paths) - 1) : ~IsPrefix(paths[i], paths[i + 1])

PathsOf(roots) == [i \in DOMAIN roots |-> roots[i].path]

(* Faulty: the neighbours in the order of the configuration are compared.  *)
RootsAcceptedUnsorted(roots) ==
  /\ roots # << >>
  /\ \A i, j \in DOMAIN roots : roots[i].id = roots[j].id => i = j
  /\ \A i \in DOMAIN roots : roots[i].path # Nowhere
  /\ NeighboursApart(PathsOf(roots))

RootsAccepted(roots) ==
  /\ roots # << >>
  /\ \A i, j \in DOMAIN roots : roots[i].id = roots[j].id => i = j
  /\ \A i \in DOMAIN roots : roots[i].path # Nowhere
  /\ NeighboursApart(PathsOf(SortRoots(roots)))

-----------------------------------------------------------------------------
(* Exclusions: records of the id of a root and a raw relative path.        *)

ExclusionsAccepted(exclusions, roots) ==
  \A i \in DOMAIN exclusions :
    /\ \E j \in DOMAIN roots : roots[j].id = exclusions[i].id
    /\ exclusions[i].path \in Seq(Names) \ {<< >>}

SortExclusions(exclusions) ==
  Sorted(exclusions, {ab \in ToSet(exclusions) \X ToSet(exclusions) :
                        \/ ab[1].id < ab[2].id
                        \/ ab[1].id = ab[2].id /\ Precedes(ab[1].path, ab[2].path)})

(* Faulty: an exclusion of another root counts as well.                    *)
KeepAcrossRoots(kept, e) ==
  IF \E k \in kept : IsPrefix(k.path, e.path) THEN kept ELSE kept \cup {e}

(* An exclusion below one that is kept is dropped.                         *)
Keep(kept, e) ==
  IF \E k \in kept : k.id = e.id /\ IsPrefix(k.path, e.path)
    THEN kept ELSE kept \cup {e}

Reduce(exclusions) ==
  LET sorted == SortExclusions(exclusions)
      kept[n \in 0..Len(sorted)] ==
        IF n = 0 THEN {} ELSE Keep(kept[n - 1], sorted[n])
  IN  kept[Len(sorted)]

(* Raw names that are excluded at any depth: one component, and no "..".   *)
RecursiveAccepted(raws) == \A p \in raws : Len(p) = 1 /\ p # <<Up>>

(* The directory of the output is canonical, the output itself is new.     *)
OutputAccepted(output, roots) ==
  /\ output # Nowhere
  /\ \A i \in DOMAIN roots : ~IsPrefix(roots[i].path, output)

-----------------------------------------------------------------------------
(* Looking a path up.                                                      *)

(* From the path upwards to the first directory that is a root.            *)
Find(roots, p) ==
  LET above == {i \in DOMAIN roots : IsPrefix(roots[i].path, p)}
  IN  {i \in above : \A j \in above : Len(roots[j].path) <= Len(roots[i].path)}

Relative(root, p) == SubSeq(p, Len(root.path) + 1, Len(p))

Excluded(policy, id, relative) ==
  \/ \E e \in policy.exact : e.id = id /\ IsPrefix(e.path, relative)
  \/ \E i \in DOMAIN relative : relative[i] \in policy.recursive

(* The keys of a path: the only one, or none.  The root has none.          *)
Locate(policy, p) ==
  {[id |-> policy.roots[i].id, relative |-> Relative(policy.roots[i], p)] :
     i \in {k \in Find(policy.roots, p) :
              LET rel == Relative(policy.roots[k], p)
              IN  rel # << >> /\ ~Excluded(policy, policy.roots[k].id, rel)}}
=============================================================================
