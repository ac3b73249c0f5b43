----------------------------- MODULE MCTracking -----------------------------
(* The instance of Tracking that TLC checks.                               *)
EXTENDS Tracking

(* Two directories, one below the other, and one beside them.              *)
d == 1
f == 2
l == 3
o == 4
r == 5
MCNames == {d, f, l, o, r}

Tree(rf, rl, df, of) ==
  (<<r>> :> Directory) @@ (<<o>> :> Directory) @@ (<<r, d>> :> Directory)
  @@ (<<r, f>> :> rf) @@ (<<r, l>> :> rl) @@ (<<r, d, f>> :> df) @@ (<<o, f>> :> of)

(* Files and room for more; a link to a file in the root and one to a      *)
(* directory of it from outside; a link out of the root; a dangling one.   *)
FilesOnly == Tree(File(1), Absent, File(2), Absent)
LinksIn == Tree(File(1), Link(<<r, f>>), File(2), Link(<<r, d>>))
LinkOut == Tree(File(1), Link(<<o, f>>), Absent, File(2))
Dangling == Tree(Absent, Link(<<r, d, f>>), Absent, Link(<<r, f>>))

Root(id, path) == [id |-> id, path |-> path]
Config(roots, exclusions, recursive, output) ==
  [roots |-> roots, exclusions |-> exclusions, recursive |-> recursive,
   output |-> output]

UpTo2(S) == {<< >>} \cup {<<x>> : x \in S} \cup {<<x, y>> : x, y \in S}

(* Every configuration of up to two roots and two exclusions, and some of  *)
(* three of each; none of them is run.                                     *)
RootLists ==
  UpTo2({Root(i, p) : i \in {1, 2}, p \in {<<r>>, <<r, d>>, <<o>>, <<o, f>>, <<d>>}})
  \cup {<<Root(1, <<r, d>>), Root(2, <<o>>), Root(3, <<r>>)>>,
        <<Root(3, <<r, f>>), Root(2, <<o>>), Root(1, <<r, d>>)>>}
ExclusionLists ==
  UpTo2({Root(i, p) : i \in {1, 2}, p \in {<<d>>, <<d, f>>, <<f>>}})
  \cup {<<Root(1, <<d, f>>), Root(2, <<d>>), Root(1, <<d>>)>>,
        <<Root(1, <<Up, f>>)>>, <<Root(1, << >>)>>, <<Root(3, <<f>>)>>}

Loaded(rs, es, rec, out) ==
  [config |-> Config(rs, es, rec, out), tree |-> LinksIn,
   inherited |-> {}, calls |-> 0]

LoadedOnly ==
  {Loaded(rs, es, {}, <<d>>) : rs \in RootLists, es \in ExclusionLists}
  \cup {Loaded(<<Root(i, p)>>, <<Root(1, <<d>>)>>, rec, out) :
          i \in {1, 2}, p \in {<<r>>, <<r, d>>, <<o, f>>},
          rec \in {{}, {<<f>>}, {<<d, f>>}, {<<Up>>}},
          out \in {<<o, l>>, <<r, o>>, <<o, f, l>>, <<r, f>>, <<d, l>>}}

Tracker == Config(<<Root(1, <<r>>)>>, << >>, {}, <<o, l>>)
Excluding == Config(<<Root(1, <<r>>)>>, <<Root(1, <<d>>)>>, {}, <<o, l>>)

(* Two calls, with the standard input open on a file.                      *)
TwoCalls(c, t, inherited) ==
  [config |-> c, tree |-> t, inherited |-> inherited, calls |-> 2]

MCCases ==
  LoadedOnly
  \cup {TwoCalls(Tracker, t, {}) : t \in {LinksIn, LinkOut, Dangling}}
  \cup {TwoCalls(c, FilesOnly, {1}) : c \in {Tracker, Excluding}}

PathFrom(base, path) == [base |-> base, raw |-> path]
MCCallPaths ==
  {PathFrom(<< >>, <<r, f>>), PathFrom(<< >>, <<r, l>>),
   PathFrom(<< >>, <<r, d, f>>), PathFrom(<< >>, <<o, f>>),
   PathFrom(<< >>, <<o, f, f>>), PathFrom(<< >>, <<o, f, Up, l>>),
   PathFrom(<<r, d>>, <<Up, f>>),
   PathFrom(<< >>, <<r, d>>)}
MCTargets == {<<r, f>>}
=============================================================================
