------------------------------ MODULE Tracking ------------------------------
(***************************************************************************)
(* From a system call to the paths whose originals are captured            *)
(* (supervisor.rs, process_request and resolve_path), over a live tree     *)
(* with files, directories and symbolic links, under a policy that was     *)
(* loaded from a configuration.                                            *)
(*                                                                         *)
(* A call is noticed and its paths are captured in one step, and the       *)
(* kernel acts on the tree as it is later: other calls may come between.   *)
(* What happens inside that first step is the concern of Pipeline.         *)
(* Directories stay where they are: every call on one notes a gap, or      *)
(* touches no file.                                                        *)
(***************************************************************************)
EXTENDS PathPolicy, FiniteSets

CONSTANTS
  Threads,
  Inodes,      \* bound: files that ever exist
  Cases,       \* what a run starts with: [config, tree, inherited, calls]
  CallPaths,   \* [base, raw]: the directory a path is relative to, the path
  Targets,     \* what symbolic links are made to
  Habits,      \* what the command may do besides the plain, see Plain
  MaxLinks,    \* links the kernel follows in one resolution (40 in Linux)
  MaxTarget,   \* bound: components of what a link is made to
  None

VARIABLES
  raw,       \* the configuration as it was written
  policy,    \* what was made of it, or None
  phase,     \* "load", "run" or "rejected"
  tree,      \* what is at each location
  data,      \* the content and the mode of each file
  handles,   \* files that are open, and whether for writing
  pending,   \* the call each thread has been let through with
  before,    \* the originals in the store, by location
  gaps,
  left,      \* bound: calls that are still made
  start      \* ghost: the state of every location at the beginning, and what
             \* the roots and the output named when the policy was made

vars == <<raw, policy, phase, tree, data, handles, pending, before, gaps, left,
          start>>

Absent == [kind |-> "absent"]
Directory == [kind |-> "directory"]
File(i) == [kind |-> "file", inode |-> i]
Link(p) == [kind |-> "link", target |-> p]
Changed == 0
RawPaths == Seq(Names \cup {Up})

(* A configuration and a tree as a user can have them; the output has a    *)
(* name.                                                                   *)
ConfigOK(config) ==
  /\ config.roots \in Seq([id : Nat, path : RawPaths])
  /\ config.exclusions \in Seq([id : Nat, path : RawPaths])
  /\ config.recursive \subseteq RawPaths
  /\ config.output \in RawPaths \ {<< >>} /\ Last(config.output) # Up

EntryOK(e) ==
  \/ e \in {Absent, Directory} \cup {File(i) : i \in Inodes}
  \/ e \in [kind : {"link"}, target : RawPaths] /\ Len(e.target) <= MaxTarget

(* A location of which the directory is missing cannot come to be, and is  *)
(* none.                                                                   *)
TreeOK(t) ==
  /\ DOMAIN t \subseteq Paths \ {<< >>}
  /\ \A p \in DOMAIN t :
       /\ EntryOK(t[p])
       /\ Len(p) > 1 => Front(p) \in DOMAIN t /\ t[Front(p)] = Directory

OneName(t) == \A p, q \in DOMAIN t : t[p].kind = "file" /\ t[p] = t[q] => p = q

ASSUME CasesAssumption ==
  \A case \in Cases :
    /\ ConfigOK(case.config) /\ TreeOK(case.tree)
    /\ case.inherited \subseteq Inodes /\ case.calls \in Nat
(* Nobody looks for the second name of a file that had one before the run. *)
ASSUME OneNameAssumption == \A case \in Cases : OneName(case.tree)
(* A path is relative to a directory that somebody has opened.             *)
ASSUME BaseAssumption ==
  \A case \in Cases : \A path \in CallPaths :
    path.base = << >> \/
      (path.base \in DOMAIN case.tree /\ case.tree[path.base] = Directory)
ASSUME LinksAssumption == MaxLinks \in Nat /\ MaxTarget \in Nat
ASSUME CallsAssumption ==
  /\ CallPaths \subseteq [base : Paths, raw : RawPaths]
  /\ \A p \in Targets : EntryOK(Link(p))
ASSUME NoneAssumption ==
  None \notin [roots : Seq([id : Nat, path : Paths]),
               exact : SUBSET [id : Nat, path : RawPaths], recursive : SUBSET Names]

At(p) ==
  CASE p = << >>         -> Directory
    [] p \in DOMAIN tree -> tree[p]
    [] OTHER             -> Absent

IsFile(p) == At(p).kind = "file"
IsLink(p) == At(p).kind = "link"
IsDirectory(p) == At(p).kind = "directory"

(* The kernel's walk over a path: where it is, what is left of the path,   *)
(* and how many links it may still follow.                                 *)
Lost == [at |-> Nowhere, rest |-> << >>, links |-> 0]

WalkStep(w, follow) ==
  LET c == Head(w.rest)
      p == Append(w.at, c)
      last == Len(w.rest) = 1
      Arrived(q) == [at |-> q, rest |-> Tail(w.rest), links |-> w.links]
  IN  CASE w.rest = << >>                -> w
        [] w.rest # << >> /\ c = Up      -> Arrived(Front1(w.at))
        [] w.rest # << >> /\ c # Up /\ IsLink(p) /\ (follow \/ ~last) ->
             IF w.links = 0 THEN Lost
             ELSE [at |-> << >>, rest |-> At(p).target \o Tail(w.rest),
                   links |-> w.links - 1]
        [] w.rest # << >> /\ c # Up /\ ~(IsLink(p) /\ (follow \/ ~last)) ->
             IF last \/ IsDirectory(p) THEN Arrived(p) ELSE Lost

(* Enough steps for the components of the path and of the links in it.     *)
Reaches(path, follow) ==
  LET steps == Len(path.raw) + MaxLinks * MaxTarget
      walk[n \in 0..steps] ==
        IF n = 0 THEN [at |-> path.base, rest |-> path.raw, links |-> MaxLinks]
        ELSE WalkStep(walk[n - 1], follow)
  IN  IF walk[steps].rest = << >> THEN walk[steps].at ELSE Nowhere

Absolute(p) == [base |-> << >>, raw |-> p]

(* fs::canonicalize and lstat of an absolute path.                         *)
Canonical(p) ==
  LET q == Reaches(Absolute(p), TRUE)
  IN  IF q = Nowhere \/ At(q) = Absent THEN Nowhere ELSE q

StateAt(q) ==
  IF q # Nowhere /\ IsFile(q)
    THEN [kind |-> "present", content |-> data[At(q).inode]]
    ELSE IF q = Nowhere THEN Absent ELSE At(q)

Lstat(p) == StateAt(Reaches(Absolute(p), FALSE))

-----------------------------------------------------------------------------
(* The configuration.                                                      *)

CanonicalRoots ==
  [i \in DOMAIN raw.roots |->
     [id |-> raw.roots[i].id, path |-> Canonical(raw.roots[i].path)]]

OutputPath ==
  LET d == Canonical(Front(raw.output))
  IN  IF Canonical(raw.output) # Nowhere \/ d = Nowhere THEN Nowhere
      ELSE Append(d, Last(raw.output))

Accepted ==
  /\ RootsAccepted(CanonicalRoots)
  /\ ExclusionsAccepted(raw.exclusions, CanonicalRoots)
  /\ RecursiveAccepted(raw.recursive)
  /\ OutputAccepted(OutputPath, CanonicalRoots)

Load ==
  /\ phase = "load"
  /\ IF Accepted
       THEN /\ phase' = "run"
            /\ policy' = [roots |-> SortRoots(CanonicalRoots),
                          exact |-> Reduce(raw.exclusions),
                          recursive |-> {p[1] : p \in raw.recursive}]
            /\ start' = [start EXCEPT !.roots = CanonicalRoots, !.output = OutputPath]
       ELSE phase' = "rejected" /\ UNCHANGED <<policy, start>>
  /\ UNCHANGED <<raw, tree, data, handles, pending, before, gaps, left>>

-----------------------------------------------------------------------------
(* The supervisor: a call becomes paths, and paths become candidates.      *)

Following == {"open_write", "open_create", "chmod", "openat2"}
NotFollowing == {"fchmodat2", "unlink", "symlink"}
TwoPaths == {"rename", "link"}

(* resolve_path: lexical, then canonical for calls that follow a final     *)
(* link; a path that does not exist yet has a canonical parent at most.    *)
Resolve(path, follow) ==
  LET p == Normalize(path.base \o path.raw)
      parent == Canonical(Front1(p))
  IN  CASE ~follow                -> p
        [] follow /\ Canonical(p) # Nowhere -> Canonical(p)
        [] follow /\ Canonical(p) = Nowhere /\ p # << >> /\ parent # Nowhere ->
             Append(parent, Last(p))
        [] OTHER                  -> p

(* Faulty: paths that are not tracked are captured too.                    *)
OriginalsOfAll(paths) ==
  [p \in DOMAIN before \cup paths |->
     IF p \in DOMAIN before THEN before[p] ELSE Lstat(p)]

(* capture_before on a set of paths: the first state of each one that is   *)
(* tracked and has none yet.                                               *)
WithOriginals(paths) ==
  LET new == {p \in paths : Locate(policy, p) # {}} \ DOMAIN before
  IN  [p \in DOMAIN before \cup new |->
         IF p \in DOMAIN before THEN before[p] ELSE Lstat(p)]

IsDirectoryNow(p) == Lstat(p).kind = "directory"

(* capture_argument on one path after another: a directory notes a gap     *)
(* and ends it.                                                            *)
BeforeDirectory(ps) ==
  {ps[i] : i \in {k \in DOMAIN ps : \A j \in 1..k : ~IsDirectoryNow(ps[j])}}

GapsOf(ps) ==
  IF \E i \in DOMAIN ps : IsDirectoryNow(ps[i]) THEN {"directory_operation"} ELSE {}

(* Faulty: a renamed file's new name is not captured.                      *)
ArgumentsFirstOnly(call) ==
  CASE call.op \in Following -> <<Resolve(call.path, TRUE)>>
    [] call.op \in NotFollowing \cup TwoPaths -> <<Resolve(call.path, FALSE)>>
    [] OTHER -> << >>

(* link captures the new name only.                                        *)
Arguments(call) ==
  CASE call.op \in Following    -> <<Resolve(call.path, TRUE)>>
    [] call.op \in NotFollowing -> <<Resolve(call.path, FALSE)>>
    [] call.op = "rename" -> <<Resolve(call.path, FALSE), Resolve(call.to, FALSE)>>
    [] call.op = "link"   -> <<Resolve(call.to, FALSE)>>
    [] OTHER              -> << >>

Noted(call) ==
  CASE call.op = "link"     -> {"hard_link"}
    [] call.op = "openat2"  -> {"openat2_resolve"}
    [] call.op = "io_uring" -> {"io_uring"}
    [] OTHER                -> {}

(* fchmod and ftruncate: the name the kernel has for the file, if any.     *)
NamesOf(i) == {p \in DOMAIN tree : At(p) = File(i)}

ProcessDescriptor(i) ==
  IF NamesOf(i) = {}
    THEN gaps' = gaps \cup {"fd_path"} /\ UNCHANGED before
    ELSE /\ \E p \in NamesOf(i) : before' = WithOriginals({p})
         /\ UNCHANGED gaps

ProcessPaths(call) ==
  LET ps == Arguments(call)
  IN  /\ before' = WithOriginals(BeforeDirectory(ps))
      /\ gaps' = gaps \cup Noted(call) \cup GapsOf(ps)

-----------------------------------------------------------------------------
(* The calls of the command.  open_read stands for every call that changes *)
(* no file by its path, mkdir and rmdir among them.                        *)

Calls ==
  [op : Following \cup {"open_read", "creat", "fchmodat2", "unlink"},
   path : CallPaths]
  \cup [op : {"symlink"}, path : CallPaths, target : Targets]
  \cup [op : TwoPaths, path : CallPaths, to : CallPaths]
  \cup [op : {"io_uring"}]

PathsIn(c) ==
  CASE c.op \in TwoPaths              -> {c.path, c.to}
    [] c.op \in {"io_uring", "fchmod"} -> {}
    [] OTHER                          -> {c.path}

(* No component before the last is a link.                                 *)
DirectoriesOnly(path) ==
  LET p == path.base \o path.raw
  IN  \A i \in 1..(Len(p) - 1) : ~IsLink(Normalize(SubSeq(p, 1, i)))

Dangles(path) ==
  /\ IsLink(Reaches(path, FALSE))
  /\ At(Reaches(path, TRUE)) = Absent

MovesLinks(c) ==
  \/ c.op = "symlink"
  \/ /\ c.op \in TwoPaths \cup {"unlink"}
     /\ \E path \in PathsIn(c) : IsLink(Reaches(path, FALSE))

(* What a command does of which its paths say everything: without a habit  *)
(* it uses no ".." behind a link, removes, makes and moves names through   *)
(* directories only, creates no file through a dangling link, moves no     *)
(* link while another thread is in a call, and does not use creat.         *)
Plain(c) ==
  /\ "dotdot" \in Habits \/
       \A path \in PathsIn(c) : Up \in ToSet(path.raw) => DirectoriesOnly(path)
  /\ "linked_directory" \in Habits \/
       (c.op \notin Following => \A path \in PathsIn(c) : DirectoriesOnly(path))
  /\ "dangling" \in Habits \/ (c.op = "open_create" => ~Dangles(c.path))
  /\ "races" \in Habits \/
       \A t \in Threads : pending[t] # None => ~MovesLinks(c) /\ ~MovesLinks(pending[t])
  /\ "creat" \in Habits \/ c.op # "creat"

Calling(t, c) ==
  /\ phase = "run" /\ left > 0 /\ pending[t] = None
  /\ Plain(c)
  /\ pending' = [pending EXCEPT ![t] = c]
  /\ left' = left - 1
  /\ UNCHANGED <<raw, policy, phase, tree, data, handles, start>>

(* The call is processed and let through.  The filter does not select      *)
(* creat: it goes ahead with nothing processed.                            *)
PathCall(t) == \E c \in Calls : Calling(t, c) /\ ProcessPaths(c)

DescriptorCall(t) ==
  \E h \in handles :
    Calling(t, [op |-> "fchmod", inode |-> h.inode]) /\ ProcessDescriptor(h.inode)

-----------------------------------------------------------------------------
(* The kernel carries a call out on the tree as it is by now.              *)

Returns(t) ==
  /\ pending' = [pending EXCEPT ![t] = None]
  /\ UNCHANGED <<raw, policy, phase, before, gaps, left, start>>

Opens(i, writable) == handles' = handles \cup {[inode |-> i, writable |-> writable]}

Fresh == {i \in Inodes : NamesOf(i) = {} /\ \A h \in handles : h.inode # i}

OpenFile(t) ==
  LET c == pending[t]
      q == Reaches(c.path, TRUE)
  IN  /\ c # None /\ c.op \in {"open_read", "open_write", "open_create", "openat2", "creat"}
      /\ IsFile(q)
      /\ Opens(At(q).inode, c.op # "open_read")
      /\ data' = IF c.op = "creat" THEN [data EXCEPT ![At(q).inode] = Changed] ELSE data
      /\ UNCHANGED tree
      /\ Returns(t)

CreateFile(t) ==
  LET c == pending[t]
      q == Reaches(c.path, TRUE)
  IN  /\ c # None /\ c.op \in {"open_create", "creat"}
      /\ q \in DOMAIN tree /\ At(q) = Absent
      /\ \E i \in Fresh :
           /\ tree' = [tree EXCEPT ![q] = File(i)]
           /\ data' = [data EXCEPT ![i] = Changed]
           /\ Opens(i, TRUE)
      /\ Returns(t)

(* truncate, chmod and their kin: the file changes without a descriptor.   *)
ChangeFile(t) ==
  LET c == pending[t]
      q == Reaches(c.path, c.op = "chmod")
  IN  /\ c # None /\ c.op \in {"chmod", "fchmodat2"}
      /\ IsFile(q)
      /\ data' = [data EXCEPT ![At(q).inode] = Changed]
      /\ UNCHANGED <<tree, handles>>
      /\ Returns(t)

ChangeDescriptor(t) ==
  /\ pending[t] # None /\ pending[t].op = "fchmod"
  /\ data' = [data EXCEPT ![pending[t].inode] = Changed]
  /\ UNCHANGED <<tree, handles>>
  /\ Returns(t)

Unlink(t) ==
  LET q == Reaches(pending[t].path, FALSE)
  IN  /\ pending[t] # None /\ pending[t].op = "unlink"
      /\ IsFile(q) \/ IsLink(q)
      /\ tree' = [tree EXCEPT ![q] = Absent]
      /\ UNCHANGED <<data, handles>>
      /\ Returns(t)

Symlink(t) ==
  LET q == Reaches(pending[t].path, FALSE)
  IN  /\ pending[t] # None /\ pending[t].op = "symlink"
      /\ q \in DOMAIN tree /\ At(q) = Absent
      /\ tree' = [tree EXCEPT ![q] = Link(pending[t].target)]
      /\ UNCHANGED <<data, handles>>
      /\ Returns(t)

Rename(t) ==
  LET c == pending[t]
      q == Reaches(c.path, FALSE)
      r == Reaches(c.to, FALSE)
  IN  /\ c # None /\ c.op = "rename"
      /\ IsFile(q) \/ IsLink(q)
      /\ r \in DOMAIN tree \ {q} /\ ~IsDirectory(r)
      /\ IsFile(q) => At(q) # At(r)
      /\ tree' = [tree EXCEPT ![r] = At(q), ![q] = Absent]
      /\ UNCHANGED <<data, handles>>
      /\ Returns(t)

HardLink(t) ==
  LET c == pending[t]
      q == Reaches(c.path, FALSE)
      r == Reaches(c.to, FALSE)
  IN  /\ c # None /\ c.op = "link"
      /\ IsFile(q) /\ r \in DOMAIN tree /\ At(r) = Absent
      /\ tree' = [tree EXCEPT ![r] = At(q)]
      /\ UNCHANGED <<data, handles>>
      /\ Returns(t)

(* Any call may fail, or change nothing.                                   *)
Fails(t) ==
  /\ pending[t] # None
  /\ UNCHANGED <<tree, data, handles>>
  /\ Returns(t)

(* write and mmap on an open descriptor are not notified.                  *)
Write ==
  /\ \E h \in handles :
       h.writable /\ data' = [data EXCEPT ![h.inode] = Changed]
  /\ UNCHANGED <<raw, policy, phase, tree, handles, pending, before, gaps, left,
                 start>>

-----------------------------------------------------------------------------
Init ==
  /\ \E case \in Cases :
       /\ raw = case.config /\ tree = case.tree /\ left = case.calls
       /\ handles = {[inode |-> i, writable |-> FALSE] : i \in case.inherited}
  /\ phase = "load" /\ policy = None
  /\ data = [i \in Inodes |-> i]
  /\ pending = [t \in Threads |-> None]
  /\ before = [p \in {} |-> Absent] /\ gaps = {}
  /\ start = [states |-> [p \in DOMAIN tree |-> StateAt(p)],
               roots |-> << >>, output |-> Nowhere]

Kernel(t) ==
  \/ OpenFile(t) \/ CreateFile(t) \/ ChangeFile(t) \/ ChangeDescriptor(t)
  \/ Unlink(t) \/ Symlink(t) \/ Rename(t) \/ HardLink(t) \/ Fails(t)

Next ==
  \/ Load
  \/ \E t \in Threads :
       PathCall(t) \/ DescriptorCall(t) \/ Kernel(t)
  \/ Write

Spec == Init /\ [][Next]_vars

-----------------------------------------------------------------------------
(* The configuration says directly which paths are tracked: those below a  *)
(* root, and neither below an exclusion of that root nor with a component  *)
(* that is excluded everywhere.                                            *)
RootsAbove(p) ==
  {r \in ToSet(start.roots) : IsStrictPrefix(r.path, p)}

Wanted(p) ==
  \E r \in RootsAbove(p) :
    /\ \A e \in ToSet(raw.exclusions) :
         e.id = r.id => ~IsPrefix(e.path, Relative(r, p))
    /\ \A i \in (Len(r.path) + 1)..Len(p) : <<p[i]>> \notin raw.recursive

Tracked == {p \in DOMAIN start.states : Wanted(p)}

(* Every variable keeps its type.                                          *)
TypeOK ==
  /\ phase \in {"load", "run", "rejected"}
  /\ phase = "run" <=> policy # None
  /\ \A p \in DOMAIN tree :
       At(p).kind \in {"absent", "directory", "file", "link"}
  /\ data \in [Inodes -> Inodes \cup {Changed}]
  /\ \A h \in handles : h.inode \in Inodes /\ h.writable \in BOOLEAN
  /\ \A t \in Threads : pending[t] # None => pending[t].op \in
       Following \cup NotFollowing \cup TwoPaths
         \cup {"open_read", "creat", "fchmod", "io_uring"}
  /\ \A p \in DOMAIN before : Cardinality(Locate(policy, p)) = 1
  /\ left \in Nat

(* An accepted configuration has its roots in order and none inside        *)
(* another; a path has a key exactly if the configuration says it is       *)
(* tracked, whatever was reduced, sorted and indexed in between; and       *)
(* nothing tracked is in the output (config.rs:239-371,                    *)
(* capture.rs:57-133).                                                     *)
PolicyIsExact ==
  policy # None =>
    /\ Ordered(PathsOf(policy.roots))
    /\ \A r, s \in ToSet(start.roots) : r # s => ~IsPrefix(r.path, s.path)
    /\ \A p \in DOMAIN tree :
         /\ Wanted(p) <=> Locate(policy, p) # {}
         /\ Wanted(p) => Cardinality(RootsAbove(p)) = 1
         /\ Wanted(p) => ~IsPrefix(start.output, p)

(* At every moment a tracked path that is not what it was at the beginning *)
(* has its original in the store, or a gap was noted                       *)
(* (supervisor.rs:374-578; IMPLEMENTATION_PLAN.md:138, 153-155).           *)
EveryChangeIsTracked ==
  phase = "run" /\ gaps = {} =>
    \A p \in Tracked :
      StateAt(p) # start.states[p] =>
        p \in DOMAIN before /\ before[p] = start.states[p]
=============================================================================
