-------------------------------- MODULE Paths --------------------------------
(***************************************************************************)
(* From the path an agent hands to open() to the rule of the policy that   *)
(* covers it: resolve_at and realpath of killline-sensor/src/decode.rs,    *)
(* which look at the file system after the call, with a cache of           *)
(* directories known not to be links, and PatternSet of                    *)
(* killline-core/src/pathmatch.rs.                                         *)
(*                                                                         *)
(* A path is a sequence of names and a name a sequence of characters.  The *)
(* file system gives a node for each of a few places; what lies behind a   *)
(* place that has become a link is out of reach until it is a directory    *)
(* again.  The decoder sees it through /proc/<pid>/root.                   *)
(***************************************************************************)
EXTENDS Naturals, Sequences, FiniteSets, SequencesExt, FiniteSetsExt

CONSTANTS
  Places,      \* paths that may exist
  Trees,       \* file systems at the beginning: functions from Places to Nodes
  Changes,     \* what may happen to them: [at, to]
  Args,        \* arguments of open(): [abs, names]
  Dirs,        \* working directories
  Policies,    \* lists of patterns, which are paths with wildcards
  Skipped,     \* names at the root that are not looked into: /proc, ...
  Ttl,         \* DIR_CACHE_TTL, in seconds
  MaxHops,     \* links followed before giving up
  MaxCache,    \* entries kept before the cache is cleared
  MaxChanges, MaxOpens   \* bounds

Dot    == <<".">>
DotDot == <<".", ".">>
Nothing == <<>>          \* between two slashes
AnyPath == <<"*", "*">>  \* **
Link(abs, names) == [kind |-> "link", abs |-> abs, names |-> names]
Real == [kind |-> "real", abs |-> FALSE, names |-> <<>>]
None == [kind |-> "none", abs |-> FALSE, names |-> <<>>]
Fails == [fails |-> TRUE]   \* instead of a path
Ok(path) == [fails |-> FALSE, path |-> path]

ASSUME PathBounds ==
  /\ Ttl \in Nat \ {0} /\ MaxHops \in Nat /\ MaxCache \in Nat
  /\ MaxChanges \in Nat /\ MaxOpens \in Nat

VARIABLES
  tree, cwd,
  policy,    \* the one of Policies in force
  cache,     \* dir_cache: seconds since a place was found not to be a link
  changed,   \* seconds since a place was changed, up to Ttl
  call,      \* the call the decoder has yet to see: {} or {[arg, opened, raced]}
  seen,      \* the observation made of the last one, and the truth about it
  opens, changes

vars == <<tree, cwd, policy, cache, changed, call, seen, opens, changes>>

-----------------------------------------------------------------------------
(* pathmatch.rs                                                            *)

(* normalize(): "", "." and ".." are worked off from left to right.        *)
Normalize(names) ==
  LET Step(parts, n) ==
        IF n \in {Nothing, Dot} THEN parts
        ELSE IF n # DotDot THEN Append(parts, n)
        ELSE IF parts = <<>> THEN parts ELSE Front(parts)
  IN FoldLeft(Step, <<>>, names)

IsGlob(pattern) == \E i \in 1..Len(pattern) : Range(pattern[i]) \cap {"*", "?"} # {}

RECURSIVE SegmentMatch(_, _)
SegmentMatch(p, s) ==
  IF p = <<>> THEN s = <<>>
  ELSE IF Head(p) = "*"
  THEN SegmentMatch(Tail(p), s) \/ (s # <<>> /\ SegmentMatch(p, Tail(s)))
  ELSE s # <<>> /\ Head(p) \in {"?", Head(s)} /\ SegmentMatch(Tail(p), Tail(s))

(* glob_segments(), which also accepts what lies beneath a match.          *)
RECURSIVE GlobSegments(_, _)
GlobSegments(pat, segs) ==
  IF pat = <<>> THEN TRUE
  ELSE IF Head(pat) = AnyPath
  THEN \E i \in 0..Len(segs) : GlobSegments(Tail(pat), SubSeq(segs, i + 1, Len(segs)))
  ELSE /\ segs # <<>> /\ SegmentMatch(Head(pat), Head(segs))
       /\ GlobSegments(Tail(pat), Tail(segs))

(* Faulty: a plain pattern wins over globs that come before it.            *)
FirstMatchPlain(patterns, path) ==
  LET Plain == {i \in 1..Len(patterns) :
                 ~IsGlob(patterns[i]) /\ IsPrefix(Normalize(patterns[i]), path)}
      Globs == {i \in 1..Len(patterns) :
                 IsGlob(patterns[i]) /\ GlobSegments(patterns[i], path)}
  IN IF Plain # {} THEN Min(Plain) ELSE IF Globs # {} THEN Min(Globs) ELSE 0

(* PatternSet::first_match: the first plain pattern, then globs as long as *)
(* they come before it.  0 if none matches.                                *)
FirstMatch(patterns, path) ==
  LET Plain == {i \in 1..Len(patterns) :
                 ~IsGlob(patterns[i]) /\ IsPrefix(Normalize(patterns[i]), path)}
      Globs == {i \in 1..Len(patterns) :
                 /\ IsGlob(patterns[i]) /\ \A k \in Plain : i < k
                 /\ GlobSegments(patterns[i], path)}
  IN IF Globs # {} THEN Min(Globs) ELSE IF Plain # {} THEN Min(Plain) ELSE 0

-----------------------------------------------------------------------------
(* What the kernel opens: the links in a path replaced one after another,  *)
(* the leftmost first.  A place that does not exist may be created, if its *)
(* directory exists.                                                       *)

At(t, path) == IF path = <<>> THEN Real ELSE IF path \in Places THEN t[path] ELSE None

RECURSIVE Kernel(_, _, _)
Kernel(t, names, hops) ==
  LET Prefix(k) == Normalize(SubSeq(names, 1, k))
      stops == {k \in 1..Len(names) : At(t, Prefix(k)) # Real}
      k     == Min(stops)
      node  == At(t, Prefix(k))
      rest  == SubSeq(names, k + 1, Len(names))
  IN IF stops = {} THEN Ok(Normalize(names))
     ELSE IF node = None THEN IF rest = <<>> THEN Ok(Prefix(k)) ELSE Fails
     ELSE IF hops = MaxHops THEN Fails
     ELSE Kernel(t, (IF node.abs THEN <<>> ELSE Prefix(k - 1)) \o node.names \o rest,
                 hops + 1)

Full(arg) == IF arg.abs THEN arg.names ELSE cwd \o arg.names

-----------------------------------------------------------------------------
(* decode.rs                                                               *)

(* symlink_metadata() of a place: links on the way to it are followed.     *)
Lstat(path) ==
  LET dir == Kernel(tree, Front(path), 0)
  IN IF dir.fails THEN None ELSE At(tree, Append(dir.path, Last(path)))

(* Faulty: an entry of the cache never expires.                            *)
FreshEver(path) == path \in DOMAIN cache

Fresh(path) == path \in DOMAIN cache /\ cache[path] < Ttl

(* The loop of realpath_in_root_cached: `cur' is resolved, `todo' is to    *)
(* come; `noted' collects what goes into the cache.                        *)
RECURSIVE Walk(_, _, _, _, _)
Walk(cur, todo, hops, missing, noted) ==
  IF todo = <<>> THEN [real |-> Ok(cur), noted |-> noted]
  ELSE LET n    == Head(todo)
           path == Append(cur, n)
           last == Len(todo) = 1
           node == Lstat(path)
       IN IF n \in {Nothing, Dot} THEN Walk(cur, Tail(todo), hops, missing, noted)
          ELSE IF n = DotDot
          THEN Walk(IF cur = <<>> THEN cur ELSE Front(cur), Tail(todo), hops, missing, noted)
          ELSE IF missing \/ (~last /\ Fresh(path))
          THEN Walk(path, Tail(todo), hops, missing, noted)
          ELSE IF node.kind = "link"
          THEN IF hops = MaxHops THEN [real |-> Fails, noted |-> noted]
               ELSE Walk(IF node.abs THEN <<>> ELSE cur, node.names \o Tail(todo),
                         hops + 1, missing, noted)
          ELSE Walk(path, Tail(todo), hops, node = None,
                    IF last THEN noted ELSE noted \cup {path})

(* realpath_in_root_cached, for a process that still exists.               *)
Realpath(path) ==
  IF path # <<>> /\ Head(path) \in Skipped THEN [real |-> Fails, noted |-> {}]
  ELSE Walk(<<>>, path, 0, FALSE, {})

-----------------------------------------------------------------------------
Init ==
  /\ tree \in Trees /\ cwd \in Dirs /\ policy \in Policies
  /\ cache = <<>> /\ changed = [p \in Places |-> Ttl]
  /\ call = {} /\ seen = {} /\ opens = 0 /\ changes = 0

Open(arg) ==
  /\ call = {} /\ opens < MaxOpens
  /\ call' = {[arg |-> arg, opened |-> Kernel(tree, Full(arg), 0), raced |-> FALSE]}
  /\ opens' = opens + 1 /\ seen' = {}
  /\ UNCHANGED <<tree, cwd, policy, cache, changed, changes>>

Raced == {[c EXCEPT !.raced = TRUE] : c \in call}

Change(c) ==
  /\ changes < MaxChanges /\ tree[c.at] # c.to
  /\ tree' = [tree EXCEPT ![c.at] = c.to]
  /\ changed' = [changed EXCEPT ![c.at] = 0]
  /\ call' = Raced /\ changes' = changes + 1
  /\ UNCHANGED <<cwd, policy, cache, seen, opens>>

Chdir(d) ==
  /\ changes < MaxChanges /\ d # cwd
  /\ cwd' = d /\ call' = Raced /\ changes' = changes + 1
  /\ UNCHANGED <<tree, policy, cache, changed, seen, opens>>

Second ==
  /\ cache' = [p \in DOMAIN cache |-> IF cache[p] < Ttl THEN cache[p] + 1 ELSE Ttl]
  /\ changed' = [p \in Places |-> IF changed[p] < Ttl THEN changed[p] + 1 ELSE Ttl]
  /\ UNCHANGED <<tree, cwd, policy, call, seen, opens, changes>>

(* The decoder was looking at the file system of the call, and no ".."     *)
(* follows a link in the argument.                                         *)
Undisturbed(c, path) ==
  /\ ~c.raced
  /\ \A p \in DOMAIN cache \cap Places : changed[p] = Ttl
  /\ path = <<>> \/ Head(path) \notin Skipped
  /\ Kernel(tree, path, 0) = c.opened

(* decode() of KL_OPEN, and the rule that covers the path.  The working    *)
(* directory is that of now.                                               *)
Decode(c) ==
  LET path  == Normalize(Full(c.arg))
      found == Realpath(path)
      real  == IF found.real.fails THEN path ELSE found.real.path
      kept  == IF Cardinality(DOMAIN cache) > MaxCache THEN <<>> ELSE cache
  IN /\ cache' = [p \in DOMAIN kept \cup found.noted |->
                    IF p \in found.noted THEN 0 ELSE kept[p]]
     /\ seen' = {[path |-> real, rule |-> FirstMatch(policy, real), call |-> c,
                  undisturbed |-> Undisturbed(c, path)]}
     /\ call' = {}
     /\ UNCHANGED <<tree, cwd, policy, changed, opens, changes>>

(* The process is gone: a path that needs no directory stays as it is.     *)
DecodeGone(c) ==
  LET path == Normalize(c.arg.names)
  IN /\ c.arg.abs
     /\ seen' = {[path |-> path, rule |-> FirstMatch(policy, path), call |-> c,
                  undisturbed |-> FALSE]}
     /\ call' = {} /\ opens' = MaxOpens
     /\ UNCHANGED <<tree, cwd, policy, cache, changed, changes>>

Next ==
  \/ Second
  \/ \E arg \in Args : Open(arg)
  \/ \E c \in Changes : Change(c)
  \/ \E d \in Dirs : Chdir(d)
  \/ \E c \in call : Decode(c) \/ DecodeGone(c)

Spec == Init /\ [][Next]_vars

-----------------------------------------------------------------------------
(* The path of an observation is the one the kernel opened, through any    *)
(* links, absolute or relative, unless the file system changed between the *)
(* call and the decoder's look, or a directory was replaced while the      *)
(* cache, which forgets after Ttl, still vouched for it.  A ".." that      *)
(* follows a link is excepted: normalize() works it off before the link is *)
(* looked at.  (decode.rs:510)                                             *)
ResolvedRight ==
  \A s \in seen :
    s.undisturbed /\ ~s.call.opened.fails => s.path = s.call.opened.path

(* Reference: a sequence of wildcards, of which Many stands for any number *)
(* of elements and One for exactly one, covers a beginning of s, or all.   *)
Covers(p, s, Many(_), One(_, _), whole) ==
  \E cut \in [0..Len(p) -> 0..Len(s)] :
    /\ cut[0] = 0 /\ (whole => cut[Len(p)] = Len(s))
    /\ \A i \in 1..Len(p) :
         IF Many(p[i]) THEN cut[i - 1] <= cut[i]
         ELSE cut[i] = cut[i - 1] + 1 /\ One(p[i], s[cut[i]])

RefSegment(p, s) ==
  LET Many(x) == x = "*"
      One(x, y) == x \in {"?", y}
  IN Covers(p, s, Many, One, TRUE)

RefMatches(pattern, path) ==
  LET Many(x) == x = AnyPath
  IN IF IsGlob(pattern) THEN Covers(pattern, path, Many, RefSegment, FALSE)
     ELSE IsPrefix(Normalize(pattern), path)

(* The rule reported for a path is "the first (in declaration order)       *)
(* pattern matching" it, plain or glob: a plain one covers what lies       *)
(* beneath it, `*' and `?' stay within a name and `**' spans names.        *)
(* (pathmatch.rs:214)                                                      *)
MatchedFirst ==
  \A s \in seen :
    s.rule = Min({i \in 1..Len(policy) : RefMatches(policy[i], s.path)} \cup {Len(policy) + 1})
             % (Len(policy) + 1)
=============================================================================
