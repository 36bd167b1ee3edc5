---------------------------- MODULE EditingProofs ----------------------------
(* Proofs about the two components that carry what editors change, ThreeWay *)
(* and Drafts, for every value of their constants.                          *)
EXTENDS Drafts, ThreeWay, FiniteSetTheorems, SequenceTheorems, WellFoundedInduction, TLAPS

-----------------------------------------------------------------------------
(* The decision about one value of three versions.                          *)

\* Undecided values are pairwise different, and a decided one is selected from
\* the current source or from upstream.
LEMMA DecisionFacts ==
    ASSUME NEW a, NEW b, NEW d
    PROVE  LET v == <<a, b, d>>
           IN /\ Decided(v) <=> b = d \/ b = a \/ d = a
              /\ Selected(v) = IF b = a THEN d ELSE b
              /\ Action(v) = "unchanged" <=> a = b /\ b = d
              /\ Action(v) = "take_upstream" => a = b /\ b # d
              /\ Action(v) = "keep_current" => a = d /\ b # d
  BY DEF Decided, Action, Selected

\* Two members make a cardinality of more than one.
LEMMA Pair ==
    ASSUME NEW a, NEW b, a # b
    PROVE  Cardinality({a, b}) = 2
  <1>1. IsFiniteSet({a}) /\ Cardinality({a}) = 1
    BY FS_Singleton
  <1>2. Cardinality({a} \union {b}) = Cardinality({a}) + 1
    BY <1>1, FS_AddElement
  <1>3. {a} \union {b} = {a, b}
    OBVIOUS
  <1> QED BY <1>1, <1>2, <1>3

LEMMA NotTwo ==
    ASSUME NEW S, IsFiniteSet(S), ~(Cardinality(S) > 1), NEW a \in S, NEW b \in S
    PROVE  a = b
  <1>1. SUFFICES ASSUME a # b PROVE FALSE
    OBVIOUS
  <1>2. {a, b} \in SUBSET S
    OBVIOUS
  <1>3. Cardinality({a, b}) <= Cardinality(S)
    BY <1>2, FS_Subset
  <1>4. Cardinality(S) \in Nat
    BY FS_CardinalityType
  <1>5. Cardinality({a, b}) = 2
    BY <1>1, Pair
  <1> QED BY <1>3, <1>4, <1>5

\* Bytes and path that are decided together are taken from the same side.
LEMMA DecidedTogether ==
    ASSUME NEW a, NEW b, NEW d, NEW p, NEW q, NEW r,
           MergeAction(<<a, b, d>>, <<p, q, r>>) # "conflict"
    PROVE  /\ Decided(<<a, b, d>>) /\ Decided(<<p, q, r>>)
           /\ \/ Selected(<<a, b, d>>) = b /\ Selected(<<p, q, r>>) = q
              \/ Selected(<<a, b, d>>) = d /\ Selected(<<p, q, r>>) = r
  <1> DEFINE v == <<a, b, d>>  w == <<p, q, r>>
             both == {Action(v), Action(w)}
  <1>1. Action(v) # "conflict" /\ Action(w) # "conflict"
    BY DEF MergeAction
  <1>2. "same_change" \notin both => ~(both \ {"unchanged"} = {"keep_current", "take_upstream"})
    <2>1. Cardinality({"keep_current", "take_upstream"}) = 2
      BY Pair
    <2> QED BY <2>1, <1>1 DEF MergeAction
  <1>3. both # {"keep_current", "take_upstream"}
    BY <1>2
  <1>4. \/ Action(v) # "take_upstream" /\ Action(w) # "take_upstream"
        \/ Action(v) # "keep_current" /\ Action(w) # "keep_current"
    BY <1>3
  <1>5. Decided(v) /\ Decided(w)
    BY <1>1 DEF Decided
  <1>6. /\ Action(v) # "take_upstream" => Selected(v) = b
        /\ Action(w) # "take_upstream" => Selected(w) = q
    BY DEF Selected
  <1>7. /\ Action(v) # "keep_current" => Selected(v) = d
        /\ Action(w) # "keep_current" => Selected(w) = r
    BY <1>1 DEF Selected, Action
  <1> QED BY <1>4, <1>5, <1>6, <1>7
-----------------------------------------------------------------------------
(* Trees, paths and objects.                                                *)

Arguments(c) == Trees(c) \subseteq Inputs

LEMMA ExpandedSides ==
    ASSUME NEW c, NEW x
    PROVE  /\ Versions(c, x) = <<Get(c.base, x), Get(c.current, x), Get(c.upstream, x)>>
           /\ PathsOf(c, x) = <<PathOf(c.base, x), PathOf(c.current, x), PathOf(c.upstream, x)>>
           /\ RecordsOf(c, x) =
                 <<RecordOf(c.base, x), RecordOf(c.current, x), RecordOf(c.upstream, x)>>
           /\ OutersOf(c, x) = <<RecordOf(c.base, x).outer, RecordOf(c.current, x).outer,
                                 RecordOf(c.upstream, x).outer>>
           /\ ScopePaths(c, x) =
                 <<ScopePath(c.base, x), ScopePath(c.current, x), ScopePath(c.upstream, x)>>
           /\ ScopeFiles(c, x) =
                 <<Get(c.base, ScopePath(c.base, x)), Get(c.current, ScopePath(c.current, x)),
                   Get(c.upstream, ScopePath(c.upstream, x))>>
  BY DEF Sides, Versions, PathsOf, RecordsOf, OutersOf, ScopePaths, ScopeFiles

\* An object is found at the path that holds it, and nowhere else.
LEMMA ObjectFacts ==
    ASSUME NEW t \in Inputs, ~Ambiguous(t), NEW k
    PROVE  /\ k \in Keys(t) => /\ PathOf(t, k) \in Descriptors(t)
                               /\ Key(t[PathOf(t, k)]) = k
                               /\ RecordOf(t, k) = t[PathOf(t, k)]
                               /\ Described(RecordOf(t, k))
           /\ k \notin Keys(t) => PathOf(t, k) = Absent /\ RecordOf(t, k) = Absent
           /\ \A p \in Descriptors(t) : Key(t[p]) = k => PathOf(t, k) = p
           /\ PathOf(t, k) = Absent <=> k \notin Keys(t)
           /\ RecordOf(t, k) = Absent <=> k \notin Keys(t)
  <1>1. \A p, q \in Descriptors(t) : Key(t[p]) = Key(t[q]) => p = q
    BY DEF Ambiguous, Key
  <1>2. ASSUME k \in Keys(t)
        PROVE  PathOf(t, k) \in Descriptors(t) /\ Key(t[PathOf(t, k)]) = k
    BY <1>2 DEF Keys, PathOf
  <1>3. \A p \in Descriptors(t) : p # Absent /\ t[p] # Absent /\ Described(t[p])
    BY TreeAssumption DEF Descriptors
  <1>4. \A p \in Descriptors(t) : Key(t[p]) = k => k \in Keys(t)
    BY DEF Keys
  <1> QED BY <1>1, <1>2, <1>3, <1>4 DEF PathOf, RecordOf

\* What a tree has at a descriptor's path, seen from the object that some tree has there.
LEMMA AtObjectPath ==
    ASSUME NEW t \in Inputs, ~Ambiguous(t), NEW k, NEW p, p[2] = "xml",
           p \in DOMAIN t => KeyAt(t, p) = k
    PROVE  /\ p \in DOMAIN t <=> PathOf(t, k) = p /\ p # Absent
           /\ p # Absent => Get(t, p) = IF PathOf(t, k) = p THEN RecordOf(t, k) ELSE Absent
  <1>1. p \in DOMAIN t => p # Absent /\ p \in Descriptors(t) /\ Key(t[p]) = k
    BY TreeAssumption DEF Descriptors, KeyAt
  <1>2. PathOf(t, k) = p /\ p # Absent => p \in DOMAIN t
    BY ObjectFacts DEF Descriptors
  <1>3. p \in DOMAIN t => PathOf(t, k) = p
    BY <1>1, ObjectFacts
  <1>4. p \in DOMAIN t => RecordOf(t, k) = t[p]
    BY <1>1, <1>3, ObjectFacts DEF Keys
  <1> QED BY <1>1, <1>2, <1>3, <1>4 DEF Get
-----------------------------------------------------------------------------
(* What a call that is answered with a candidate has passed.                *)

Ready(c) ==
    /\ Arguments(c) /\ \A t \in Trees(c) : ~Ambiguous(t)
    /\ Blockers(c) = {} /\ TextReasons(c) = {}
    /\ CandidateReasons(Candidate(c)) = {}

LEMMA Three ==
    ASSUME NEW a, NEW b, NEW d
    PROVE  IsFiniteSet({a, b, d})
  <1>1. IsFiniteSet({a})
    BY FS_Singleton
  <1>2. IsFiniteSet({a} \union {b})
    BY <1>1, FS_AddElement
  <1>3. IsFiniteSet(({a} \union {b}) \union {d})
    BY <1>2, FS_AddElement
  <1>4. ({a} \union {b}) \union {d} = {a, b, d}
    OBVIOUS
  <1> QED BY <1>3, <1>4

LEMMA Passed ==
    ASSUME NEW c, Ready(c)
    PROVE  /\ \A t \in Trees(c) : t \in Inputs /\ ~Ambiguous(t)
           /\ \A s \in Scopes(c) : ScopeReasons(c, s) = {}
           /\ \A k \in ObjectKeys(c) : ObjectReasons(c, k) = {}
           /\ \A p \in Paths(c) : p \notin Covered(c) => Decided(Versions(c, p))
           /\ \A t, v \in Trees(c) : \A p :
                 p \in DOMAIN t /\ p \in DOMAIN v => KeyAt(t, p) = KeyAt(v, p)
  <1>1. \A t \in Trees(c) : t \in Inputs /\ ~Ambiguous(t)
    BY DEF Ready, Arguments
  <1>2. /\ (UNION {ScopeReasons(c, s) : s \in Scopes(c)}) = {}
        /\ (UNION {ObjectReasons(c, k) : k \in ObjectKeys(c)}) = {}
        /\ If(PathConflicts(c) \ Covered(c) # {}, "path_conflict") = {}
        /\ If(\E p \in Paths(c) : Cardinality(KeysAt(c, p)) > 1, "object_identity_changed") = {}
    <2> DEFINE scopes  == UNION {ScopeReasons(c, s) : s \in Scopes(c)}
               objects == UNION {ObjectReasons(c, k) : k \in ObjectKeys(c)}
               paths   == If(PathConflicts(c) \ Covered(c) # {}, "path_conflict")
               shapes  == If(\E t \in Trees(c) : \E p \in Descriptors(t) : Unshaped(t, p),
                             "object_shape_unsupported")
               swaps   == If(\E p \in Paths(c) : Cardinality(KeysAt(c, p)) > 1,
                             "object_identity_changed")
               types   == If(\E k, l \in ObjectKeys(c) : k[2] = l[2] /\ k[1] # l[1],
                             "object_type_changed")
               extends == If(\E t \in Trees(c) : \E p \in Descriptors(t) : Extends(t, p),
                             "extension_ownership_unverified")
    <2>1. Blockers(c) = shapes \cup swaps \cup types \cup extends \cup scopes \cup objects
                        \cup paths
      BY DEF Blockers
    <2>2. Blockers(c) = {}
      BY DEF Ready
    <2> HIDE DEF shapes, swaps, types, extends, scopes, objects, paths
    <2>3. scopes = {} /\ objects = {} /\ paths = {} /\ swaps = {}
      BY <2>1, <2>2
    <2> QED BY <2>3 DEF scopes, objects, paths, swaps
  <1>3. /\ \A s \in Scopes(c) : ScopeReasons(c, s) = {}
        /\ \A k \in ObjectKeys(c) : ObjectReasons(c, k) = {}
    BY <1>2
  <1>4. \A p \in Paths(c) : p \notin Covered(c) => Decided(Versions(c, p))
    <2>1. PathConflicts(c) \ Covered(c) = {}
      BY <1>2 DEF If
    <2> QED BY <2>1 DEF PathConflicts, Decided
  <1>5. \A p \in Paths(c) : ~(Cardinality(KeysAt(c, p)) > 1)
    BY <1>2 DEF If
  <1>6. ASSUME NEW t \in Trees(c), NEW v \in Trees(c), NEW p, p \in DOMAIN t, p \in DOMAIN v
        PROVE  KeyAt(t, p) = KeyAt(v, p)
    <2>1. KeyAt(t, p) \in KeysAt(c, p) /\ KeyAt(v, p) \in KeysAt(c, p)
      BY <1>6 DEF KeysAt
    <2>2. IsFiniteSet(KeysAt(c, p))
      <3>1. IsFiniteSet({KeyAt(c.base, p), KeyAt(c.current, p), KeyAt(c.upstream, p)})
        BY Three
      <3>2. KeysAt(c, p) \in SUBSET {KeyAt(c.base, p), KeyAt(c.current, p), KeyAt(c.upstream, p)}
        BY DEF KeysAt, Trees
      <3> QED BY <3>1, <3>2, FS_Subset
    <2>3. ~(Cardinality(KeysAt(c, p)) > 1)
      BY <1>5, <1>6 DEF Paths
    <2> QED BY <2>1, <2>2, <2>3, NotTwo
  <1> QED BY <1>1, <1>3, <1>4, <1>6

\* All trees that have a path hold the same object there, or none of them holds one.
LEMMA OneObjectPerPath ==
    ASSUME NEW c, Ready(c), NEW k \in ObjectKeys(c), NEW t \in Trees(c), PathOf(t, k) # Absent
    PROVE  \A v \in Trees(c) :
              LET p == PathOf(t, k)
              IN /\ p # Absent /\ p[2] = "xml"
                 /\ p \in DOMAIN v => KeyAt(v, p) = k
                 /\ p \in DOMAIN v <=> PathOf(v, k) = p
                 /\ Get(v, p) = IF PathOf(v, k) = p THEN RecordOf(v, k) ELSE Absent
  <1> DEFINE p == PathOf(t, k)
  <1>1. t \in Inputs /\ ~Ambiguous(t)
    BY Passed
  <1>2. p \in Descriptors(t) /\ Key(t[p]) = k
    BY <1>1, ObjectFacts
  <1>3. p \in DOMAIN t /\ p[2] = "xml" /\ KeyAt(t, p) = k
    BY <1>2 DEF Descriptors, KeyAt
  <1> QED
    <2> TAKE v \in Trees(c)
    <2>1. v \in Inputs /\ ~Ambiguous(v)
      BY Passed
    <2>2. p \in DOMAIN v => KeyAt(v, p) = k
      BY <1>3, Passed
    <2> QED BY <1>3, <2>1, <2>2, AtObjectPath
-----------------------------------------------------------------------------
(* What covers a path: a merged text, or a merged object.                   *)

\* With steady paths the bytes alone make the action.
LEMMA SteadyPaths ==
    ASSUME NEW v, NEW p, MergeAction(v, <<p, p, p>>) = "conflict"
    PROVE  ~Decided(v)
  <1>1. Action(<<p, p, p>>) = "unchanged"
    BY DecisionFacts
  <1>2. SUFFICES ASSUME Action(v) # "conflict" PROVE FALSE
    BY DEF Decided
  <1>3. {Action(v), "unchanged"} \ {"unchanged"} # {} =>
           {Action(v), "unchanged"} \ {"unchanged"} = {Action(v)}
    OBVIOUS
  <1>4. Cardinality({Action(v)}) = 1
    BY FS_Singleton
  <1> QED BY <1>1, <1>2, <1>3, <1>4 DEF MergeAction

\* A text is merged at one path, which every tree has and has changed.
LEMMA MergedScopeFacts ==
    ASSUME NEW c, Ready(c), NEW s \in MergedScopes(c)
    PROVE  LET p == ScopePath(c.base, s)
           IN /\ p[2] = "bsl" /\ ScopeOf(c.base, p) = s
              /\ \A t \in Trees(c) : ScopePath(t, s) = p /\ p \in DOMAIN t
              /\ ~Decided(Versions(c, p))
              /\ ScopeFiles(c, s) = Versions(c, p)
  <1> DEFINE p == ScopePath(c.base, s)
  <1>1. s \in Scopes(c) /\ Overlap(c, s) /\ ScopeReasons(c, s) = {}
    BY DEF MergedScopes
  <1>2. /\ s[2] = "bsl" /\ BslReasons(c, s) = {}
        /\ \A t \in Trees(c) : ScopePath(t, s) # Absent => CompanionReasons(t, ScopePath(t, s)) = {}
    BY <1>1 DEF ScopeReasons
  <1>3. Absent \notin Range(ScopePaths(c, s)) /\ ~(Cardinality(Range(ScopePaths(c, s))) > 1)
    BY <1>2 DEF BslReasons
  <1>4. Range(ScopePaths(c, s)) =
           {ScopePath(c.base, s), ScopePath(c.current, s), ScopePath(c.upstream, s)}
    BY ExpandedSides DEF Range
  <1>5. \A t \in Trees(c) : ScopePath(t, s) = p /\ ScopePath(t, s) # Absent
    <2>1. p = ScopePath(c.current, s) /\ p = ScopePath(c.upstream, s) /\ p # Absent
      <3> DEFINE q == ScopePath(c.current, s)  r == ScopePath(c.upstream, s)
      <3>1. ~(Cardinality({p, q, r}) > 1) /\ Absent \notin {p, q, r}
        BY <1>3, <1>4
      <3> HIDE DEF p, q, r
      <3>2. IsFiniteSet({p, q, r})
        BY Three
      <3>3. PICK S : S = {p, q, r}
        OBVIOUS
      <3>4. p = q
        BY <3>1, <3>2, <3>3, NotTwo
      <3>5. p = r
        BY <3>1, <3>2, <3>3, NotTwo
      <3>6. p # Absent
        BY <3>1
      <3> QED BY <3>4, <3>5, <3>6 DEF p, q, r
    <2> QED BY <2>1 DEF Trees
  <1>6. ASSUME NEW t \in Trees(c) PROVE p \in Companions(t) /\ ScopeOf(t, p) = s
    BY <1>5 DEF ScopePath
  <1>7. c.base \in Trees(c)
    BY DEF Trees
  <1>8. OwnerOf(c.base, p) # Nobody
    BY <1>2, <1>5, <1>7 DEF CompanionReasons
  <1>9. p[2] = "bsl"
    BY <1>2, <1>6, <1>7, <1>8 DEF ScopeOf
  <1>10. ScopeFiles(c, s) = Versions(c, p) /\ ScopePaths(c, s) = <<p, p, p>>
    BY <1>5, ExpandedSides DEF Trees
  <1>11. ~Decided(Versions(c, p))
    BY <1>1, <1>10, SteadyPaths DEF Overlap
  <1> QED BY <1>5, <1>6, <1>7, <1>9, <1>10, <1>11 DEF Companions

\* A merged object is in every tree, its place is decided, and its properties
\* are, one side having changed this one and the other that one.
LEMMA MergedObjectFacts ==
    ASSUME NEW c, NEW k \in MergedObjects(c)
    PROVE  /\ k \in ObjectKeys(c) /\ \A t \in Trees(c) : k \in Keys(t)
           /\ DisjointChanges(RecordsOf(c, k))
           /\ Action(OutersOf(c, k)) = "unchanged"
           /\ Decided(PathsOf(c, k))
  BY DEF MergedObjects, ObjectReasons, Splicable, InAll, Decided

LEMMA CoveredFacts ==
    ASSUME NEW c, Ready(c), NEW p
    PROVE  p \in Covered(c) <=>
              \/ \E k \in MergedObjects(c) : \E t \in Trees(c) : p = PathOf(t, k)
              \/ \E s \in MergedScopes(c) : p = ScopePath(c.base, s)
  <1>1. \A k : Range(PathsOf(c, k)) = {PathOf(t, k) : t \in Trees(c)}
    BY ExpandedSides DEF Range, Trees
  <1> QED BY <1>1 DEF Covered

LEMMA CoveredObject ==
    ASSUME NEW c, Ready(c), NEW k \in ObjectKeys(c), NEW t \in Trees(c), PathOf(t, k) # Absent
    PROVE  PathOf(t, k) \in Covered(c) <=> k \in MergedObjects(c)
  <1> DEFINE p == PathOf(t, k)
  <1>1. ASSUME NEW l \in MergedObjects(c), NEW v \in Trees(c), p = PathOf(v, l)
        PROVE  l = k
    <2>1. l \in ObjectKeys(c)
      BY MergedObjectFacts
    <2>2. p \in DOMAIN t /\ KeyAt(t, p) = k
      BY OneObjectPerPath
    <2>3. p \in DOMAIN t => KeyAt(t, p) = l
      BY <1>1, <2>1, OneObjectPerPath
    <2> QED BY <2>2, <2>3
  <1>2. \A s \in MergedScopes(c) : ScopePath(c.base, s)[2] = "bsl"
    BY MergedScopeFacts
  <1>3. p[2] = "xml"
    BY OneObjectPerPath
  <1> QED BY <1>1, <1>2, <1>3, CoveredFacts
-----------------------------------------------------------------------------
(* The choice by path agrees with the choice by object.                     *)

\* Each version of a path follows from the path and the bytes of the object it holds.
LEMMA VersionsOfObject ==
    ASSUME NEW c, Ready(c), NEW k \in ObjectKeys(c), NEW t \in Trees(c), PathOf(t, k) # Absent
    PROVE  Versions(c, PathOf(t, k)) =
              <<IF PathOf(c.base, k) = PathOf(t, k) THEN RecordOf(c.base, k) ELSE Absent,
                IF PathOf(c.current, k) = PathOf(t, k) THEN RecordOf(c.current, k) ELSE Absent,
                IF PathOf(c.upstream, k) = PathOf(t, k) THEN RecordOf(c.upstream, k) ELSE Absent>>
  <1>1. \A v \in Trees(c) : Get(v, PathOf(t, k)) =
           IF PathOf(v, k) = PathOf(t, k) THEN RecordOf(v, k) ELSE Absent
    BY OneObjectPerPath
  <1> QED BY <1>1, ExpandedSides DEF Trees

\* An object decided as a whole: the choice by path leaves it at its chosen
\* path with its chosen bytes, and nowhere else.
LEMMA WholeObject ==
    ASSUME NEW c, Ready(c), NEW k \in ObjectKeys(c), k \notin MergedObjects(c)
    PROVE  /\ Decided(PathsOf(c, k)) /\ Decided(RecordsOf(c, k))
           /\ Selected(PathsOf(c, k)) = Absent <=> Selected(RecordsOf(c, k)) = Absent
           /\ \E t \in Trees(c) : /\ Selected(PathsOf(c, k)) = PathOf(t, k)
                                  /\ Selected(RecordsOf(c, k)) = RecordOf(t, k)
           /\ \A t \in Trees(c) : PathOf(t, k) # Absent =>
                 Selected(Versions(c, PathOf(t, k))) =
                    IF PathOf(t, k) = Selected(PathsOf(c, k))
                    THEN Selected(RecordsOf(c, k)) ELSE Absent
  <1> DEFINE a == PathOf(c.base, k)  b == PathOf(c.current, k)  d == PathOf(c.upstream, k)
             x == RecordOf(c.base, k)  y == RecordOf(c.current, k)  z == RecordOf(c.upstream, k)
  <1>1. PathsOf(c, k) = <<a, b, d>> /\ RecordsOf(c, k) = <<x, y, z>>
    BY ExpandedSides
  <1>2. MergeAction(<<x, y, z>>, <<a, b, d>>) # "conflict"
    BY <1>1, Passed DEF MergedObjects, Contested
  <1>3. \A t \in Trees(c) : (PathOf(t, k) = Absent) <=> (RecordOf(t, k) = Absent)
    BY Passed, ObjectFacts
  <1>4. (a = Absent <=> x = Absent) /\ (b = Absent <=> y = Absent) /\ (d = Absent <=> z = Absent)
    BY <1>3 DEF Trees
  <1>5. ASSUME NEW q \in {a, b, d}, q # Absent
        PROVE  /\ Versions(c, q) = <<IF a = q THEN x ELSE Absent, IF b = q THEN y ELSE Absent,
                                     IF d = q THEN z ELSE Absent>>
               /\ Decided(Versions(c, q))
    <2>1. PICK t \in Trees(c) : q = PathOf(t, k)
      BY <1>5 DEF Trees
    <2>2. q \notin Covered(c)
      BY <1>5, <2>1, CoveredObject
    <2>3. q \in Paths(c)
      BY <1>5, <2>1, OneObjectPerPath DEF Paths
    <2> QED BY <1>5, <2>1, <2>2, <2>3, VersionsOfObject, Passed
  <1>6. ASSUME NEW t \in Trees(c), PathOf(t, k) # Absent
        PROVE  Selected(Versions(c, PathOf(t, k))) =
                  IF PathOf(t, k) = Selected(<<a, b, d>>) THEN Selected(<<x, y, z>>) ELSE Absent
    <2> DEFINE p == PathOf(t, k)
    <2>1. p \in {a, b, d}
      BY DEF Trees
    <2>2. Versions(c, p) = <<IF a = p THEN x ELSE Absent, IF b = p THEN y ELSE Absent,
                             IF d = p THEN z ELSE Absent>>
      BY <1>5, <1>6, <2>1
    <2>3. \A q \in {a, b, d} : q # Absent =>
              Decided(<<IF a = q THEN x ELSE Absent, IF b = q THEN y ELSE Absent,
                        IF d = q THEN z ELSE Absent>>)
      BY <1>5
    <2>4. p # Absent
      BY <1>6
    <2> HIDE DEF a, b, d, x, y, z, p
    <2>5. Selected(<<IF a = p THEN x ELSE Absent, IF b = p THEN y ELSE Absent,
                     IF d = p THEN z ELSE Absent>>)
             = IF p = Selected(<<a, b, d>>) THEN Selected(<<x, y, z>>) ELSE Absent
      <3>1. /\ b = d \/ b = a \/ d = a
            /\ y = z \/ y = x \/ z = x
            /\ \/ Selected(<<x, y, z>>) = y /\ Selected(<<a, b, d>>) = b
               \/ Selected(<<x, y, z>>) = z /\ Selected(<<a, b, d>>) = d
        BY <1>2, DecidedTogether, DecisionFacts
      <3>2. \A f, g, h : /\ Decided(<<f, g, h>>) <=> g = h \/ g = f \/ h = f
                         /\ Selected(<<f, g, h>>) = IF g = f THEN h ELSE g
        BY DEF Decided, Action, Selected
      <3> QED BY <1>4, <2>1, <2>3, <2>4, <3>1, <3>2
    <2> QED BY <2>2, <2>5 DEF p
  <1>7. /\ Decided(<<a, b, d>>) /\ Decided(<<x, y, z>>)
        /\ \/ Selected(<<x, y, z>>) = y /\ Selected(<<a, b, d>>) = b
           \/ Selected(<<x, y, z>>) = z /\ Selected(<<a, b, d>>) = d
    BY <1>2, DecidedTogether
  <1>8. \E t \in Trees(c) : Selected(<<a, b, d>>) = PathOf(t, k) /\ Selected(<<x, y, z>>) = RecordOf(t, k)
    BY <1>7 DEF Trees
  <1> QED BY <1>1, <1>4, <1>6, <1>7, <1>8
-----------------------------------------------------------------------------
(* What a loop builds, one element after the other.                         *)

\* A set of numbers that holds 0 and every successor of its members holds them all.
LEMMA AllNumbers ==
    ASSUME NEW S, 0 \in S, \A i \in Nat : i \in S => i + 1 \in S
    PROVE  Nat \subseteq S
  <1> DEFINE rest == Nat \ S
             less == OpToRel(LAMBDA i, j : i < j, Nat)
  <1>1. SUFFICES ASSUME rest # {} PROVE FALSE
    OBVIOUS
  <1>2. IsWellFoundedOn(less, Nat)
    BY NatLessThanWellFounded
  <1>3. rest \subseteq Nat
    OBVIOUS
  <1>4. PICK i \in rest : \A j \in rest : <<j, i>> \notin less
    <2> HIDE DEF rest, less
    <2> QED BY <1>1, <1>2, <1>3, WFMin
  <1>5. i - 1 \in Nat
    OBVIOUS
  <1>6. i - 1 \in rest
    BY <1>5
  <1>7. <<i - 1, i>> \in less
    BY <1>5 DEF OpToRel
  <1> QED BY <1>4, <1>6, <1>7
\* A step that stays among the states can be repeated any number of times.
Repeats(n, D, first, step, f) ==
    f \in [0..n -> D] /\ f[0] = first /\ \A i \in 1..n : f[i] = step[<<i, f[i - 1]>>]

LEMMA Repeated ==
    ASSUME NEW n \in Nat, NEW D, NEW first \in D, NEW step \in [(1..n) \X D -> D]
    PROVE  \E f : Repeats(n, D, first, step, f)
  <1> DEFINE S == {m \in Nat : m <= n => \E f : Repeats(m, D, first, step, f)}
  <1>1. 0 \in S
    <2>1. Repeats(0, D, first, step, [i \in 0..0 |-> first])
      BY DEF Repeats
    <2> QED BY <2>1
  <1>2. ASSUME NEW m \in Nat, m \in S PROVE m + 1 \in S
    <2>1. SUFFICES ASSUME m + 1 <= n PROVE \E f : Repeats(m + 1, D, first, step, f)
      OBVIOUS
    <2>2. PICK f : Repeats(m, D, first, step, f)
      BY <1>2, <2>1
    <2> DEFINE g == [i \in 0 .. m + 1 |-> IF i <= m THEN f[i] ELSE step[<<i, f[m]>>]]
    <2>3. step[<<m + 1, f[m]>>] \in D
      BY <2>1, <2>2 DEF Repeats
    <2>4. Repeats(m + 1, D, first, step, g)
      BY <2>2, <2>3 DEF Repeats
    <2> QED BY <2>4
  <1>3. n \in S
    <2> HIDE DEF S
    <2> QED BY <1>1, <1>2, AllNumbers
  <1> QED BY <1>3

\* What holds at first and after every step holds in the end.
LEMMA Throughout ==
    ASSUME NEW n \in Nat, NEW S, 0 \in S, \A i \in 1..n : i - 1 \in S => i \in S
    PROVE  0..n \subseteq S
  <1> DEFINE T == {i \in Nat : i <= n => i \in S}
  <1>1. 0 \in T /\ \A i \in Nat : i \in T => i + 1 \in T
    <2>1. ASSUME NEW i \in Nat, i \in T PROVE i + 1 \in T
      <3>1. i + 1 <= n => i + 1 \in 1..n /\ (i + 1) - 1 = i /\ i <= n
        OBVIOUS
      <3> QED BY <2>1, <3>1
    <2> QED BY <2>1
  <1>2. Nat \subseteq T
    <2> HIDE DEF T
    <2> QED BY <1>1, AllNumbers
  <1> QED BY <1>2

Distinct(order) == \A i, j \in DOMAIN order : order[i] = order[j] => i = j

LEMMA KeptFacts ==
    ASSUME NEW X, NEW order \in Seq(X), NEW names
    PROVE  /\ Kept(order, names) \in Seq(X)
           /\ Range(Kept(order, names)) = Range(order) \cap names
           /\ Distinct(order) => Distinct(Kept(order, names))
  <1> DEFINE n == Len(order)
             step == [a \in (1..n) \X Seq(X) |->
                        IF order[a[1]] \in names THEN Append(a[2], order[a[1]]) ELSE a[2]]
             kept[i \in 0 .. n] ==
                IF i = 0 THEN << >>
                ELSE IF order[i] \in names THEN Append(kept[i - 1], order[i]) ELSE kept[i - 1]
             Done(i) == /\ kept[i] \in Seq(X)
                        /\ Range(kept[i]) = {order[j] : j \in 1..i} \cap names
                        /\ Distinct(order) => Distinct(kept[i])
             S == {i \in 0..n : Done(i)}
  <1>1. n \in Nat /\ order \in [1..n -> X]
    OBVIOUS
  <1>2. step \in [(1..n) \X Seq(X) -> Seq(X)]
    BY <1>1
  <1>3. \E f : f = [i \in 0..n |-> IF i = 0 THEN << >>
                        ELSE IF order[i] \in names THEN Append(f[i - 1], order[i]) ELSE f[i - 1]]
    <2>1. PICK f : Repeats(n, Seq(X), << >>, step, f)
      <3>1. << >> \in Seq(X)
        BY EmptySeq
      <3> HIDE DEF step, n
      <3> QED BY <1>1, <1>2, <3>1, Repeated, Zenon
    <2>2. ASSUME NEW i \in 1..n
          PROVE  f[i] = IF order[i] \in names THEN Append(f[i - 1], order[i]) ELSE f[i - 1]
      <3>1. i - 1 \in 0..n /\ f[i - 1] \in Seq(X) /\ f[i] = step[<<i, f[i - 1]>>]
        <4> HIDE DEF n, step
        <4> QED BY <1>1, <2>1 DEF Repeats
      <3>2. <<i, f[i - 1]>> \in (1..n) \X Seq(X)
        BY <3>1
      <3> QED BY <3>1, <3>2
    <2>3. f = [i \in 0..n |-> f[i]]
      BY <2>1 DEF Repeats
    <2>4. ASSUME NEW i \in 0..n
          PROVE  f[i] = IF i = 0 THEN << >>
                        ELSE IF order[i] \in names THEN Append(f[i - 1], order[i]) ELSE f[i - 1]
      <3>1. i = 0 \/ i \in 1..n
        BY <1>1
      <3> QED BY <2>1, <2>2, <3>1 DEF Repeats
    <2> HIDE DEF n
    <2> QED BY <2>3, <2>4
  <1>4. kept = [i \in 0..n |-> IF i = 0 THEN << >>
                    ELSE IF order[i] \in names THEN Append(kept[i - 1], order[i]) ELSE kept[i - 1]]
    <2> HIDE DEF n
    <2> QED BY <1>3
  <1>5. Kept(order, names) = kept[n]
    BY DEF Kept
  <1>6. kept[0] = << >> /\ \A i \in 1..n : kept[i] =
           IF order[i] \in names THEN Append(kept[i - 1], order[i]) ELSE kept[i - 1]
    <2> DEFINE body == [i \in 0..n |-> IF i = 0 THEN << >>
                    ELSE IF order[i] \in names THEN Append(kept[i - 1], order[i]) ELSE kept[i - 1]]
    <2> HIDE DEF kept
    <2>1. \A i \in 0..n : kept[i] = body[i]
      BY <1>4
    <2>2. /\ body[0] = << >>
          /\ \A i \in 1..n : body[i] =
                IF order[i] \in names THEN Append(kept[i - 1], order[i]) ELSE kept[i - 1]
      BY <1>1
    <2>3. 0 \in 0..n /\ 1..n \subseteq 0..n
      BY <1>1
    <2> HIDE DEF body
    <2> QED BY <2>1, <2>2, <2>3
  <1> HIDE DEF kept
  <1>7. Done(0)
    BY <1>6 DEF Distinct, Range
  <1>8. ASSUME NEW i \in 1..n, Done(i - 1) PROVE Done(i)
    <2>1. CASE order[i] \in names
      <3>1. kept[i] = Append(kept[i - 1], order[i])
        BY <1>6, <2>1
      <3>2. Range(kept[i]) = Range(kept[i - 1]) \cup {order[i]}
        <4> HIDE DEF n
        <4> DEFINE s == kept[i - 1]
        <4>1. s \in Seq(X) /\ order[i] \in X
          BY <1>1, <1>8
        <4> HIDE DEF s
        <4>2. /\ DOMAIN s = 1 .. Len(s) /\ DOMAIN Append(s, order[i]) = 1 .. Len(s) + 1
              /\ \A j \in 1 .. Len(s) : Append(s, order[i])[j] = s[j]
              /\ Append(s, order[i])[Len(s) + 1] = order[i] /\ Len(s) \in Nat
          BY <4>1
        <4>3. Range(Append(s, order[i])) = Range(s) \cup {order[i]}
          BY <4>2 DEF Range
        <4> QED BY <3>1, <4>3 DEF s
      <3>3. ASSUME Distinct(order) PROVE order[i] \notin Range(kept[i - 1])
        BY <1>1, <1>8, <3>3 DEF Distinct
      <3>4. Distinct(order) => Distinct(kept[i])
        BY <1>8, <3>1, <3>3 DEF Distinct, Range
      <3> QED BY <1>1, <1>8, <2>1, <3>1, <3>2, <3>4
    <2>2. CASE order[i] \notin names
      BY <1>1, <1>6, <1>8, <2>2
    <2> QED BY <2>1, <2>2
  <1>9. 0..n \subseteq S
    <2>1. 0 \in S /\ \A i \in 1..n : i - 1 \in S => i \in S
      <3>1. ASSUME NEW i \in 1..n, i - 1 \in S PROVE i \in S
        <4>1. Done(i - 1)
          BY <3>1
        <4>2. Done(i)
          BY <1>8, <4>1
        <4>3. i \in 0..n
          BY <1>1
        <4> QED BY <4>2, <4>3
      <3>2. 0 \in 0..n
        BY <1>1
      <3>3. 0 \in S
        BY <1>7, <3>2
      <3> HIDE DEF S, n
      <3> QED BY <3>1, <3>3
    <2> HIDE DEF S, n
    <2> QED BY <1>1, <2>1, Throughout
  <1>10. Done(n)
    BY <1>1, <1>9
  <1>11. Range(order) = {order[j] : j \in 1..n}
    BY <1>1 DEF Range
  <1> QED BY <1>5, <1>10, <1>11
LEMMA ConcatFacts ==
    ASSUME NEW X, NEW s \in Seq(X), NEW t \in Seq(X)
    PROVE  /\ s \o t \in Seq(X) /\ Range(s \o t) = Range(s) \cup Range(t)
           /\ Distinct(s) /\ Distinct(t) /\ Range(s) \cap Range(t) = {} => Distinct(s \o t)
  <1>1. /\ Len(s) \in Nat /\ Len(t) \in Nat /\ DOMAIN s = 1 .. Len(s) /\ DOMAIN t = 1 .. Len(t)
        /\ s \o t \in Seq(X) /\ DOMAIN (s \o t) = 1 .. Len(s) + Len(t)
        /\ \A i \in 1 .. Len(s) : (s \o t)[i] = s[i]
        /\ \A i \in Len(s) + 1 .. Len(s) + Len(t) : (s \o t)[i] = t[i - Len(s)]
    OBVIOUS
  <1> DEFINE u == s \o t  m == Len(s)  n == Len(t)
  <1> HIDE DEF u, m, n
  <1>2. \A i \in 1 .. m + n : \/ i \in 1..m /\ u[i] = s[i]
                              \/ i - m \in 1..n /\ u[i] = t[i - m] /\ i > m
    BY <1>1 DEF u, m, n
  <1>3. /\ \A i \in 1..m : i \in 1 .. m + n /\ u[i] = s[i]
        /\ \A i \in 1..n : i + m \in 1 .. m + n /\ u[i + m] = t[i]
    BY <1>1 DEF u, m, n
  <1>4. DOMAIN s = 1..m /\ DOMAIN t = 1..n /\ DOMAIN u = 1 .. m + n /\ m \in Nat /\ n \in Nat
    BY <1>1 DEF u, m, n
  <1>5. Range(u) = Range(s) \cup Range(t)
    <2>1. Range(s) \subseteq Range(u)
      BY <1>3, <1>4 DEF Range
    <2>2. Range(t) \subseteq Range(u)
      BY <1>3, <1>4 DEF Range
    <2>3. Range(u) \subseteq Range(s) \cup Range(t)
      BY <1>2, <1>4 DEF Range
    <2> QED BY <2>1, <2>2, <2>3
  <1>6. ASSUME Distinct(s), Distinct(t), Range(s) \cap Range(t) = {} PROVE Distinct(u)
    <2>1. SUFFICES ASSUME NEW i \in 1 .. m + n, NEW j \in 1 .. m + n, u[i] = u[j] PROVE i = j
      BY <1>4 DEF Distinct
    <2>2. \A x \in 1..m, y \in 1..n : s[x] # t[y]
      BY <1>4, <1>6 DEF Range
    <2>3. CASE i \in 1..m /\ u[i] = s[i]
      BY <1>2, <1>4, <1>6, <2>1, <2>2, <2>3 DEF Distinct
    <2>4. CASE i - m \in 1..n /\ u[i] = t[i - m] /\ i > m
      <3>1. j - m \in 1..n /\ u[j] = t[j - m]
        BY <1>2, <2>1, <2>2, <2>4
      <3>2. i - m = j - m
        BY <1>4, <1>6, <2>1, <2>4, <3>1 DEF Distinct
      <3> QED BY <1>4, <3>2
    <2> QED BY <1>2, <2>3, <2>4
  <1> QED BY <1>1, <1>5, <1>6 DEF u

LEMMA InsertBeforeFacts ==
    ASSUME NEW X, NEW order \in Seq(X), NEW added \in Seq(X), NEW name \in Range(order)
    PROVE  /\ InsertBefore(name, added, order) \in Seq(X)
           /\ Range(InsertBefore(name, added, order)) = Range(order) \cup Range(added)
           /\ Distinct(order) /\ Distinct(added) /\ Range(order) \cap Range(added) = {} =>
                 Distinct(InsertBefore(name, added, order))
  <1> DEFINE at == CHOOSE i \in DOMAIN order : order[i] = name
             left == SubSeq(order, 1, at - 1)
             right == SubSeq(order, at, Len(order))
  <1>1. at \in 1 .. Len(order) /\ Len(order) \in Nat /\ DOMAIN order = 1 .. Len(order)
    BY DEF Range
  <1> HIDE DEF at
  <1>2. /\ left \in Seq(X) /\ Len(left) = at - 1 /\ \A i \in 1 .. at - 1 : left[i] = order[i]
        /\ DOMAIN left = 1 .. at - 1
    BY <1>1
  <1>3. /\ right \in Seq(X) /\ DOMAIN right = 1 .. Len(order) - at + 1
        /\ \A i \in 1 .. Len(order) - at + 1 : right[i] = order[at + i - 1]
    BY <1>1
  <1> HIDE DEF left, right
  <1>4. Range(order) = Range(left) \cup Range(right)
    <2>1. ASSUME NEW i \in DOMAIN order PROVE order[i] \in Range(left) \cup Range(right)
      <3>1. CASE i < at
        BY <1>1, <1>2, <3>1 DEF Range
      <3>2. CASE i >= at
        <4>1. i - at + 1 \in DOMAIN right /\ right[i - at + 1] = order[i]
          <5>1. i \in 1 .. Len(order)
            BY <1>1
          <5>2. i - at + 1 \in 1 .. Len(order) - at + 1 /\ at + (i - at + 1) - 1 = i
            BY <1>1, <3>2, <5>1
          <5> QED BY <1>3, <5>2
        <4> QED BY <4>1 DEF Range
      <3> QED BY <1>1, <3>1, <3>2
    <2>2. ASSUME NEW i \in DOMAIN left PROVE left[i] \in Range(order)
      BY <1>1, <1>2 DEF Range
    <2>3. ASSUME NEW i \in DOMAIN right PROVE right[i] \in Range(order)
      <3>1. at + i - 1 \in DOMAIN order /\ right[i] = order[at + i - 1]
        BY <1>1, <1>3
      <3> QED BY <3>1 DEF Range
    <2> QED BY <2>1, <2>2, <2>3 DEF Range
  <1>5. ASSUME Distinct(order)
        PROVE  Distinct(left) /\ Distinct(right) /\ Range(left) \cap Range(right) = {}
    <2>1. Distinct(left)
      BY <1>1, <1>2, <1>5 DEF Distinct
    <2>2. Distinct(right)
      <3>1. SUFFICES ASSUME NEW i \in DOMAIN right, NEW j \in DOMAIN right, right[i] = right[j]
                     PROVE  i = j
        BY DEF Distinct
      <3>2. at + i - 1 \in DOMAIN order /\ at + j - 1 \in DOMAIN order
        BY <1>1, <1>3
      <3>3. at + i - 1 = at + j - 1
        BY <1>3, <1>5, <3>1, <3>2 DEF Distinct
      <3> QED BY <1>1, <1>3, <3>3
    <2>3. ASSUME NEW i \in DOMAIN left, NEW j \in DOMAIN right PROVE left[i] # right[j]
      <3>1. at + j - 1 \in DOMAIN order /\ i \in DOMAIN order /\ i # at + j - 1
        BY <1>1, <1>2, <1>3
      <3> QED BY <1>2, <1>3, <1>5, <3>1 DEF Distinct
    <2> QED BY <2>1, <2>2, <2>3 DEF Range
  <1>6. InsertBefore(name, added, order) = (left \o added) \o right
    BY DEF InsertBefore, at, left, right
  <1> DEFINE front == left \o added
  <1>7. /\ front \in Seq(X) /\ Range(front) = Range(left) \cup Range(added)
        /\ Distinct(left) /\ Distinct(added) /\ Range(left) \cap Range(added) = {} => Distinct(front)
    BY <1>2, ConcatFacts
  <1> HIDE DEF front
  <1>8. /\ front \o right \in Seq(X) /\ Range(front \o right) = Range(front) \cup Range(right)
        /\ Distinct(front) /\ Distinct(right) /\ Range(front) \cap Range(right) = {} =>
              Distinct(front \o right)
    BY <1>3, <1>7, ConcatFacts
  <1>9. Range(front \o right) = Range(order) \cup Range(added)
    BY <1>4, <1>7, <1>8
  <1>10. ASSUME Distinct(order), Distinct(added), Range(order) \cap Range(added) = {}
         PROVE  Distinct(front \o right)
    <2>1. Range(left) \cap Range(added) = {} /\ Range(right) \cap Range(added) = {}
      BY <1>4, <1>10
    <2>2. Range(front) \cap Range(right) = {}
      BY <1>5, <1>7, <1>10, <2>1
    <2> QED BY <1>5, <1>7, <1>8, <1>10, <2>1, <2>2
  <1> QED BY <1>6, <1>8, <1>9, <1>10 DEF front

\* Inserting puts every name into the order, none of them twice.
LEMMA InsertedFacts ==
    ASSUME NEW X, NEW theirs \in Seq(X), NEW ours \in Seq(X)
    PROVE  /\ Inserted(theirs, ours) \in Seq(X)
           /\ Range(Inserted(theirs, ours)) = Range(theirs) \cup Range(ours)
           /\ Distinct(theirs) /\ Distinct(ours) => Distinct(Inserted(theirs, ours))
  <1> DEFINE n == Len(theirs)
             D == [order : Seq(X), pending : Seq(X)]
             first == [order |-> ours, pending |-> << >>]
             Then(i, done) ==
                IF theirs[i] \in Range(done.order)
                THEN [order   |-> InsertBefore(theirs[i], done.pending, done.order),
                      pending |-> << >>]
                ELSE [done EXCEPT !.pending = Append(@, theirs[i])]
             step == [a \in (1..n) \X D |-> Then(a[1], a[2])]
             merge[i \in 0 .. n] ==
                IF i = 0 THEN [order |-> ours, pending |-> << >>]
                ELSE LET done == merge[i - 1]
                     IN IF theirs[i] \in Range(done.order)
                        THEN [order   |-> InsertBefore(theirs[i], done.pending, done.order),
                              pending |-> << >>]
                        ELSE [done EXCEPT !.pending = Append(@, theirs[i])]
             Done(i) ==
                LET m == merge[i]
                IN /\ m \in D
                   /\ Range(m.order) \cup Range(m.pending) = Range(ours) \cup {theirs[j] : j \in 1..i}
                   /\ Range(m.pending) \subseteq {theirs[j] : j \in 1..i}
                   /\ Distinct(theirs) /\ Distinct(ours) =>
                         /\ Distinct(m.order) /\ Distinct(m.pending)
                         /\ Range(m.order) \cap Range(m.pending) = {}
             S == {i \in 0..n : Done(i)}
  <1>1. n \in Nat /\ theirs \in [1..n -> X]
    OBVIOUS
  <1>2. \A i \in 1..n, done \in D : Then(i, done) \in D
    <2> SUFFICES ASSUME NEW i \in 1..n, NEW done \in D PROVE Then(i, done) \in D
      OBVIOUS
    <2>1. CASE theirs[i] \in Range(done.order)
      BY <2>1, InsertBeforeFacts, EmptySeq
    <2>2. CASE theirs[i] \notin Range(done.order)
      <3>1. Append(done.pending, theirs[i]) \in Seq(X)
        BY <1>1
      <3> QED BY <2>2, <3>1
    <2> QED BY <2>1, <2>2
  <1>3. first \in D
    BY EmptySeq
  <1>4. \E f : f = [i \in 0..n |-> IF i = 0 THEN first ELSE Then(i, f[i - 1])]
    <2> HIDE DEF Then, first, n, D
    <2>1. step \in [(1..n) \X D -> D]
      BY <1>2
    <2> HIDE DEF step
    <2>2. PICK f : Repeats(n, D, first, step, f)
      BY <1>1, <1>3, <2>1, Repeated, Zenon
    <2>3. ASSUME NEW i \in 0..n PROVE f[i] = IF i = 0 THEN first ELSE Then(i, f[i - 1])
      <3>1. CASE i = 0
        BY <2>2, <3>1 DEF Repeats
      <3>2. CASE i \in 1..n
        <4>1. i - 1 \in 0..n /\ f[i - 1] \in D /\ f[i] = step[<<i, f[i - 1]>>]
          BY <1>1, <2>2, <3>2 DEF Repeats
        <4>2. step[<<i, f[i - 1]>>] = Then(i, f[i - 1])
          BY <3>2, <4>1 DEF step
        <4>3. i # 0
          BY <1>1, <3>2
        <4> QED BY <4>1, <4>2, <4>3
      <3> QED BY <1>1, <3>1, <3>2
    <2>4. f = [i \in 0..n |-> f[i]]
      BY <2>2 DEF Repeats
    <2> QED BY <2>3, <2>4
  <1>5. merge = [i \in 0..n |-> IF i = 0 THEN first ELSE Then(i, merge[i - 1])]
    <2> HIDE DEF n
    <2> QED BY <1>4
  <1>6. Inserted(theirs, ours) = merge[n].order \o merge[n].pending
    BY DEF Inserted
  <1>7. merge[0] = first /\ \A i \in 1..n : merge[i] = Then(i, merge[i - 1])
    <2> DEFINE body == [i \in 0..n |-> IF i = 0 THEN first ELSE Then(i, merge[i - 1])]
    <2> HIDE DEF merge, Then, first
    <2>1. \A i \in 0..n : merge[i] = body[i]
      BY <1>5
    <2>2. body[0] = first /\ \A i \in 1..n : body[i] = Then(i, merge[i - 1])
      BY <1>1
    <2>3. 0 \in 0..n /\ 1..n \subseteq 0..n
      BY <1>1
    <2> HIDE DEF body
    <2> QED BY <2>1, <2>2, <2>3
  <1> HIDE DEF merge
  <1>8. Done(0)
    <2>1. merge[0].order = ours /\ merge[0].pending = << >> /\ merge[0] \in D
      BY <1>3, <1>7
    <2>2. Range(<< >>) = {} /\ Distinct(<< >>)
      BY DEF Range, Distinct
    <2> HIDE DEF D
    <2> QED BY <2>1, <2>2
  <1>9. ASSUME NEW i \in 1..n, Done(i - 1) PROVE Done(i)
    <2> DEFINE done == merge[i - 1]  m == merge[i]  name == theirs[i]
    <2>1. m = Then(i, done) /\ done \in D /\ m \in D
      <3>1. done \in D
        BY <1>9
      <3> HIDE DEF D, Then, n
      <3> QED BY <1>2, <1>7, <3>1
    <2>2. /\ done.order \in Seq(X) /\ done.pending \in Seq(X) /\ name \in X
          /\ m.order \in Seq(X) /\ m.pending \in Seq(X)
      BY <1>1, <2>1
    <2>3. {theirs[j] : j \in 1..i} = {theirs[j] : j \in 1 .. i - 1} \cup {name}
      BY <1>1
    <2>4. Distinct(theirs) => name \notin {theirs[j] : j \in 1 .. i - 1}
      BY <1>1 DEF Distinct
    <2>5. CASE name \in Range(done.order)
      <3>1. m.order = InsertBefore(name, done.pending, done.order) /\ m.pending = << >>
        BY <2>1, <2>5
      <3>2. Range(<< >>) = {} /\ Distinct(<< >>)
        BY DEF Range, Distinct
      <3>3. /\ Range(m.order) = Range(done.order) \cup Range(done.pending)
            /\ Distinct(done.order) /\ Distinct(done.pending)
                  /\ Range(done.order) \cap Range(done.pending) = {} => Distinct(m.order)
        <4> DEFINE order == done.order  pending == done.pending  new == theirs[i]
        <4>1. order \in Seq(X) /\ pending \in Seq(X) /\ new \in Range(order)
          BY <2>2, <2>5
        <4> HIDE DEF order, pending, new
        <4>2. /\ InsertBefore(new, pending, order) \in Seq(X)
              /\ Range(InsertBefore(new, pending, order)) = Range(order) \cup Range(pending)
              /\ Distinct(order) /\ Distinct(pending) /\ Range(order) \cap Range(pending) = {} =>
                    Distinct(InsertBefore(new, pending, order))
          BY <4>1, InsertBeforeFacts, Zenon
        <4> QED BY <3>1, <4>2 DEF order, pending, new
      <3> HIDE DEF D
      <3> QED BY <1>9, <2>1, <2>3, <2>5, <3>1, <3>2, <3>3
    <2>6. CASE name \notin Range(done.order)
      <3>1. m.order = done.order /\ m.pending = done.pending \o <<name>>
        <4>1. m = [done EXCEPT !.pending = Append(done.pending, name)]
          BY <2>1, <2>6
        <4>2. done = [order |-> done.order, pending |-> done.pending]
          BY <2>1
        <4>3. Append(done.pending, name) = done.pending \o <<name>>
          BY <2>2, AppendIsConcat, Zenon
        <4>4. m = [order |-> done.order, pending |-> Append(done.pending, name)]
          BY <4>1, <4>2
        <4> QED BY <4>3, <4>4
      <3>2. <<name>> \in Seq(X) /\ Range(<<name>>) = {name} /\ Distinct(<<name>>)
        BY <2>2 DEF Range, Distinct
      <3>3. /\ Range(m.pending) = Range(done.pending) \cup {name}
            /\ Distinct(done.pending) /\ Range(done.pending) \cap {name} = {} => Distinct(m.pending)
        <4> DEFINE pending == done.pending  last == <<name>>
        <4>1. pending \in Seq(X) /\ last \in Seq(X)
          BY <2>2, <3>2
        <4> HIDE DEF pending, last
        <4>2. /\ Range(pending \o last) = Range(pending) \cup Range(last)
              /\ Distinct(pending) /\ Distinct(last) /\ Range(pending) \cap Range(last) = {} =>
                    Distinct(pending \o last)
          BY <4>1, ConcatFacts
        <4> QED BY <3>1, <3>2, <4>2 DEF pending, last
      <3>4. Distinct(theirs) => name \notin Range(done.pending)
        BY <1>9, <2>4
      <3>5. /\ Range(done.order) \cup Range(done.pending)
                   = Range(ours) \cup {theirs[j] : j \in 1 .. i - 1}
            /\ Range(done.pending) \subseteq {theirs[j] : j \in 1 .. i - 1}
            /\ Distinct(theirs) /\ Distinct(ours) =>
                  /\ Distinct(done.order) /\ Distinct(done.pending)
                  /\ Range(done.order) \cap Range(done.pending) = {}
        BY <1>9, Zenon
      <3>6. /\ Range(m.order) \cup Range(m.pending) = Range(ours) \cup {theirs[j] : j \in 1..i}
            /\ Range(m.pending) \subseteq {theirs[j] : j \in 1..i}
        <4> HIDE DEF name
        <4> QED BY <2>3, <3>1, <3>3, <3>5
      <3>7. Distinct(theirs) /\ Distinct(ours) =>
               /\ Distinct(m.order) /\ Distinct(m.pending)
               /\ Range(m.order) \cap Range(m.pending) = {}
        <4> HIDE DEF name
        <4> QED BY <2>6, <3>1, <3>3, <3>4, <3>5
      <3> HIDE DEF D
      <3> QED BY <2>1, <3>6, <3>7, Zenon
    <2> QED BY <2>5, <2>6
  <1>10. 0..n \subseteq S
    <2>1. ASSUME NEW i \in 1..n, i - 1 \in S PROVE i \in S
      <3>1. Done(i - 1)
        BY <2>1
      <3>2. Done(i)
        BY <1>9, <3>1
      <3>3. i \in 0..n
        BY <1>1
      <3> QED BY <3>2, <3>3
    <2>2. 0 \in 0..n
      BY <1>1
    <2>3. 0 \in S
      BY <1>8, <2>2
    <2> HIDE DEF S, n
    <2> QED BY <1>1, <2>1, <2>3, Throughout
  <1>11. Done(n)
    <2>1. n \in 0..n
      BY <1>1
    <2>2. n \in S
      BY <1>10, <2>1
    <2> HIDE DEF Done
    <2> QED BY <2>2
  <1>12. Range(theirs) = {theirs[j] : j \in 1..n}
    BY <1>1 DEF Range
  <1>13. merge[n].order \in Seq(X) /\ merge[n].pending \in Seq(X)
    BY <1>11
  <1> HIDE DEF D, n, merge
  <1> QED BY <1>6, <1>11, <1>12, <1>13, ConcatFacts
-----------------------------------------------------------------------------
(* The contents of an object.                                               *)

\* A record that lists no property twice: each has the value it is listed with.
LEMMA ListedFacts ==
    ASSUME NEW d, NEW n \in Nat, DOMAIN d.properties = 1..n,
           \A i, j \in 1..n : d.properties[i].name = d.properties[j].name => i = j
    PROVE  /\ Cardinality(Names(d)) = n
           /\ \A i \in 1..n : Property(d, d.properties[i].name) = d.properties[i].value
           /\ \A name : name \notin Names(d) => Property(d, name) = Absent
  <1> DEFINE name == [i \in 1..n |-> d.properties[i].name]
  <1>1. Names(d) = {d.properties[i].name : i \in 1..n}
    BY DEF Names
  <1>2. name \in Bijection(1..n, Names(d))
    <2>1. name \in [1..n -> Names(d)]
      BY <1>1
    <2>2. \A i, j \in 1..n : name[i] = name[j] => i = j
      OBVIOUS
    <2>3. \A x \in Names(d) : \E i \in 1..n : name[i] = x
      BY <1>1
    <2> HIDE DEF name
    <2> QED BY <2>1, <2>2, <2>3 DEF Bijection, Injection, Surjection, IsInjective
  <1>3. Cardinality(Names(d)) = n
    <2> HIDE DEF name
    <2> QED BY <1>2, FS_CountingElements DEF ExistsBijection
  <1>4. ASSUME NEW i \in 1..n
        PROVE  Property(d, d.properties[i].name) = d.properties[i].value
    <2> DEFINE x == d.properties[i].name
    <2>1. x \in Names(d) /\ d.properties[i] \in Range(d.properties)
      BY <1>1 DEF Range
    <2>2. \A p \in Range(d.properties) : p.name = x => p = d.properties[i]
      BY DEF Range
    <2>3. (CHOOSE p \in Range(d.properties) : p.name = x) = d.properties[i]
      BY <2>1, <2>2
    <2> QED BY <2>1, <2>3 DEF Property
  <1> QED BY <1>3, <1>4 DEF Property

\* A record of an input lists no property twice, and each of them with a value.
LEMMA DescribedFacts ==
    ASSUME NEW d, Described(d)
    PROVE  /\ OrderOf(d) \in Seq(Names(d)) /\ Range(OrderOf(d)) = Names(d)
           /\ Distinct(OrderOf(d))
           /\ Len(d.properties) = Cardinality(Names(d))
           /\ \A name : name \in Names(d) <=> Property(d, name) # Absent
  <1> DEFINE n == Len(d.properties)
  <1>1. n \in Nat /\ DOMAIN d.properties = 1..n
    BY DEF Described
  <1>2. \A i, j \in 1..n : /\ d.properties[i].value # Absent
                           /\ d.properties[i].name = d.properties[j].name => i = j
    BY <1>1 DEF Described
  <1> HIDE DEF n
  <1>3. /\ Cardinality(Names(d)) = n
        /\ \A i \in 1..n : Property(d, d.properties[i].name) = d.properties[i].value
        /\ \A name : name \notin Names(d) => Property(d, name) = Absent
    BY <1>1, <1>2, ListedFacts
  <1>4. Names(d) = {d.properties[i].name : i \in 1..n}
    BY <1>1 DEF Names
  <1>5. OrderOf(d) = [i \in 1..n |-> d.properties[i].name]
    BY <1>1 DEF OrderOf
  <1>6. OrderOf(d) \in [1..n -> Names(d)]
    BY <1>4, <1>5
  <1>7. OrderOf(d) \in Seq(Names(d))
    BY <1>1, <1>6
  <1>8. Range(OrderOf(d)) = Names(d) /\ Distinct(OrderOf(d))
    BY <1>2, <1>4, <1>5 DEF Range, Distinct
  <1>9. \A name \in Names(d) : Property(d, name) # Absent
    BY <1>2, <1>3, <1>4
  <1> QED BY <1>3, <1>7, <1>8, <1>9 DEF n

\* Where whole records are decided, so is each of their parts, in the same way.
LEMMA WholeContents ==
    ASSUME NEW x, NEW y, NEW z, Decided(<<x, y, z>>)
    PROVE  LET r == Selected(<<x, y, z>>)
           IN /\ Decided(<<x.outer, y.outer, z.outer>>)
              /\ r.outer = Selected(<<x.outer, y.outer, z.outer>>)
              /\ \A name : /\ Decided(PropertyVersions(<<x, y, z>>, name))
                           /\ Property(r, name) = Selected(PropertyVersions(<<x, y, z>>, name))
  <1>1. \A name : PropertyVersions(<<x, y, z>>, name) =
                     <<Property(x, name), Property(y, name), Property(z, name)>>
    BY DEF PropertyVersions
  <1>2. \A f, g, h : /\ Decided(<<f, g, h>>) <=> g = h \/ g = f \/ h = f
                     /\ Selected(<<f, g, h>>) = IF g = f THEN h ELSE g
    BY DEF Decided, Action, Selected
  <1> QED BY <1>1, <1>2

\* Where they are not, the merged record has the decided properties, each once.
LEMMA MergedContents ==
    ASSUME NEW x, NEW y, NEW z, Described(x), Described(y), Described(z)
    PROVE  LET records == <<x, y, z>>
               r == MergedRecord(records)
           IN /\ Key(r) = Key(y) /\ r.outer = y.outer
              /\ Len(r.properties) = Cardinality(Names(r))
              /\ \A name : /\ Property(r, name) = Selected(PropertyVersions(records, name))
                           /\ name \notin PropertyNames(records) =>
                                 Decided(PropertyVersions(records, name))
  <1> DEFINE records == <<x, y, z>>
             r == MergedRecord(records)
             order == MergedOrder(records)
             n == Len(order)
             names == {m \in PropertyNames(records) : SelectedValue(records, m) # Absent}
             X == PropertyNames(records)
  <1>1. X = Names(x) \cup Names(y) \cup Names(z)
    BY DEF PropertyNames
  <1>2. \A m : PropertyVersions(records, m) = <<Property(x, m), Property(y, m), Property(z, m)>>
    BY DEF PropertyVersions
  <1>3. \A f, g, h : /\ Decided(<<f, g, h>>) <=> g = h \/ g = f \/ h = f
                     /\ Selected(<<f, g, h>>) = IF g = f THEN h ELSE g
    BY DEF Decided, Action, Selected
  <1>4. \A m : m \notin X => /\ Decided(PropertyVersions(records, m))
                             /\ Selected(PropertyVersions(records, m)) = Absent
    <2>1. \A m : m \notin X => Property(x, m) = Absent /\ Property(y, m) = Absent /\ Property(z, m) = Absent
      BY <1>1 DEF Property
    <2> HIDE DEF X
    <2> QED BY <1>2, <1>3, <2>1
  <1>5. names \subseteq Names(y) \cup Names(z)
    <2>1. \A m : m \notin Names(y) \cup Names(z) => Property(y, m) = Absent /\ Property(z, m) = Absent
      BY DEF Property
    <2>2. \A m : SelectedValue(records, m) \in {Property(y, m), Property(z, m)}
      BY <1>2, <1>3 DEF SelectedValue
    <2> QED BY <2>1, <2>2
  <1>6. order \in Seq(X) /\ Range(order) = names /\ Distinct(order)
    <2>1. /\ OrderOf(y) \in Seq(X) /\ Range(OrderOf(y)) = Names(y) /\ Distinct(OrderOf(y))
          /\ OrderOf(z) \in Seq(X) /\ Range(OrderOf(z)) = Names(z) /\ Distinct(OrderOf(z))
      <3>1. Seq(Names(y)) \subseteq Seq(X) /\ Seq(Names(z)) \subseteq Seq(X)
        BY <1>1, SeqMonotonic
      <3> QED BY <3>1, DescribedFacts
    <2> DEFINE theirs == Kept(OrderOf(z), names)  ours == Kept(OrderOf(y), names)
    <2> HIDE DEF names, X
    <2>2. /\ theirs \in Seq(X) /\ Range(theirs) = Names(z) \cap names /\ Distinct(theirs)
          /\ ours \in Seq(X) /\ Range(ours) = Names(y) \cap names /\ Distinct(ours)
      BY <2>1, KeptFacts
    <2> HIDE DEF theirs, ours
    <2>3. /\ Inserted(theirs, ours) \in Seq(X)
          /\ Range(Inserted(theirs, ours)) = Range(theirs) \cup Range(ours)
          /\ Distinct(Inserted(theirs, ours))
      BY <2>2, InsertedFacts
    <2>4. order = Inserted(theirs, ours)
      BY DEF MergedOrder, theirs, ours, names
    <2> HIDE DEF order
    <2> QED BY <1>5, <2>2, <2>3, <2>4
  <1>7. r = [y EXCEPT !.properties =
               [i \in DOMAIN order |-> [name |-> order[i], value |-> SelectedValue(records, order[i])]]]
    BY DEF MergedRecord
  <1>8. n \in Nat /\ DOMAIN order = 1..n
    BY <1>6
  <1> HIDE DEF order, n
  <1>9. y = [type |-> y.type, object |-> y.object, outer |-> y.outer, properties |-> y.properties]
    BY DEF Described
  <1>10. /\ r = [type |-> y.type, object |-> y.object, outer |-> y.outer, properties |-> r.properties]
         /\ r.properties =
               [i \in 1..n |-> [name |-> order[i], value |-> SelectedValue(records, order[i])]]
    BY <1>7, <1>8, <1>9
  <1> HIDE DEF r
  <1>11. Key(r) = Key(y) /\ r.outer = y.outer
    BY <1>10 DEF Key
  <1>12. /\ Cardinality(Names(r)) = n
         /\ \A i \in 1..n : Property(r, order[i]) = SelectedValue(records, order[i])
         /\ \A name : name \notin Names(r) => Property(r, name) = Absent
    <2>1. /\ DOMAIN r.properties = 1..n
          /\ \A i \in 1..n : /\ r.properties[i].name = order[i]
                             /\ r.properties[i].value = SelectedValue(records, order[i])
      BY <1>10
    <2>2. \A i, j \in 1..n : r.properties[i].name = r.properties[j].name => i = j
      BY <1>6, <1>8, <2>1 DEF Distinct
    <2>3. /\ Cardinality(Names(r)) = n
          /\ \A i \in 1..n : Property(r, r.properties[i].name) = r.properties[i].value
          /\ \A name : name \notin Names(r) => Property(r, name) = Absent
      BY <1>8, <2>1, <2>2, ListedFacts
    <2> QED BY <2>1, <2>3
  <1>13. Len(r.properties) = n
    <2>1. r.properties \in Seq({[name |-> order[i], value |-> SelectedValue(records, order[i])] : i \in 1..n})
      BY <1>8, <1>10
    <2> QED BY <1>8, <1>10, <2>1
  <1>14. Names(r) = names
    <2>1. Names(r) = {order[i] : i \in 1..n}
      BY <1>8, <1>10 DEF Names
    <2> HIDE DEF names
    <2> QED BY <1>6, <1>8, <2>1 DEF Range
  <1>15. \A name : Property(r, name) = Selected(PropertyVersions(records, name))
    <2>1. ASSUME NEW name \in names PROVE Property(r, name) = SelectedValue(records, name)
      <3>1. PICK i \in 1..n : name = order[i]
        BY <1>6, <1>8, <2>1 DEF Range
      <3> QED BY <1>12, <3>1
    <2>2. ASSUME NEW name, name \notin names
          PROVE  Property(r, name) = Absent /\ Selected(PropertyVersions(records, name)) = Absent
      BY <1>4, <1>12, <1>14, <2>2 DEF SelectedValue
    <2> QED BY <2>1, <2>2 DEF SelectedValue
  <1> HIDE DEF records, X
  <1> QED BY <1>4, <1>11, <1>12, <1>13, <1>15 DEF records, X, r
-----------------------------------------------------------------------------
(* What the candidate holds.                                                *)

TextPaths(c) == {ScopePath(c.base, s) : s \in MergedScopes(c)}
SplicePaths(c) == {Selected(PathsOf(c, k)) : k \in MergedObjects(c)}

LEMMA CandidateShape ==
    ASSUME NEW c
    PROVE  LET m == Candidate(c)
               left == {q \in Paths(c) \ Covered(c) : Selected(Versions(c, q)) # Absent}
           IN /\ m = [p \in DOMAIN m |-> m[p]]
              /\ DOMAIN m = TextPaths(c) \cup SplicePaths(c) \cup left
              /\ \A p \in TextPaths(c) : m[p] = MergedText(c, ScopeOf(c.base, p)).candidate
              /\ \A p \in SplicePaths(c) : p \notin TextPaths(c) =>
                    m[p] = MergedRecord(RecordsOf(c, CHOOSE k \in MergedObjects(c) :
                                                       Selected(PathsOf(c, k)) = p))
              /\ \A p \in left : p \notin TextPaths(c) /\ p \notin SplicePaths(c) =>
                    m[p] = Selected(Versions(c, p))
  <1> DEFINE m == Candidate(c)
             left == {q \in Paths(c) \ Covered(c) : Selected(Versions(c, q)) # Absent}
             texts == [p \in TextPaths(c) |-> MergedText(c, ScopeOf(c.base, p)).candidate]
             objects == [p \in SplicePaths(c) |->
                           MergedRecord(RecordsOf(c, CHOOSE k \in MergedObjects(c) :
                                                        Selected(PathsOf(c, k)) = p))]
             chosen == [p \in left |-> Selected(Versions(c, p))]
  <1>1. m = Over(texts, Over(objects, chosen))
    BY DEF Candidate, Chosen, TextPaths, SplicePaths
  <1>2. /\ DOMAIN texts = TextPaths(c) /\ DOMAIN objects = SplicePaths(c) /\ DOMAIN chosen = left
        /\ \A p \in TextPaths(c) : texts[p] = MergedText(c, ScopeOf(c.base, p)).candidate
        /\ \A p \in SplicePaths(c) : objects[p] =
              MergedRecord(RecordsOf(c, CHOOSE k \in MergedObjects(c) : Selected(PathsOf(c, k)) = p))
        /\ \A p \in left : chosen[p] = Selected(Versions(c, p))
    OBVIOUS
  <1> HIDE DEF texts, objects, chosen, left, m
  <1>3. /\ m = [p \in DOMAIN m |-> m[p]]
        /\ DOMAIN m = DOMAIN texts \cup DOMAIN objects \cup DOMAIN chosen
        /\ \A p \in DOMAIN texts : m[p] = texts[p]
        /\ \A p \in DOMAIN objects : p \notin DOMAIN texts => m[p] = objects[p]
        /\ \A p \in DOMAIN chosen : p \notin DOMAIN texts /\ p \notin DOMAIN objects => m[p] = chosen[p]
    BY <1>1 DEF Over
  <1> QED BY <1>2, <1>3 DEF left, m

\* A merged object is at its chosen path, spliced.
LEMMA SplicedObject ==
    ASSUME NEW c, Ready(c), NEW k \in MergedObjects(c)
    PROVE  LET m == Candidate(c)  p == Selected(PathsOf(c, k))
           IN /\ p \in DOMAIN m /\ p[2] = "xml"
              /\ m[p] = MergedRecord(RecordsOf(c, k))
              /\ \E t \in Trees(c) : p = PathOf(t, k) /\ p # Absent
  <1> DEFINE m == Candidate(c)  p == Selected(PathsOf(c, k))
  <1>1. \A l : Selected(PathsOf(c, l)) \in {PathOf(t, l) : t \in Trees(c)}
    BY ExpandedSides, DecisionFacts DEF Trees
  <1>2. ASSUME NEW l \in MergedObjects(c), NEW t \in Trees(c)
        PROVE  l \in ObjectKeys(c) /\ PathOf(t, l) # Absent
    BY MergedObjectFacts, Passed, ObjectFacts
  <1>3. PICK t \in Trees(c) : p = PathOf(t, k)
    BY <1>1
  <1>4. p # Absent /\ p[2] = "xml" /\ p \in DOMAIN t /\ KeyAt(t, p) = k
    BY <1>2, <1>3, OneObjectPerPath
  <1>5. ASSUME NEW l \in MergedObjects(c), Selected(PathsOf(c, l)) = p PROVE l = k
    <2>1. PICK v \in Trees(c) : p = PathOf(v, l)
      BY <1>1, <1>5
    <2>2. KeyAt(t, p) = l
      BY <1>2, <1>4, <2>1, OneObjectPerPath
    <2> QED BY <1>4, <2>2
  <1>6. (CHOOSE l \in MergedObjects(c) : Selected(PathsOf(c, l)) = p) = k
    BY <1>5
  <1>7. p \in SplicePaths(c)
    BY DEF SplicePaths
  <1>8. p \notin TextPaths(c)
    BY <1>4, MergedScopeFacts DEF TextPaths
  <1>9. p \in DOMAIN m /\ m[p] = MergedRecord(RecordsOf(c, k))
    BY <1>6, <1>7, <1>8, CandidateShape
  <1> QED BY <1>3, <1>4, <1>9

\* Any other object that is to stay is at its chosen path, with its chosen bytes.
LEMMA ChosenRecord ==
    ASSUME NEW c, Ready(c), NEW k \in ObjectKeys(c), k \notin MergedObjects(c),
           Selected(PathsOf(c, k)) # Absent
    PROVE  LET m == Candidate(c)  p == Selected(PathsOf(c, k))
           IN /\ p \in DOMAIN m /\ p[2] = "xml"
              /\ m[p] = Selected(RecordsOf(c, k)) /\ Key(m[p]) = k
  <1> DEFINE m == Candidate(c)  p == Selected(PathsOf(c, k))
  <1>1. PICK t \in Trees(c) : p = PathOf(t, k) /\ Selected(RecordsOf(c, k)) = RecordOf(t, k)
    BY WholeObject
  <1>2. p # Absent /\ p[2] = "xml" /\ p \in DOMAIN t
    BY <1>1, OneObjectPerPath
  <1>3. k \in Keys(t) /\ Key(RecordOf(t, k)) = k /\ RecordOf(t, k) # Absent
    BY <1>1, <1>2, Passed, ObjectFacts
  <1>4. p \in Paths(c) \ Covered(c)
    BY <1>1, <1>2, CoveredObject DEF Paths
  <1>5. Selected(Versions(c, p)) = RecordOf(t, k)
    BY <1>1, <1>2, WholeObject
  <1>6. p \notin TextPaths(c) /\ p \notin SplicePaths(c)
    <2>1. p \notin TextPaths(c)
      BY <1>2, MergedScopeFacts DEF TextPaths
    <2>2. ASSUME NEW l \in MergedObjects(c), p = Selected(PathsOf(c, l)) PROVE FALSE
      <3>1. \E v \in Trees(c) : p = PathOf(v, l)
        BY <2>2, SplicedObject
      <3> QED BY <1>4, <3>1, CoveredFacts
    <2> QED BY <2>1, <2>2 DEF SplicePaths
  <1>7. p \in DOMAIN m /\ m[p] = RecordOf(t, k)
    BY <1>3, <1>4, <1>5, <1>6, CandidateShape
  <1> QED BY <1>1, <1>2, <1>3, <1>7

\* And the candidate has no other descriptor.
LEMMA NoOtherDescriptor ==
    ASSUME NEW c, Ready(c), NEW p \in Descriptors(Candidate(c))
    PROVE  \E k \in ObjectKeys(c) : p = Selected(PathsOf(c, k)) /\ p # Absent
  <1>1. p \in DOMAIN Candidate(c) /\ p[2] = "xml"
    BY DEF Descriptors
  <1>2. p \notin TextPaths(c)
    BY <1>1, MergedScopeFacts DEF TextPaths
  <1>3. CASE p \in SplicePaths(c)
    <2>1. PICK k \in MergedObjects(c) : p = Selected(PathsOf(c, k))
      BY <1>3 DEF SplicePaths
    <2> QED BY <2>1, SplicedObject, MergedObjectFacts
  <1>4. CASE p \notin SplicePaths(c)
    <2>1. p \in Paths(c) /\ p \notin Covered(c) /\ Selected(Versions(c, p)) # Absent
      BY <1>1, <1>2, <1>4, CandidateShape
    <2>2. PICK t \in Trees(c) : p \in DOMAIN t
      BY <2>1 DEF Paths
    <2> DEFINE k == Key(t[p])
    <2>3. p \in Descriptors(t) /\ k \in Keys(t) /\ k \in ObjectKeys(c)
      BY <1>1, <2>2 DEF Descriptors, Keys, ObjectKeys
    <2>4. PathOf(t, k) = p /\ p # Absent
      BY <2>3, Passed, ObjectFacts
    <2>5. k \notin MergedObjects(c)
      BY <2>1, <2>3, <2>4, CoveredObject
    <2>6. p = Selected(PathsOf(c, k))
      BY <2>1, <2>3, <2>4, <2>5, WholeObject
    <2> QED BY <2>3, <2>4, <2>6
  <1> QED BY <1>3, <1>4

\* So every object of the candidate is one of the inputs' objects, at its chosen path.
LEMMA CandidateObjects ==
    ASSUME NEW c, Ready(c)
    PROVE  LET m == Candidate(c)
           IN /\ Keys(m) = {k \in ObjectKeys(c) : Selected(PathsOf(c, k)) # Absent}
              /\ \A k : k \notin Keys(m) => PathOf(m, k) = Absent /\ RecordOf(m, k) = Absent
              /\ \A k \in Keys(m) :
                    /\ PathOf(m, k) = Selected(PathsOf(c, k))
                    /\ RecordOf(m, k) = IF k \in MergedObjects(c) THEN MergedRecord(RecordsOf(c, k))
                                        ELSE Selected(RecordsOf(c, k))
              /\ \A p \in Descriptors(m) : \E t \in Trees(c) :
                    p \in DOMAIN t /\ KeyAt(t, p) = KeyAt(m, p)
  <1> DEFINE m == Candidate(c)
  <1>1. ASSUME NEW k \in ObjectKeys(c), Selected(PathsOf(c, k)) # Absent
        PROVE  LET p == Selected(PathsOf(c, k))
               IN /\ p \in Descriptors(m) /\ Key(m[p]) = k
                  /\ m[p] = IF k \in MergedObjects(c) THEN MergedRecord(RecordsOf(c, k))
                            ELSE Selected(RecordsOf(c, k))
                  /\ \E t \in Trees(c) : p \in DOMAIN t /\ KeyAt(t, p) = k
    <2> DEFINE p == Selected(PathsOf(c, k))
    <2>1. CASE k \in MergedObjects(c)
      <3>1. /\ p \in DOMAIN m /\ p[2] = "xml" /\ m[p] = MergedRecord(RecordsOf(c, k))
            /\ \E t \in Trees(c) : p = PathOf(t, k)
        BY <2>1, SplicedObject
      <3>2. \A t \in Trees(c) : Described(RecordOf(t, k)) /\ Key(RecordOf(t, k)) = k
        BY <2>1, MergedObjectFacts, Passed, ObjectFacts
      <3>3. Key(m[p]) = k
        BY <3>1, <3>2, ExpandedSides, MergedContents DEF Trees
      <3>4. \E t \in Trees(c) : p \in DOMAIN t /\ KeyAt(t, p) = k
        BY <1>1, <3>1, OneObjectPerPath
      <3> QED BY <2>1, <3>1, <3>3, <3>4 DEF Descriptors
    <2>2. CASE k \notin MergedObjects(c)
      <3>1. /\ p \in DOMAIN m /\ p[2] = "xml"
            /\ m[p] = Selected(RecordsOf(c, k)) /\ Key(m[p]) = k
        BY <1>1, <2>2, ChosenRecord
      <3>2. \E t \in Trees(c) : p = PathOf(t, k)
        BY <2>2, WholeObject
      <3>3. \E t \in Trees(c) : p \in DOMAIN t /\ KeyAt(t, p) = k
        BY <1>1, <3>2, OneObjectPerPath
      <3> QED BY <2>2, <3>1, <3>3 DEF Descriptors
    <2> QED BY <2>1, <2>2
  <1>2. ASSUME NEW p \in Descriptors(m)
        PROVE  Key(m[p]) \in ObjectKeys(c) /\ p = Selected(PathsOf(c, Key(m[p]))) /\ p # Absent
    BY <1>1, NoOtherDescriptor
  <1>3. Keys(m) = {k \in ObjectKeys(c) : Selected(PathsOf(c, k)) # Absent}
    BY <1>1, <1>2 DEF Keys
  <1>4. ASSUME NEW k \in Keys(m)
        PROVE  /\ PathOf(m, k) = Selected(PathsOf(c, k))
               /\ RecordOf(m, k) = m[PathOf(m, k)]
    BY <1>2, <1>4 DEF Keys, PathOf, RecordOf
  <1>5. \A k : k \notin Keys(m) => PathOf(m, k) = Absent /\ RecordOf(m, k) = Absent
    BY DEF PathOf, RecordOf
  <1>6. ASSUME NEW p \in Descriptors(m)
        PROVE  \E t \in Trees(c) : p \in DOMAIN t /\ KeyAt(t, p) = KeyAt(m, p)
    BY <1>1, <1>2 DEF KeyAt
  <1> HIDE DEF m
  <1>7. \A k \in Keys(m) : RecordOf(m, k) =
           IF k \in MergedObjects(c) THEN MergedRecord(RecordsOf(c, k)) ELSE Selected(RecordsOf(c, k))
    BY <1>1, <1>3, <1>4
  <1> QED BY <1>3, <1>4, <1>5, <1>6, <1>7 DEF m
-----------------------------------------------------------------------------
(* The properties of a candidate.                                           *)

\* An object all trees have is woven, whether it was decided whole or spliced.
LEMMA SharedObject ==
    ASSUME NEW c, Ready(c), NEW k \in ObjectKeys(c), InAll(c, k)
    PROVE  LET m == Candidate(c)  records == RecordsOf(c, k)  merged == RecordOf(m, k)
           IN /\ Decided(PathsOf(c, k)) /\ PathOf(m, k) = Selected(PathsOf(c, k))
              /\ Decided(OutersOf(c, k)) /\ merged.outer = Selected(OutersOf(c, k))
              /\ Len(merged.properties) = Cardinality(Names(merged))
              /\ \A n \in PropertyNames(records) \cup Names(merged) :
                    /\ Decided(PropertyVersions(records, n))
                    /\ Property(merged, n) = Selected(PropertyVersions(records, n))
  <1> DEFINE m == Candidate(c)  records == RecordsOf(c, k)  merged == RecordOf(m, k)
             x == RecordOf(c.base, k)  y == RecordOf(c.current, k)  z == RecordOf(c.upstream, k)
  <1>1. \A t \in Trees(c) : PathOf(t, k) # Absent /\ Described(RecordOf(t, k))
    BY Passed, ObjectFacts DEF InAll
  <1>2. /\ records = <<x, y, z>> /\ OutersOf(c, k) = <<x.outer, y.outer, z.outer>>
        /\ Selected(PathsOf(c, k)) \in {PathOf(t, k) : t \in Trees(c)}
    BY ExpandedSides, DecisionFacts DEF Trees
  <1>3. Selected(PathsOf(c, k)) # Absent
    BY <1>1, <1>2
  <1>4. /\ k \in Keys(m) /\ PathOf(m, k) = Selected(PathsOf(c, k))
        /\ merged = IF k \in MergedObjects(c) THEN MergedRecord(records) ELSE Selected(records)
    BY <1>3, CandidateObjects
  <1>5. Described(x) /\ Described(y) /\ Described(z)
    BY <1>1 DEF Trees
  <1> HIDE DEF m, x, y, z, records, merged
  <1>6. CASE k \in MergedObjects(c)
    <2>1. Decided(PathsOf(c, k)) /\ Action(OutersOf(c, k)) = "unchanged"
          /\ "conflict" \notin PropertyActions(records)
      BY <1>6, MergedObjectFacts DEF DisjointChanges, records
    <2>2. /\ merged.outer = y.outer
          /\ Len(merged.properties) = Cardinality(Names(merged))
          /\ \A n : /\ Property(merged, n) = Selected(PropertyVersions(records, n))
                    /\ n \notin PropertyNames(records) => Decided(PropertyVersions(records, n))
      BY <1>2, <1>4, <1>5, <1>6, MergedContents
    <2>3. Decided(OutersOf(c, k)) /\ Selected(OutersOf(c, k)) = y.outer
      BY <1>2, <2>1, DecisionFacts
    <2>4. \A n \in PropertyNames(records) : Decided(PropertyVersions(records, n))
      BY <2>1 DEF PropertyActions, Decided
    <2> QED BY <1>4, <2>1, <2>2, <2>3, <2>4 DEF m, records, merged
  <1>7. CASE k \notin MergedObjects(c)
    <2>1. Decided(PathsOf(c, k)) /\ Decided(<<x, y, z>>) /\ merged = Selected(<<x, y, z>>)
      BY <1>2, <1>4, <1>7, WholeObject DEF records
    <2>2. Described(merged)
      BY <1>5, <2>1, DecisionFacts
    <2>3. /\ Decided(<<x.outer, y.outer, z.outer>>)
          /\ merged.outer = Selected(<<x.outer, y.outer, z.outer>>)
          /\ \A n : /\ Decided(PropertyVersions(<<x, y, z>>, n))
                    /\ Property(merged, n) = Selected(PropertyVersions(<<x, y, z>>, n))
      <3>1. /\ Decided(<<x.outer, y.outer, z.outer>>)
            /\ Selected(<<x, y, z>>).outer = Selected(<<x.outer, y.outer, z.outer>>)
            /\ \A n : /\ Decided(PropertyVersions(<<x, y, z>>, n))
                      /\ Property(Selected(<<x, y, z>>), n) = Selected(PropertyVersions(<<x, y, z>>, n))
        <4>1. Decided(<<x, y, z>>)
          BY <2>1
        <4> QED BY ONLY <4>1, WholeContents
      <3> QED BY <2>1, <3>1
    <2>4. Len(merged.properties) = Cardinality(Names(merged))
      BY <2>2, DescribedFacts, Zenon
    <2> QED BY <1>2, <1>4, <2>1, <2>3, <2>4 DEF m, records, merged
  <1> QED BY <1>6, <1>7

\* An object that a tree lacks is chosen whole.
LEMMA PartialObject ==
    ASSUME NEW c, Ready(c), NEW k \in ObjectKeys(c), ~InAll(c, k)
    PROVE  LET m == Candidate(c)
           IN /\ Decided(PathsOf(c, k)) /\ PathOf(m, k) = Selected(PathsOf(c, k))
              /\ Decided(RecordsOf(c, k)) /\ RecordOf(m, k) = Selected(RecordsOf(c, k))
  <1>1. k \notin MergedObjects(c)
    BY MergedObjectFacts DEF InAll
  <1> QED BY <1>1, WholeObject, CandidateObjects

\* A companion has an owner in every tree that has it.
LEMMA CompanionsOwned ==
    ASSUME NEW c, Ready(c), NEW t \in Trees(c), NEW p \in Companions(t)
    PROVE  OwnerOf(t, p) # Nobody
  <1> SUFFICES ASSUME OwnerOf(t, p) = Nobody PROVE FALSE
    OBVIOUS
  <1> DEFINE s == <<Nobody, p>>
  <1>1. ScopeOf(t, p) = s
    BY DEF ScopeOf
  <1>2. s \in Scopes(c) /\ ScopePath(t, s) \in Companions(t) /\ ScopeOf(t, ScopePath(t, s)) = s
    BY <1>1 DEF Scopes, ScopePath
  <1>3. OwnerOf(t, ScopePath(t, s)) = Nobody
    BY <1>2 DEF ScopeOf
  <1>4. ScopePath(t, s) # Absent
    BY <1>2, Passed, TreeAssumption DEF Companions
  <1>5. "owner_not_found" \in CompanionReasons(t, ScopePath(t, s))
    BY <1>3 DEF CompanionReasons
  <1>6. ScopeReasons(c, s) # {}
    BY <1>4, <1>5 DEF ScopeReasons
  <1> QED BY <1>2, <1>6, Passed

\* And the candidate leaves it with that owner.
LEMMA CompanionsStay ==
    ASSUME NEW c, Ready(c), NEW p \in Companions(Candidate(c)),
           NEW t \in Trees(c), p \in DOMAIN t
    PROVE  OwnerOf(t, p) = OwnerOf(Candidate(c), p)
  <1> DEFINE m == Candidate(c)  q == <<p[1], "xml">>
  <1>1. OwnerOf(m, p) # Nobody
    <2>1. CompanionReasons(m, p) = {}
      BY DEF Ready, CandidateReasons
    <2> QED BY <2>1 DEF CompanionReasons
  <1>2. p \in Companions(t)
    BY DEF Companions
  <1>3. OwnerOf(t, p) # Nobody
    BY <1>2, CompanionsOwned
  <1>4. q \in Descriptors(m) /\ q \in Descriptors(t)
    BY <1>1, <1>3 DEF OwnerOf, KeyAt
  <1>5. PICK v \in Trees(c) : q \in DOMAIN v /\ KeyAt(v, q) = KeyAt(m, q)
    BY <1>4, CandidateObjects
  <1>6. KeyAt(t, q) = KeyAt(v, q)
    BY <1>4, <1>5, Passed DEF Descriptors
  <1> QED BY <1>5, <1>6 DEF OwnerOf

\* Files that are no descriptor are decided by path, texts by their merge.
LEMMA OtherFiles ==
    ASSUME NEW c, Ready(c), NEW p \in Paths(c) \cup DOMAIN Candidate(c), p[2] # "xml"
    PROVE  LET m == Candidate(c)
           IN IF Decided(Versions(c, p))
              THEN Get(m, p) = Selected(Versions(c, p))
              ELSE /\ p[2] = "bsl"
                   /\ m[p] = MaterializeBsl(c.base[p], c.current[p], c.upstream[p]).candidate
  <1> DEFINE m == Candidate(c)
  <1>1. p \notin SplicePaths(c)
    BY SplicedObject DEF SplicePaths
  <1>2. CASE p \in TextPaths(c)
    <2>1. PICK s \in MergedScopes(c) : p = ScopePath(c.base, s)
      BY <1>2 DEF TextPaths
    <2>2. /\ p[2] = "bsl" /\ ScopeOf(c.base, p) = s /\ \A t \in Trees(c) : p \in DOMAIN t
          /\ ~Decided(Versions(c, p)) /\ ScopeFiles(c, s) = Versions(c, p)
      BY <2>1, MergedScopeFacts
    <2>3. Versions(c, p) = <<c.base[p], c.current[p], c.upstream[p]>>
      BY <2>2, ExpandedSides DEF Get, Trees
    <2>4. MergedText(c, s) = MaterializeBsl(c.base[p], c.current[p], c.upstream[p])
      BY <2>2, <2>3 DEF MergedText
    <2>5. m[p] = MergedText(c, ScopeOf(c.base, p)).candidate
      BY <1>2, CandidateShape
    <2> QED BY <2>2, <2>4, <2>5
  <1>3. CASE p \notin TextPaths(c)
    <2>1. p \notin Covered(c)
      <3>1. \A k \in MergedObjects(c), t \in Trees(c) : PathOf(t, k) # p
        BY MergedObjectFacts, Passed, ObjectFacts DEF Descriptors
      <3> QED BY <1>3, <3>1, CoveredFacts DEF TextPaths
    <2>2. p \in Paths(c)
      BY <1>1, <1>3, CandidateShape
    <2>3. Decided(Versions(c, p))
      BY <2>1, <2>2, Passed
    <2>4. CASE Selected(Versions(c, p)) # Absent
      BY <1>1, <1>3, <2>1, <2>2, <2>3, <2>4, CandidateShape DEF Get
    <2>5. CASE Selected(Versions(c, p)) = Absent
      BY <1>1, <1>3, <2>3, <2>5, CandidateShape DEF Get
    <2> QED BY <2>4, <2>5
  <1> QED BY <1>2, <1>3

\* A merged object, like a merged text, is there because of a path that could
\* not be decided.
LEMMA SplicedForConflict ==
    ASSUME NEW c, Ready(c), NEW k \in MergedObjects(c)
    PROVE  PathConflicts(c) # {}
  <1> DEFINE a == PathOf(c.base, k)  b == PathOf(c.current, k)  d == PathOf(c.upstream, k)
             x == RecordOf(c.base, k)  y == RecordOf(c.current, k)  z == RecordOf(c.upstream, k)
  <1>1. PathsOf(c, k) = <<a, b, d>> /\ RecordsOf(c, k) = <<x, y, z>>
    BY ExpandedSides
  <1>2. \A t \in Trees(c) : PathOf(t, k) # Absent /\ RecordOf(t, k) # Absent
    BY MergedObjectFacts, Passed, ObjectFacts
  <1>3. x # y /\ y # z /\ x # z
    <2>1. {"keep_current", "take_upstream"} \subseteq PropertyActions(<<x, y, z>>)
      BY <1>1, MergedObjectFacts DEF DisjointChanges
    <2>2. \A n : PropertyVersions(<<x, y, z>>, n) = <<Property(x, n), Property(y, n), Property(z, n)>>
      BY DEF PropertyVersions
    <2>3. \E n : Action(<<Property(x, n), Property(y, n), Property(z, n)>>) = "keep_current"
      BY <2>1, <2>2 DEF PropertyActions
    <2>4. \E n : Action(<<Property(x, n), Property(y, n), Property(z, n)>>) = "take_upstream"
      BY <2>1, <2>2 DEF PropertyActions
    <2> QED BY <2>3, <2>4, DecisionFacts
  <1>4. b = d \/ b = a \/ d = a
    BY <1>1, MergedObjectFacts, DecisionFacts
  <1>5. \E t \in Trees(c) : ~Decided(
           <<IF a = PathOf(t, k) THEN x ELSE Absent, IF b = PathOf(t, k) THEN y ELSE Absent,
             IF d = PathOf(t, k) THEN z ELSE Absent>>)
    <2>1. \A f, g, h : Decided(<<f, g, h>>) <=> g = h \/ g = f \/ h = f
      BY DEF Decided, Action
    <2>2. c.current \in Trees(c) /\ c.upstream \in Trees(c)
      BY DEF Trees
    <2>3. x # Absent /\ y # Absent /\ z # Absent
      BY <1>2 DEF Trees
    <2>4. CASE b = d \/ b = a
      <3>1. ~Decided(<<IF a = b THEN x ELSE Absent, IF b = b THEN y ELSE Absent,
                       IF d = b THEN z ELSE Absent>>)
        BY <1>3, <2>1, <2>3, <2>4
      <3> QED BY <2>2, <3>1
    <2>5. CASE d = a
      <3>1. ~Decided(<<IF a = d THEN x ELSE Absent, IF b = d THEN y ELSE Absent,
                       IF d = d THEN z ELSE Absent>>)
        BY <1>3, <2>1, <2>3, <2>5
      <3> QED BY <2>2, <3>1
    <2> QED BY <1>4, <2>4, <2>5
  <1>6. PICK t \in Trees(c) : ~Decided(Versions(c, PathOf(t, k)))
    BY <1>2, <1>5, VersionsOfObject, MergedObjectFacts
  <1>7. PathOf(t, k) \in Paths(c)
    BY <1>2, MergedObjectFacts, OneObjectPerPath DEF Paths
  <1> QED BY <1>6, <1>7 DEF PathConflicts, Decided

LEMMA SameAsPathMerge ==
    ASSUME NEW c, Ready(c), PathConflicts(c) = {}
    PROVE  Candidate(c) = Chosen(c, Paths(c))
  <1> DEFINE m == Candidate(c)
             left == {q \in Paths(c) \ Covered(c) : Selected(Versions(c, q)) # Absent}
  <1>1. MergedObjects(c) = {}
    BY SplicedForConflict
  <1>2. MergedScopes(c) = {}
    <2> SUFFICES ASSUME NEW s \in MergedScopes(c) PROVE FALSE
      OBVIOUS
    <2>1. c.base \in Trees(c)
      BY DEF Trees
    <2> QED BY <2>1, MergedScopeFacts DEF PathConflicts, Paths, Decided
  <1>3. Covered(c) = {} /\ TextPaths(c) = {} /\ SplicePaths(c) = {}
    BY <1>1, <1>2 DEF Covered, TextPaths, SplicePaths
  <1>4. left = {q \in Paths(c) : Selected(Versions(c, q)) # Absent}
    BY <1>3
  <1>5. m = [p \in left |-> m[p]] /\ \A p \in left : m[p] = Selected(Versions(c, p))
    BY <1>3, CandidateShape
  <1> HIDE DEF m
  <1>6. m = [p \in {q \in Paths(c) : Selected(Versions(c, q)) # Absent} |-> Selected(Versions(c, p))]
    BY <1>4, <1>5
  <1> QED BY <1>6 DEF Chosen, m

-----------------------------------------------------------------------------
(* Every answer is the materialization of its call.                         *)

Materialization(c) ==
    CASE c.scope = "bsl-text-v1"            -> MaterializeBsl(c.base, c.current, c.upstream)
      [] c.scope = "path-bytes-v1"          -> MaterializedPaths(c)
      [] c.scope = "metadata-properties-v1" -> MaterializedMetadata(c)

Calls == [scope : {"bsl-text-v1"}, base : Texts, current : Texts, upstream : Texts]
         \cup [scope : {"path-bytes-v1", "metadata-properties-v1"},
               base : Inputs, current : Inputs, upstream : Inputs]

Answered == call \in Calls /\ answer \in {NoAnswer, Materialization(call)}

LEMMA StepsAnswer ==
    ASSUME Answered, [MergeNext]_mergeVars
    PROVE  Answered'
  <1>1. CASE MaterializeText
    BY <1>1 DEF MaterializeText, Returns, Answered, Materialization
  <1>2. CASE MaterializePaths
    BY <1>2 DEF MaterializePaths, Returns, Answered, Materialization
  <1>3. CASE MaterializeMetadata
    BY <1>3 DEF MaterializeMetadata, Returns, Answered, Materialization
  <1>4. CASE UNCHANGED mergeVars
    BY <1>4 DEF mergeVars, Answered, Materialization
  <1> QED BY <1>1, <1>2, <1>3, <1>4 DEF MergeNext

LEMMA AlwaysAnswered == MergeSpec => []Answered
  <1>1. MergeInit => Answered
    BY DEF MergeInit, Answered, Calls
  <1> QED BY <1>1, StepsAnswer, PTL DEF MergeSpec

LEMMA ReadyMetadata ==
    ASSUME Answered, call.scope = "metadata-properties-v1", answer.status = "ready"
    PROVE  Ready(call) /\ answer.candidate = Candidate(call)
  <1>1. call \in [scope : {"path-bytes-v1", "metadata-properties-v1"},
                  base : Inputs, current : Inputs, upstream : Inputs]
    BY DEF Answered, Calls
  <1>2. Arguments(call)
    BY <1>1 DEF Arguments, Trees
  <1>3. answer = MaterializedMetadata(call)
    BY DEF Answered, NoAnswer, Materialization
  <1>4. /\ \A t \in Trees(call) : ~Ambiguous(t)
        /\ Blockers(call) = {} /\ TextReasons(call) = {}
        /\ CandidateReasons(Candidate(call)) = {}
        /\ answer = [status |-> "ready", candidate |-> Candidate(call)]
    BY <1>3 DEF MaterializedMetadata, Conflict, Invalid
  <1> QED BY <1>2, <1>4 DEF Ready

\* For every tree a call can be given: a metadata candidate loses no one's
\* change and invents none; every object is decided by its identity, spliced
\* only where each property was, companions stay with their owners, and where
\* whole files could all be decided it is the path merge
\* (materialize_metadata_three_way).
THEOREM MetadataIsWoven == MergeSpec => []ObjectsAreWoven
  <1>1. ASSUME Answered PROVE ObjectsAreWoven
    <2>1. SUFFICES ASSUME call.scope = "metadata-properties-v1", answer.status = "ready"
                   PROVE  ObjectsAreWoven
      BY DEF ObjectsAreWoven
    <2> DEFINE m == Candidate(call)
    <2>2. Ready(call) /\ answer.candidate = m
      BY <1>1, <2>1, ReadyMetadata
    <2>3. ASSUME NEW k \in ObjectKeys(call) \cup Keys(m)
          PROVE  IF InAll(call, k) THEN WovenObject(m, k) ELSE ChosenObject(m, k)
      <3>1. k \in ObjectKeys(call)
        BY <2>2, CandidateObjects
      <3>2. CASE InAll(call, k)
        BY <2>2, <3>1, <3>2, SharedObject DEF WovenObject
      <3>3. CASE ~InAll(call, k)
        BY <2>2, <3>1, <3>3, PartialObject DEF ChosenObject
      <3> QED BY <3>2, <3>3
    <2>4. \A p \in Companions(m), t \in Trees(call) : p \in DOMAIN t => OwnerOf(t, p) = OwnerOf(m, p)
      BY <2>2, CompanionsStay
    <2>5. \A p \in {q \in Paths(call) \cup DOMAIN m : q[2] # "xml"} :
             IF Decided(Versions(call, p))
             THEN Get(m, p) = Selected(Versions(call, p))
             ELSE /\ p[2] = "bsl"
                  /\ m[p] = MaterializeBsl(call.base[p], call.current[p], call.upstream[p]).candidate
      BY <2>2, OtherFiles
    <2>6. PathConflicts(call) = {} => m = Chosen(call, Paths(call))
      BY <2>2, SameAsPathMerge
    <2> QED BY <2>2, <2>3, <2>4, <2>5, <2>6 DEF ObjectsAreWoven
  <1> QED BY <1>1, AlwaysAnswered, PTL

-----------------------------------------------------------------------------
(* Recursion over a measure, and the sequences of a text.                   *)

\* A definition that looks only at smaller arguments has a solution.
Descends(D, V, size, B) ==
    \A f, g \in [D -> V], x \in D :
       (\A y \in D : size[y] < size[x] => f[y] = g[y]) => B[f][x] = B[g][x]

Solvable(D, V, B) == \E f \in [D -> V] : f = B[f]

LEMMA Recursion ==
    ASSUME NEW D, NEW V, NEW v \in V, NEW n \in Nat, NEW size \in [D -> 0..n],
           NEW B \in [[D -> V] -> [D -> V]], Descends(D, V, size, B)
    PROVE  Solvable(D, V, B)
  <1> USE DEF Solvable
  <1> DEFINE Solves(f, k) == f \in [D -> V] /\ \A x \in D : size[x] <= k => f[x] = B[f][x]
             S == {k \in Nat : \E f : Solves(f, k)}
  <1> USE DEF Descends
  <1>1. 0 \in S
    <2>2. PICK g : g = [x \in D |-> v]
      OBVIOUS
    <2>3. g \in [D -> V] /\ B[g] \in [D -> V]
      BY <2>2
    <2>4. \A x \in D : size[x] <= 0 => B[B[g]][x] = B[g][x]
      BY <2>3
    <2>5. Solves(B[g], 0)
      BY <2>3, <2>4
    <2> QED BY <2>5
  <1>2. ASSUME NEW k \in Nat, k \in S PROVE k + 1 \in S
    <2>1. PICK f : Solves(f, k)
      BY <1>2
    <2> DEFINE g == [x \in D |-> IF size[x] <= k THEN f[x] ELSE B[f][x]]
    <2>2. B[f] \in [D -> V] /\ f \in [D -> V]
      BY <2>1
    <2>3. g \in [D -> V]
      BY <2>2
    <2>4. ASSUME NEW x \in D, size[x] <= k + 1 PROVE g[x] = B[g][x]
      <3>1. \A y \in D : size[y] < size[x] => f[y] = g[y]
        BY <2>4
      <3>2. B[f][x] = B[g][x]
        <4> HIDE DEF g
        <4> QED BY <2>2, <2>3, <3>1
      <3> QED BY <2>1, <3>2
    <2>5. Solves(g, k + 1)
      <3> HIDE DEF g
      <3> QED BY <2>3, <2>4
    <2>6. k + 1 \in Nat
      OBVIOUS
    <2> HIDE DEF Solves, g
    <2> QED BY <2>5, <2>6
  <1>3. n \in S
    <2> HIDE DEF S
    <2> QED BY <1>1, <1>2, AllNumbers
  <1>4. PICK f : Solves(f, n)
    BY <1>3
  <1>5. f \in [D -> V] /\ B[f] \in [D -> V] /\ \A x \in D : f[x] = B[f][x]
    BY <1>4
  <1>6. f = B[f]
    BY <1>5
  <1> QED BY <1>5, <1>6

-----------------------------------------------------------------------------
(* The edits of a branch.                                                   *)

\* A set of numbers has a least one, and a bounded one a largest.
LEMMA Least ==
    ASSUME NEW S, S \subseteq Nat, S # {}
    PROVE  \E i \in S : \A j \in S : i <= j
  <1> DEFINE less == OpToRel(LAMBDA i, j : i < j, Nat)
  <1>1. IsWellFoundedOn(less, Nat)
    BY NatLessThanWellFounded
  <1>2. PICK i \in S : \A j \in S : <<j, i>> \notin less
    <2> HIDE DEF less
    <2> QED BY <1>1, WFMin
  <1>3. \A j \in S : ~(j < i)
    BY <1>2 DEF OpToRel
  <1> QED BY <1>3

LEMMA Largest ==
    ASSUME NEW n \in Nat, NEW S, S \subseteq 0..n, S # {}
    PROVE  \E i \in S : \A j \in S : j <= i
  <1> DEFINE T == {k \in 0..n : n - k \in S}
  <1>1. T \subseteq Nat /\ T # {}
    <2>1. PICK j \in S : TRUE
      OBVIOUS
    <2>2. j \in Nat /\ j <= n
      OBVIOUS
    <2>3. n - j \in 0..n /\ n - (n - j) = j
      BY <2>2
    <2>4. n - j \in T
      BY <2>3
    <2>5. T \subseteq Nat
      OBVIOUS
    <2> HIDE DEF T
    <2> QED BY <2>4, <2>5
  <1>2. PICK i \in T : \A j \in T : i <= j
    <2> HIDE DEF T
    <2> QED BY <1>1, Least
  <1>3. ASSUME NEW j \in S PROVE j <= n - i
    <2>1. n - j \in T
      BY <1>3
    <2>2. i <= n - j
      <3> HIDE DEF T
      <3> QED BY <1>2, <2>1
    <2>3. i \in Int /\ j \in Int
      BY <1>3
    <2> HIDE DEF T
    <2> QED BY <2>2, <2>3
  <1> QED BY <1>2, <1>3

Size(a) == (a.bhi - a.blo) + (a.chi - a.clo)
Ordered(a) == a.blo <= a.bhi /\ a.clo <= a.chi

\* The blocks of a window that are equal in both texts.
Fits(base, branch, a) ==
    {m \in (a.blo .. a.bhi) \X (a.clo .. a.chi) \X (1 .. a.bhi - a.blo) :
        /\ m[1] + m[3] <= a.bhi /\ m[2] + m[3] <= a.chi
        /\ \A n \in 1..m[3] : base[m[1] + n] = branch[m[2] + n]}

LEMMA LongestFits ==
    ASSUME NEW base, NEW branch, NEW a, a.blo \in Nat, a.bhi \in Nat, a.clo \in Nat, a.chi \in Nat,
           HasMatch(base, branch, a)
    PROVE  LongestMatch(base, branch, a) \in Fits(base, branch, a)
  <1> DEFINE fits == Fits(base, branch, a)
  <1>1. PICK i \in a.blo + 1 .. a.bhi, j \in a.clo + 1 .. a.chi : base[i] = branch[j]
    BY DEF HasMatch
  <1>2. <<i - 1, j - 1, 1>> \in fits
    BY <1>1 DEF Fits
  <1>3. \A m \in fits : m[1] \in Nat /\ m[2] \in Nat /\ m[3] \in 0 .. a.bhi
    BY DEF Fits
  <1> HIDE DEF fits
  <1> DEFINE lengths == {m[3] : m \in fits}
  <1>4. PICK l \in lengths : \A o \in lengths : o <= l
    <2>1. lengths \subseteq 0 .. a.bhi /\ lengths # {}
      BY <1>2, <1>3
    <2> HIDE DEF lengths
    <2> QED BY <2>1, Largest
  <1> DEFINE starts == {m[1] : m \in {o \in fits : o[3] = l}}
  <1>5. PICK s \in starts : \A o \in starts : s <= o
    <2>1. starts \subseteq Nat /\ starts # {}
      BY <1>3, <1>4
    <2> HIDE DEF starts
    <2> QED BY <2>1, Least
  <1> DEFINE others == {m[2] : m \in {o \in fits : o[3] = l /\ o[1] = s}}
  <1>6. PICK t \in others : \A o \in others : t <= o
    <2>1. others \subseteq Nat /\ others # {}
      BY <1>3, <1>5
    <2> HIDE DEF others
    <2> QED BY <2>1, Least
  <1>7. PICK m \in fits : m[3] = l /\ m[1] = s /\ m[2] = t
    BY <1>6
  <1>8. \A o \in fits :
           \/ m[3] > o[3]
           \/ m[3] = o[3] /\ (m[1] < o[1] \/ (m[1] = o[1] /\ m[2] <= o[2]))
    <2> TAKE o \in fits
    <2>1. o[3] \in lengths /\ o[3] <= l
      BY <1>4
    <2>2. o[3] = l => o[1] \in starts /\ s <= o[1]
      BY <1>5
    <2>3. o[3] = l /\ o[1] = s => o[2] \in others /\ t <= o[2]
      BY <1>6
    <2> HIDE DEF lengths, starts, others
    <2> QED BY <1>3, <1>7, <2>1, <2>2, <2>3
  <1> DEFINE Best(x) == \A o \in fits :
                          \/ x[3] > o[3]
                          \/ x[3] = o[3] /\ (x[1] < o[1] \/ (x[1] = o[1] /\ x[2] <= o[2]))
  <1>9. LongestMatch(base, branch, a) = CHOOSE x \in fits : Best(x)
    BY DEF LongestMatch, Fits, fits
  <1>10. m \in fits /\ Best(m)
    BY <1>7, <1>8
  <1> HIDE DEF Best
  <1> QED BY <1>9, <1>10 DEF fits

\* What is left and right of the longest match.
LeftOf(base, branch, a) ==
    LET m == LongestMatch(base, branch, a) IN [a EXCEPT !.bhi = m[1], !.chi = m[2]]
RightOf(base, branch, a) ==
    LET m == LongestMatch(base, branch, a) IN [a EXCEPT !.blo = m[1] + m[3], !.clo = m[2] + m[3]]

LEMMA Between ==
    \A n \in Nat : \A u, v \in 0..n : \A w \in u..v : u \in Nat /\ v \in Nat /\ w \in Nat /\ u <= w
  OBVIOUS

LEMMA MatchBounds ==
    \A p, q, e, d, x, y, z \in Nat :
       x + z <= e /\ y + z <= d /\ e <= p /\ d <= q =>
          x \in 0..p /\ x + z \in 0..p /\ y \in 0..q /\ y + z \in 0..q
  OBVIOUS

LEMMA Halves ==
    ASSUME NEW L, NEW base \in Seq(L), NEW branch \in Seq(L), NEW a \in Windows(base, branch),
           HasMatch(base, branch, a)
    PROVE  LET m == LongestMatch(base, branch, a)
               left == LeftOf(base, branch, a)
               right == RightOf(base, branch, a)
           IN /\ Ordered(a) /\ m \in Fits(base, branch, a)
              /\ m[1] \in a.blo .. a.bhi /\ m[2] \in a.clo .. a.chi /\ m[3] \in Nat \ {0}
              /\ m[1] + m[3] <= a.bhi /\ m[2] + m[3] <= a.chi
              /\ left \in Windows(base, branch) /\ right \in Windows(base, branch)
              /\ Ordered(left) /\ Ordered(right)
              /\ left.blo = a.blo /\ left.bhi = m[1] /\ left.clo = a.clo /\ left.chi = m[2]
              /\ right.blo = m[1] + m[3] /\ right.bhi = a.bhi
              /\ right.clo = m[2] + m[3] /\ right.chi = a.chi
              /\ Size(left) \in Nat /\ Size(right) \in Nat /\ Size(a) \in Nat
              /\ Size(left) < Size(a) /\ Size(right) < Size(a)
  <1>1. /\ a = [blo |-> a.blo, bhi |-> a.bhi, clo |-> a.clo, chi |-> a.chi]
        /\ a.blo \in 0..Len(base) /\ a.bhi \in 0..Len(base)
        /\ a.clo \in 0..Len(branch) /\ a.chi \in 0..Len(branch)
        /\ Len(base) \in Nat /\ Len(branch) \in Nat
    BY DEF Windows
  <1> DEFINE m == LongestMatch(base, branch, a)
  <1>2. m \in Fits(base, branch, a)
    BY <1>1, LongestFits
  <1>3. /\ m[1] \in a.blo .. a.bhi /\ m[2] \in a.clo .. a.chi /\ m[3] \in 1 .. a.bhi - a.blo
        /\ m[1] + m[3] <= a.bhi /\ m[2] + m[3] <= a.chi
    <2> HIDE DEF m
    <2> QED BY <1>2 DEF Fits
  <1> DEFINE left == LeftOf(base, branch, a)  right == RightOf(base, branch, a)
  <1>4. /\ left = [a EXCEPT !.bhi = m[1], !.chi = m[2]]
        /\ right = [a EXCEPT !.blo = m[1] + m[3], !.clo = m[2] + m[3]]
    BY DEF LeftOf, RightOf
  <1> HIDE DEF m, left, right
  <1>5. /\ left = [blo |-> a.blo, bhi |-> m[1], clo |-> a.clo, chi |-> m[2]]
        /\ right = [blo |-> m[1] + m[3], bhi |-> a.bhi, clo |-> m[2] + m[3], chi |-> a.chi]
    BY <1>1, <1>4
  <1>6. left \in Windows(base, branch) /\ right \in Windows(base, branch)
    <2>1. /\ m[1] \in 0..Len(base) /\ m[1] + m[3] \in 0..Len(base)
          /\ m[2] \in 0..Len(branch) /\ m[2] + m[3] \in 0..Len(branch)
      <3>1. /\ m[1] \in Nat /\ m[2] \in Nat /\ m[3] \in Nat /\ a.bhi \in Nat /\ a.chi \in Nat
            /\ a.bhi <= Len(base) /\ a.chi <= Len(branch)
        <4>1. /\ m[1] \in Nat /\ m[2] \in Nat /\ a.bhi \in Nat /\ a.chi \in Nat
          BY <1>1, <1>3, Between
        <4>2. m[3] \in Nat
          BY <1>3
        <4>3. a.bhi <= Len(base) /\ a.chi <= Len(branch)
          BY <1>1
        <4> QED BY <4>1, <4>2, <4>3
      <3> QED BY <1>1, <1>3, <3>1, MatchBounds
    <2>2. PICK B, C : B = 0..Len(base) /\ C = 0..Len(branch)
      OBVIOUS
    <2>3. /\ a.blo \in B /\ a.bhi \in B /\ a.clo \in C /\ a.chi \in C
          /\ m[1] \in B /\ m[1] + m[3] \in B /\ m[2] \in C /\ m[2] + m[3] \in C
      BY <1>1, <2>1, <2>2
    <2>4. Windows(base, branch) = [blo: B, bhi: B, clo: C, chi: C]
      BY <2>2 DEF Windows
    <2> QED BY <1>5, <2>3, <2>4
  <1>7. /\ Ordered(a) /\ Ordered(left) /\ Ordered(right)
        /\ Size(left) \in Nat /\ Size(right) \in Nat /\ Size(a) \in Nat
        /\ Size(left) < Size(a) /\ Size(right) < Size(a)
    <2>1. /\ a.blo \in Nat /\ a.bhi \in Nat /\ m[1] \in Nat /\ a.blo <= m[1]
          /\ a.clo \in Nat /\ a.chi \in Nat /\ m[2] \in Nat /\ a.clo <= m[2]
      BY <1>1, <1>3, Between
    <2>2. m[3] \in Nat /\ 1 <= m[3]
      BY <1>3
    <2>3. PICK b \in Nat, e \in Nat, c \in Nat, d \in Nat, x \in Nat, y \in Nat, z \in Nat :
             /\ b = a.blo /\ e = a.bhi /\ c = a.clo /\ d = a.chi
             /\ x = m[1] /\ y = m[2] /\ z = m[3]
      BY <2>1, <2>2, Zenon
    <2>4. b <= x /\ c <= y /\ 1 <= z /\ x + z <= e /\ y + z <= d
      BY <1>3, <2>1, <2>2, <2>3, Zenon
    <2>5. /\ b <= e /\ c <= d
          /\ (x - b) + (y - c) \in Nat /\ (e - (x + z)) + (d - (y + z)) \in Nat
          /\ (e - b) + (d - c) \in Nat
          /\ (x - b) + (y - c) < (e - b) + (d - c)
          /\ (e - (x + z)) + (d - (y + z)) < (e - b) + (d - c)
      BY <2>4
    <2>6. /\ left.blo = b /\ left.bhi = x /\ left.clo = c /\ left.chi = y
          /\ right.blo = x + z /\ right.bhi = e /\ right.clo = y + z /\ right.chi = d
      BY <1>5, <2>3
    <2>7. /\ Size(left) = (x - b) + (y - c) /\ Size(right) = (e - (x + z)) + (d - (y + z))
          /\ Size(a) = (e - b) + (d - c)
      BY <2>3, <2>6 DEF Size
    <2>8. Ordered(a) /\ Ordered(left) /\ Ordered(right)
      BY <2>3, <2>4, <2>5, <2>6, Zenon DEF Ordered
    <2> QED BY <2>5, <2>7, <2>8, Zenon
  <1> QED BY <1>2, <1>3, <1>5, <1>6, <1>7 DEF m, left, right

Whole(branch, a) ==
    << [start |-> a.blo, end |-> a.bhi, replacement |-> SubSeq(branch, a.clo + 1, a.chi)] >>

EditsOver(base, L) == [start : 0..Len(base), end : 0..Len(base), replacement : Seq(L)]

\* The recursion of Gaps is one over smaller and smaller windows.
LEMMA GapsUnfolded ==
    ASSUME NEW L, NEW base \in Seq(L), NEW branch \in Seq(L)
    PROVE  \A a \in Windows(base, branch) :
              Gaps(base, branch, a) =
                 IF a.blo = a.bhi /\ a.clo = a.chi THEN << >>
                 ELSE IF ~HasMatch(base, branch, a) THEN Whole(branch, a)
                 ELSE Gaps(base, branch, LeftOf(base, branch, a))
                      \o Gaps(base, branch, RightOf(base, branch, a))
  <1> DEFINE D == Windows(base, branch)
             V == Seq(EditsOver(base, L))
             size == [a \in D |-> IF HasMatch(base, branch, a) THEN Size(a) ELSE
                                   IF Size(a) \in Nat THEN Size(a) ELSE 0]
             Body(f, a) == IF a.blo = a.bhi /\ a.clo = a.chi THEN << >>
                           ELSE IF ~HasMatch(base, branch, a) THEN Whole(branch, a)
                           ELSE f[LeftOf(base, branch, a)] \o f[RightOf(base, branch, a)]
             B == [f \in [D -> V] |-> [a \in D |-> Body(f, a)]]
  <1>1. << >> \in V /\ \A s, t \in V : s \o t \in V
    <2>1. PICK E : E = EditsOver(base, L)
      OBVIOUS
    <2> QED BY <2>1, EmptySeq, ConcatProperties
  <1>2. \A a \in D : Whole(branch, a) \in V
    <2> TAKE a \in D
    <2>1. /\ a.blo \in 0..Len(base) /\ a.bhi \in 0..Len(base)
          /\ a.clo \in 0..Len(branch) /\ a.chi \in 0..Len(branch) /\ Len(branch) \in Nat
      BY DEF Windows
    <2>2. \A i \in a.clo + 1 .. a.chi : branch[i] \in L
      BY <2>1
    <2>3. SubSeq(branch, a.clo + 1, a.chi) \in Seq(L)
      BY <2>1, <2>2, SubSeqProperties
    <2> QED BY <2>1, <2>3 DEF Whole, EditsOver
  <1>3. \A a \in D : HasMatch(base, branch, a) =>
           /\ LeftOf(base, branch, a) \in D /\ RightOf(base, branch, a) \in D
           /\ size[LeftOf(base, branch, a)] < size[a]
           /\ size[RightOf(base, branch, a)] < size[a]
    <2> TAKE a \in D
    <2> QED BY Halves
  <1>4. size \in [D -> Nat] /\ \A a \in D : size[a] <= Len(base) + Len(branch)
    <2>1. ASSUME NEW a \in D PROVE size[a] \in Nat /\ size[a] <= Len(base) + Len(branch)
      <3>1. HasMatch(base, branch, a) => Size(a) \in Nat
        BY Halves
      <3>2. /\ Len(base) \in Nat /\ Len(branch) \in Nat
            /\ Size(a) <= Len(base) + Len(branch)
        BY DEF Windows, Size
      <3> QED BY <3>1, <3>2
    <2> QED BY <2>1
  <1>5. Len(base) + Len(branch) \in Nat
    OBVIOUS
  <1> HIDE DEF D, V, size
  <1>6. B \in [[D -> V] -> [D -> V]]
    <2>1. ASSUME NEW f \in [D -> V], NEW a \in D PROVE Body(f, a) \in V
      BY <1>1, <1>2, <1>3
    <2> HIDE DEF Body
    <2> QED BY <2>1
  <1>7. \A f, g \in [D -> V], a \in D :
           (\A b \in D : size[b] < size[a] => f[b] = g[b]) => B[f][a] = B[g][a]
    <2> TAKE f, g \in [D -> V], a \in D
    <2>1. B[f][a] = Body(f, a) /\ B[g][a] = Body(g, a)
      OBVIOUS
    <2> HIDE DEF B
    <2> QED BY <1>3, <2>1
  <1>8. PICK f \in [D -> V] : f = B[f]
    <2>1. PICK n \in Nat : n = Len(base) + Len(branch)
      BY <1>5
    <2>2. size \in [D -> 0..n]
      BY <1>4, <2>1
    <2> HIDE DEF B
    <2>3. Descends(D, V, size, B)
      BY <1>7 DEF Descends
    <2>4. << >> \in V
      BY <1>1
    <2> HIDE DEF Body
    <2>5. Solvable(D, V, B)
      BY <1>6, <2>2, <2>3, <2>4, Recursion, Zenon
    <2> QED BY <2>5 DEF Solvable
  <1>9. f = [a \in D |-> Body(f, a)]
    BY <1>8
  <1> DEFINE Solution(g) == g = [a \in D |-> Body(g, a)]
             gaps == CHOOSE g : Solution(g)
  <1>10. Solution(gaps)
    <2>1. Solution(f)
      BY <1>9
    <2> HIDE DEF Solution
    <2> QED BY <2>1
  <1>11. \A a \in D : Gaps(base, branch, a) = gaps[a]
    BY DEF Gaps, D, LeftOf, RightOf, Whole
  <1>12. \A a \in D : gaps[a] = Body(gaps, a)
    <2> HIDE DEF gaps, Body
    <2> QED BY <1>10
  <1> HIDE DEF gaps
  <1>13. ASSUME NEW a \in D PROVE Gaps(base, branch, a) =
                 IF a.blo = a.bhi /\ a.clo = a.chi THEN << >>
                 ELSE IF ~HasMatch(base, branch, a) THEN Whole(branch, a)
                 ELSE Gaps(base, branch, LeftOf(base, branch, a))
                      \o Gaps(base, branch, RightOf(base, branch, a))
    <2>1. CASE HasMatch(base, branch, a)
      BY <1>3, <1>11, <1>12, <2>1
    <2>2. CASE ~HasMatch(base, branch, a)
      BY <1>11, <1>12, <2>2
    <2> QED BY <2>1, <2>2
  <1> QED BY <1>13 DEF D


\* Where an edit starts and ends, in the base and in the branch.
Spans(base, branch) ==
    {x \in [start : 0..Len(base), end : 0..Len(base), clo : 0..Len(branch), chi : 0..Len(branch)] :
        x.start <= x.end /\ x.clo <= x.chi}
EditAt(branch, x) ==
    [start |-> x.start, end |-> x.end, replacement |-> SubSeq(branch, x.clo + 1, x.chi)]

\* The n lines from b + 1 of the base are the n lines from c + 1 of the branch.
Agree(base, branch, b, c, n) == \A k \in 1..n : base[b + k] = branch[c + k]

\* From the end of x to the start of y both texts have the same lines.
Link(base, branch, x, y) ==
    /\ x.end <= y.start /\ y.start - x.end = y.clo - x.chi
    /\ Agree(base, branch, x.end, x.chi, y.start - x.end)

\* The spans of n edits between the corners of a window.
Trace(base, branch, a, n, tr) ==
    /\ tr \in [0 .. n + 1 -> Spans(base, branch)]
    /\ tr[0].end = a.blo /\ tr[0].chi = a.clo /\ tr[n + 1].start = a.bhi /\ tr[n + 1].clo = a.chi
    /\ \A i \in 0..n : Link(base, branch, tr[i], tr[i + 1])
    /\ \A i \in 1 .. n - 1 : tr[i].end < tr[i + 1].start

Traced(base, branch, a, edits) ==
    \E n \in Nat : \E tr :
        /\ Trace(base, branch, a, n, tr)
        /\ edits = [i \in 1..n |-> EditAt(branch, tr[i])]

LEMMA SpanFields ==
    ASSUME NEW L, NEW base \in Seq(L), NEW branch \in Seq(L), NEW x \in Spans(base, branch)
    PROVE  /\ x.start \in Nat /\ x.end \in Nat /\ x.clo \in Nat /\ x.chi \in Nat
           /\ x.start <= x.end /\ x.clo <= x.chi /\ x.end <= Len(base) /\ x.chi <= Len(branch)
  BY DEF Spans

\* Equal lines, k more of them, and equal lines again.
LEMMA AgreeJoin ==
    ASSUME NEW base, NEW branch, NEW b \in Nat, NEW c \in Nat, NEW p \in Nat, NEW k \in Nat, NEW q \in Nat,
           Agree(base, branch, b, c, p), Agree(base, branch, b + p, c + p, k),
           Agree(base, branch, b + p + k, c + p + k, q)
    PROVE  Agree(base, branch, b, c, p + k + q)
  <1>1. ASSUME NEW n \in 1 .. p + k + q PROVE base[b + n] = branch[c + n]
    <2>1. CASE n <= p
      BY <2>1 DEF Agree
    <2>2. CASE p < n /\ n <= p + k
      <3>1. n - p \in 1..k /\ b + p + (n - p) = b + n /\ c + p + (n - p) = c + n
        BY <2>2
      <3>2. base[b + p + (n - p)] = branch[c + p + (n - p)]
        BY <3>1 DEF Agree
      <3> QED BY <3>1, <3>2
    <2>3. CASE p + k < n
      <3>1. /\ n - (p + k) \in 1..q /\ b + p + k + (n - (p + k)) = b + n
            /\ c + p + k + (n - (p + k)) = c + n
        BY <2>3
      <3>2. base[b + p + k + (n - (p + k))] = branch[c + p + k + (n - (p + k))]
        BY <3>1 DEF Agree
      <3> QED BY <3>1, <3>2
    <2> QED BY <2>1, <2>2, <2>3
  <1> QED BY <1>1 DEF Agree

LEMMA LinksJoin ==
    ASSUME NEW L, NEW base \in Seq(L), NEW branch \in Seq(L),
           NEW x \in Spans(base, branch), NEW y \in Spans(base, branch),
           NEW z \in Spans(base, branch), NEW w \in Spans(base, branch), NEW k \in Nat,
           Link(base, branch, x, y), Link(base, branch, z, w),
           z.end = y.start + k, z.chi = y.clo + k, Agree(base, branch, y.start, y.clo, k)
    PROVE  Link(base, branch, x, w) /\ x.end + k <= w.start
  <1>1. PICK b \in Nat, c \in Nat, ys \in Nat, yc \in Nat, ws \in Nat, wc \in Nat :
           /\ x.end = b /\ x.chi = c /\ y.start = ys /\ y.clo = yc /\ w.start = ws /\ w.clo = wc
    BY SpanFields
  <1>2. PICK p \in Nat : ys = b + p /\ yc = c + p
    <2>1. b <= ys /\ ys - b = yc - c
      BY <1>1 DEF Link
    <2>2. ys - b \in Nat /\ ys = b + (ys - b) /\ yc = c + (ys - b)
      BY <2>1
    <2> QED BY <2>2
  <1>3. z.end = b + p + k /\ z.chi = c + p + k
    BY <1>1, <1>2
  <1>4. PICK q \in Nat : ws = b + p + k + q /\ wc = c + p + k + q
    <2>1. b + p + k <= ws /\ ws - (b + p + k) = wc - (c + p + k)
      BY <1>1, <1>3 DEF Link
    <2>2. /\ ws - (b + p + k) \in Nat /\ ws = b + p + k + (ws - (b + p + k))
          /\ wc = c + p + k + (ws - (b + p + k))
      BY <2>1
    <2> QED BY <2>2
  <1>5. Agree(base, branch, b, c, p)
    <2>1. y.start - x.end = p
      BY <1>1, <1>2
    <2> QED BY <1>1, <2>1 DEF Link
  <1>6. Agree(base, branch, b + p, c + p, k)
    BY <1>1, <1>2
  <1>7. Agree(base, branch, b + p + k, c + p + k, q)
    <2>1. w.start - z.end = q
      BY <1>1, <1>3, <1>4
    <2> QED BY <1>3, <2>1 DEF Link
  <1>8. Agree(base, branch, b, c, p + k + q)
    BY <1>5, <1>6, <1>7, AgreeJoin, Zenon
  <1>9. /\ b <= ws /\ ws - b = wc - c /\ ws - b = p + k + q /\ b + k <= ws
    BY <1>4
  <1> QED BY <1>1, <1>8, <1>9 DEF Link

\* The traces left and right of a match make one trace.
Spliced(p, t, q, r) == [i \in 0 .. p + q + 1 |-> IF i <= p THEN t[i] ELSE r[i - p]]

LEMMA TracesJoin ==
    ASSUME NEW L, NEW base \in Seq(L), NEW branch \in Seq(L), NEW a, NEW left, NEW right,
           NEW p \in Nat, NEW t, NEW q \in Nat, NEW r, NEW k \in Nat, 0 < k,
           Trace(base, branch, left, p, t), Trace(base, branch, right, q, r),
           left.blo = a.blo, left.clo = a.clo, right.bhi = a.bhi, right.chi = a.chi,
           right.blo = left.bhi + k, right.clo = left.chi + k,
           Agree(base, branch, left.bhi, left.chi, k)
    PROVE  Trace(base, branch, a, p + q, Spliced(p, t, q, r))
  <1> DEFINE u == [i \in 0 .. p + q + 1 |-> IF i <= p THEN t[i] ELSE r[i - p]]
             S == Spans(base, branch)
  <1>1. /\ t \in [0 .. p + 1 -> S] /\ r \in [0 .. q + 1 -> S]
        /\ t[0].end = a.blo /\ t[0].chi = a.clo
        /\ t[p + 1].start = left.bhi /\ t[p + 1].clo = left.chi
        /\ r[0].end = left.bhi + k /\ r[0].chi = left.chi + k
        /\ r[q + 1].start = a.bhi /\ r[q + 1].clo = a.chi
    BY DEF Trace
  <1>2. u \in [0 .. p + q + 1 -> S]
    <2> HIDE DEF S
    <2> QED BY <1>1
  <1>3. u[0] = t[0] /\ u[p + q + 1] = r[q + 1] /\ u[p] = t[p] /\ u[p + 1] = r[1]
    OBVIOUS
  <1>4. Link(base, branch, t[p], r[1]) /\ t[p].end + k <= r[1].start
    <2>1. Link(base, branch, t[p], t[p + 1]) /\ Link(base, branch, r[0], r[1])
      BY DEF Trace
    <2>2. t[p] \in S /\ t[p + 1] \in S /\ r[0] \in S /\ r[1] \in S
      <3> HIDE DEF S
      <3> QED BY <1>1
    <2>3. /\ r[0].end = t[p + 1].start + k /\ r[0].chi = t[p + 1].clo + k
          /\ Agree(base, branch, t[p + 1].start, t[p + 1].clo, k)
      BY <1>1
    <2>4. PICK x \in S, y \in S, z \in S, w \in S : x = t[p] /\ y = t[p + 1] /\ z = r[0] /\ w = r[1]
      BY <2>2
    <2>5. Link(base, branch, x, w) /\ x.end + k <= w.start
      BY <2>1, <2>3, <2>4, LinksJoin
    <2> HIDE DEF u
    <2> QED BY <2>4, <2>5
  <1>5. ASSUME NEW i \in 0 .. p + q PROVE Link(base, branch, u[i], u[i + 1])
    <2>1. CASE i < p
      <3>1. u[i] = t[i] /\ u[i + 1] = t[i + 1] /\ i \in 0..p
        BY <2>1
      <3> QED BY <3>1 DEF Trace
    <2>2. CASE i = p
      <3> HIDE DEF u
      <3> QED BY <1>3, <1>4, <2>2
    <2>3. CASE p < i
      <3>1. u[i] = r[i - p] /\ u[i + 1] = r[(i - p) + 1] /\ i - p \in 0..q
        BY <2>3
      <3> HIDE DEF u
      <3> QED BY <3>1 DEF Trace
    <2> QED BY <2>1, <2>2, <2>3
  <1>6. ASSUME NEW i \in 1 .. p + q - 1 PROVE u[i].end < u[i + 1].start
    <2>1. CASE i < p
      <3>1. u[i] = t[i] /\ u[i + 1] = t[i + 1] /\ i \in 1 .. p - 1
        BY <2>1
      <3> HIDE DEF u
      <3> QED BY <3>1 DEF Trace
    <2>2. CASE i = p
      <3> HIDE DEF u
      <3>1. t[p] \in S /\ r[1] \in S
        <4> HIDE DEF S
        <4> QED BY <1>1
      <3>2. t[p].end \in Nat /\ r[1].start \in Nat
        BY <3>1, SpanFields
      <3>3. t[p].end < r[1].start
        BY <1>4, <3>2
      <3> QED BY <1>3, <2>2, <3>3
    <2>3. CASE p < i
      <3>1. u[i] = r[i - p] /\ u[i + 1] = r[(i - p) + 1]
        BY <2>3
      <3>2. i - p \in 1 .. q - 1
        BY <2>3
      <3> HIDE DEF u
      <3> QED BY <3>1, <3>2 DEF Trace
    <2>4. i < p \/ i = p \/ p < i
      OBVIOUS
    <2> HIDE DEF u
    <2> QED BY <2>1, <2>2, <2>3, <2>4
  <1>7. /\ u[0].end = a.blo /\ u[0].chi = a.clo
        /\ u[p + q + 1].start = a.bhi /\ u[p + q + 1].clo = a.chi
    <2> HIDE DEF u
    <2> QED BY <1>1, <1>3
  <1>8. Trace(base, branch, a, p + q, u)
    <2> HIDE DEF u, S
    <2>1. u \in [0 .. p + q + 1 -> Spans(base, branch)]
      BY <1>2 DEF S
    <2> QED BY <1>5, <1>6, <1>7, <2>1 DEF Trace
  <1> QED BY <1>8 DEF Spliced

\* The sequences of two functions, joined.
Lists(f, g) == [i \in 1 .. Len(f) + Len(g) |-> IF i <= Len(f) THEN f[i] ELSE g[i - Len(f)]]

LEMMA ListsJoin ==
    ASSUME NEW V, NEW f \in Seq(V), NEW g \in Seq(V)
    PROVE  f \o g = Lists(f, g)
  <1>1. PICK p \in Nat, q \in Nat : Len(f) = p /\ Len(g) = q
    OBVIOUS
  <1>2. f \o g \in Seq(V) /\ Len(f \o g) = p + q
    BY <1>1, ConcatProperties
  <1>3. \A i \in 1 .. p + q : (f \o g)[i] = IF i <= p THEN f[i] ELSE g[i - p]
    BY <1>1, ConcatProperties
  <1>4. PICK h : h = [i \in 1 .. p + q |-> IF i <= p THEN f[i] ELSE g[i - p]]
    OBVIOUS
  <1>5. h \in [1 .. p + q -> V]
    BY <1>1, <1>4
  <1>6. h \in Seq(V) /\ Len(h) = p + q
    BY <1>5
  <1>7. \A i \in 1 .. p + q : (f \o g)[i] = h[i]
    BY <1>3, <1>4
  <1>8. f \o g = h
    BY <1>2, <1>6, <1>7, SeqEqual
  <1> QED BY <1>1, <1>4, <1>8 DEF Lists

LEMMA EmptyTraced ==
    ASSUME NEW L, NEW base \in Seq(L), NEW branch \in Seq(L), NEW a \in Windows(base, branch),
           a.blo = a.bhi, a.clo = a.chi
    PROVE  Traced(base, branch, a, << >>)
  <1>1. PICK b \in 0..Len(base), c \in 0..Len(branch) : b = a.blo /\ c = a.clo
    BY DEF Windows
  <1>2. b \in Nat /\ c \in Nat
    BY <1>1
  <1> DEFINE x == [start |-> b, end |-> b, clo |-> c, chi |-> c]
             tr == [i \in 0..1 |-> x]
  <1>3. x \in Spans(base, branch)
    BY <1>1, <1>2 DEF Spans
  <1>4. Link(base, branch, x, x)
    BY <1>2 DEF Link, Agree
  <1>5. Trace(base, branch, a, 0, tr)
    <2>1. tr \in [0 .. 0 + 1 -> Spans(base, branch)]
      BY <1>3
    <2>2. tr[0] = x /\ tr[0 + 1] = x
      OBVIOUS
    <2>3. x.end = a.blo /\ x.chi = a.clo /\ x.start = a.bhi /\ x.clo = a.chi
      BY <1>1
    <2>4. \A i \in 0..0 : Link(base, branch, tr[i], tr[i + 1])
      <3> HIDE DEF x, tr
      <3> QED BY <1>4, <2>2
    <2> HIDE DEF x, tr
    <2> QED BY <2>1, <2>2, <2>3, <2>4 DEF Trace
  <1>6. << >> = [i \in 1..0 |-> EditAt(branch, tr[i])]
    OBVIOUS
  <1>7. 0 \in Nat
    OBVIOUS
  <1> HIDE DEF x, tr
  <1> QED BY <1>5, <1>6, <1>7, Zenon DEF Traced

LEMMA WholeTraced ==
    ASSUME NEW L, NEW base \in Seq(L), NEW branch \in Seq(L), NEW a \in Windows(base, branch),
           Ordered(a)
    PROVE  Traced(base, branch, a, Whole(branch, a))
  <1>1. PICK b \in 0..Len(base), e \in 0..Len(base), c \in 0..Len(branch), d \in 0..Len(branch) :
           b = a.blo /\ e = a.bhi /\ c = a.clo /\ d = a.chi
    BY DEF Windows
  <1>2. b \in Nat /\ e \in Nat /\ c \in Nat /\ d \in Nat /\ b <= e /\ c <= d
    BY <1>1 DEF Ordered
  <1> DEFINE x == [start |-> b, end |-> b, clo |-> c, chi |-> c]
             y == [start |-> b, end |-> e, clo |-> c, chi |-> d]
             z == [start |-> e, end |-> e, clo |-> d, chi |-> d]
             tr == [i \in 0..2 |-> IF i = 0 THEN x ELSE IF i = 1 THEN y ELSE z]
  <1>3. x \in Spans(base, branch) /\ y \in Spans(base, branch) /\ z \in Spans(base, branch)
    BY <1>1, <1>2 DEF Spans
  <1>4. Link(base, branch, x, y) /\ Link(base, branch, y, z)
    BY <1>2 DEF Link, Agree
  <1>5. tr[0] = x /\ tr[1] = y /\ tr[2] = z
    OBVIOUS
  <1>6. Trace(base, branch, a, 1, tr)
    <2>1. tr \in [0 .. 1 + 1 -> Spans(base, branch)]
      <3> HIDE DEF x, y, z
      <3> QED BY <1>3
    <2>3. x.end = a.blo /\ x.chi = a.clo /\ z.start = a.bhi /\ z.clo = a.chi
      BY <1>1
    <2>4. \A i \in 0..1 : Link(base, branch, tr[i], tr[i + 1])
      <3> HIDE DEF x, y, z, tr
      <3> QED BY <1>4, <1>5
    <2> HIDE DEF x, y, z, tr
    <2> QED BY <1>5, <2>1, <2>3, <2>4 DEF Trace
  <1>7. Whole(branch, a) = [i \in 1..1 |-> EditAt(branch, tr[i])]
    <2>1. Whole(branch, a) = << EditAt(branch, y) >>
      BY <1>1 DEF Whole, EditAt
    <2> HIDE DEF x, y, z, tr
    <2>2. [i \in 1..1 |-> EditAt(branch, tr[i])] = << EditAt(branch, y) >>
      BY <1>5
    <2> QED BY <2>1, <2>2
  <1> HIDE DEF tr
  <1> QED BY <1>6, <1>7 DEF Traced

LEMMA TracedJoin ==
    ASSUME NEW L, NEW base \in Seq(L), NEW branch \in Seq(L), NEW a, NEW left, NEW right,
           NEW k \in Nat, 0 < k, NEW es, NEW fs,
           Traced(base, branch, left, es), Traced(base, branch, right, fs),
           left.blo = a.blo, left.clo = a.clo, right.bhi = a.bhi, right.chi = a.chi,
           right.blo = left.bhi + k, right.clo = left.chi + k,
           Agree(base, branch, left.bhi, left.chi, k)
    PROVE  Traced(base, branch, a, es \o fs)
  <1>0. PICK p \in Nat, q \in Nat :
           /\ \E t : Trace(base, branch, left, p, t) /\ es = [i \in 1..p |-> EditAt(branch, t[i])]
           /\ \E r : Trace(base, branch, right, q, r) /\ fs = [i \in 1..q |-> EditAt(branch, r[i])]
    BY DEF Traced
  <1>2. PICK t : Trace(base, branch, left, p, t) /\ es = [i \in 1..p |-> EditAt(branch, t[i])]
    BY <1>0
  <1>3. PICK r : Trace(base, branch, right, q, r) /\ fs = [i \in 1..q |-> EditAt(branch, r[i])]
    BY <1>0
  <1>7. Trace(base, branch, a, p + q, Spliced(p, t, q, r))
    BY <1>2, <1>3, TracesJoin
  <1>8. PICK u : u = Spliced(p, t, q, r)
    OBVIOUS
  <1>9. es \o fs = [i \in 1 .. p + q |-> EditAt(branch, u[i])]
    <2> DEFINE V == {EditAt(branch, x) : x \in Spans(base, branch)}
    <2>1. /\ \A i \in 1..p : t[i] \in Spans(base, branch)
          /\ \A i \in 1..q : r[i] \in Spans(base, branch)
      <3>1. /\ t \in [0 .. p + 1 -> Spans(base, branch)]
            /\ r \in [0 .. q + 1 -> Spans(base, branch)]
        BY <1>2, <1>3 DEF Trace
      <3>2. \A i \in 1..p : i \in 0 .. p + 1
        OBVIOUS
      <3>3. \A i \in 1..q : i \in 0 .. q + 1
        OBVIOUS
      <3> QED BY <3>1, <3>2, <3>3
    <2>2. \A x \in Spans(base, branch) : EditAt(branch, x) \in V
      OBVIOUS
    <2> HIDE DEF V
    <2>3. es \in Seq(V) /\ Len(es) = p /\ fs \in Seq(V) /\ Len(fs) = q
      <3>1. es \in [1..p -> V] /\ fs \in [1..q -> V]
        BY <1>2, <1>3, <2>1, <2>2
      <3> QED BY <3>1
    <2>4. PICK h : h = Lists(es, fs)
      OBVIOUS
    <2>5. es \o fs = h
      BY <2>3, <2>4, ListsJoin
    <2>6. \A i \in 1 .. p + q : h[i] = EditAt(branch, u[i])
      <3> TAKE i \in 1 .. p + q
      <3>1. CASE i <= p
        BY <1>2, <1>8, <2>3, <2>4, <3>1 DEF Spliced, Lists
      <3>2. CASE p < i
        <4>1. i - p \in 1..q /\ ~(i <= p) /\ i \in 0 .. p + q + 1
          BY <3>2
        <4>2. h[i] = fs[i - p] /\ u[i] = r[i - p]
          BY <1>8, <2>3, <2>4, <4>1 DEF Spliced, Lists
        <4> QED BY <1>3, <4>1, <4>2
      <3> QED BY <3>1, <3>2
    <2>7. h = [i \in 1 .. p + q |-> h[i]]
      BY <2>3, <2>4 DEF Lists
    <2>8. h = [i \in 1 .. p + q |-> EditAt(branch, u[i])]
      BY <2>6, <2>7
    <2> QED BY <2>5, <2>8
  <1>10. PICK n \in Nat : n = p + q
    OBVIOUS
  <1>11. Trace(base, branch, a, n, u) /\ es \o fs = [i \in 1..n |-> EditAt(branch, u[i])]
    BY <1>7, <1>8, <1>9, <1>10
  <1> QED BY <1>11 DEF Traced

LEMMA HalvesTraced ==
    ASSUME NEW L, NEW base \in Seq(L), NEW branch \in Seq(L), NEW a \in Windows(base, branch),
           HasMatch(base, branch, a), NEW es, NEW fs,
           Traced(base, branch, LeftOf(base, branch, a), es),
           Traced(base, branch, RightOf(base, branch, a), fs)
    PROVE  Traced(base, branch, a, es \o fs)
  <1>1. PICK m, left, right : /\ m = LongestMatch(base, branch, a)
                              /\ left = LeftOf(base, branch, a) /\ right = RightOf(base, branch, a)
    OBVIOUS
  <1>2. /\ m \in Fits(base, branch, a) /\ m[3] \in Nat \ {0}
        /\ left.blo = a.blo /\ left.bhi = m[1] /\ left.clo = a.clo /\ left.chi = m[2]
        /\ right.blo = m[1] + m[3] /\ right.bhi = a.bhi
        /\ right.clo = m[2] + m[3] /\ right.chi = a.chi
    BY <1>1, Halves
  <1>3. PICK k \in Nat : k = m[3] /\ 0 < k
    BY <1>2
  <1>4. Agree(base, branch, left.bhi, left.chi, k)
    BY <1>2, <1>3 DEF Fits, Agree
  <1>5. /\ left.blo = a.blo /\ left.clo = a.clo /\ right.bhi = a.bhi /\ right.chi = a.chi
        /\ right.blo = left.bhi + k /\ right.clo = left.chi + k
    BY <1>2, <1>3
  <1>6. Traced(base, branch, left, es) /\ Traced(base, branch, right, fs)
    BY <1>1
  <1> QED BY <1>3, <1>4, <1>5, <1>6, TracedJoin

\* The edits of a window are the spans between its matches.
LEMMA GapsTraced ==
    ASSUME NEW L, NEW base \in Seq(L), NEW branch \in Seq(L)
    PROVE  \A a \in Windows(base, branch) :
              Ordered(a) => Traced(base, branch, a, Gaps(base, branch, a))
  <1> DEFINE D == {a \in Windows(base, branch) : Ordered(a)}
             S == {k \in Nat : \A a \in D : Size(a) <= k =>
                      Traced(base, branch, a, Gaps(base, branch, a))}
  <1>1. ASSUME NEW a \in D
        PROVE  /\ Size(a) \in Nat
               /\ Size(a) = 0 <=> a.blo = a.bhi /\ a.clo = a.chi
               /\ Size(a) = 0 => Traced(base, branch, a, Gaps(base, branch, a))
               /\ ~HasMatch(base, branch, a) => Traced(base, branch, a, Gaps(base, branch, a))
    <2>1. Size(a) \in Nat /\ (Size(a) = 0 <=> a.blo = a.bhi /\ a.clo = a.chi)
      BY DEF Windows, Ordered, Size
    <2>2. CASE a.blo = a.bhi /\ a.clo = a.chi
      <3>1. Gaps(base, branch, a) = << >>
        BY <2>2, GapsUnfolded
      <3> QED BY <2>1, <2>2, <3>1, EmptyTraced
    <2>3. CASE ~(a.blo = a.bhi /\ a.clo = a.chi)
      <3>1. ~HasMatch(base, branch, a) => Gaps(base, branch, a) = Whole(branch, a)
        BY <2>3, GapsUnfolded
      <3> QED BY <2>1, <2>3, <3>1, WholeTraced
    <2> QED BY <2>2, <2>3
  <1>2. 0 \in S
    BY <1>1
  <1>3. ASSUME NEW k \in Nat, k \in S PROVE k + 1 \in S
    <2>1. ASSUME NEW a \in D, Size(a) <= k + 1
          PROVE  Traced(base, branch, a, Gaps(base, branch, a))
      <3>1. CASE HasMatch(base, branch, a) /\ Size(a) # 0
        <4>1. PICK left, right : left = LeftOf(base, branch, a) /\ right = RightOf(base, branch, a)
          OBVIOUS
        <4>2. /\ left \in D /\ right \in D
              /\ Size(left) \in Nat /\ Size(right) \in Nat /\ Size(a) \in Nat
              /\ Size(left) < Size(a) /\ Size(right) < Size(a)
          BY <3>1, <4>1, Halves
        <4>3. Size(left) <= k /\ Size(right) <= k
          BY <2>1, <4>2
        <4>4. /\ Traced(base, branch, left, Gaps(base, branch, left))
              /\ Traced(base, branch, right, Gaps(base, branch, right))
          BY <1>3, <4>2, <4>3
        <4>5. Gaps(base, branch, a) = Gaps(base, branch, left) \o Gaps(base, branch, right)
          BY <1>1, <3>1, <4>1, GapsUnfolded
        <4> QED BY <3>1, <4>1, <4>4, <4>5, HalvesTraced
      <3>2. CASE ~HasMatch(base, branch, a) \/ Size(a) = 0
        BY <1>1, <3>2
      <3> QED BY <3>1, <3>2
    <2>2. k + 1 \in Nat
      OBVIOUS
    <2> HIDE DEF D
    <2> QED BY <2>1, <2>2
  <1>4. Nat \subseteq S
    <2> HIDE DEF S
    <2> QED BY <1>2, <1>3, AllNumbers
  <1>5. ASSUME NEW a \in D PROVE Traced(base, branch, a, Gaps(base, branch, a))
    <2>1. PICK k \in Nat : k = Size(a)
      BY <1>1
    <2>2. k \in S
      BY <1>4
    <2> HIDE DEF D
    <2> QED BY <2>1, <2>2
  <1> QED BY <1>5

\* The largest and the least member of a set are members of it.
LEMMA MaxIn ==
    ASSUME NEW n \in Nat, NEW S, S \subseteq 0..n, S # {}
    PROVE  Max(S) \in S
  <1>1. PICK i \in S : \A j \in S : j <= i
    BY Largest
  <1>2. i \in S /\ \A j \in S : i >= j
    BY <1>1
  <1> QED BY <1>2 DEF Max

LEMMA MinIn ==
    ASSUME NEW S, S \subseteq Nat, S # {}
    PROVE  Min(S) \in S /\ \A j \in S : Min(S) <= j
  <1>1. PICK i \in S : \A j \in S : i <= j
    BY Least
  <1> QED BY <1>1 DEF Min

\* What Window leaves out is equal on both sides.
LEMMA Margins ==
    ASSUME NEW L, NEW base \in Seq(L), NEW branch \in Seq(L)
    PROVE  \E start \in Nat, tail \in Nat :
              LET a == Window(base, branch)
              IN /\ a \in Windows(base, branch) /\ Ordered(a)
                 /\ a.blo = start /\ a.clo = start
                 /\ a.bhi + tail = Len(base) /\ a.chi + tail = Len(branch)
                 /\ Agree(base, branch, 0, 0, start) /\ Agree(base, branch, a.bhi, a.chi, tail)
  <1>1. PICK n \in Nat, m \in Nat : n = Len(base) /\ m = Len(branch)
    OBVIOUS
  <1>2. PICK short \in Nat : short = Min({n, m}) /\ short <= n /\ short <= m
    BY MinIn
  <1> DEFINE S1 == {x \in 0..short : \A i \in 1..x : base[i] = branch[i]}
  <1>3. PICK start \in S1 : start = Max(S1)
    <2>1. 0 \in S1 /\ S1 \subseteq 0..short
      OBVIOUS
    <2> HIDE DEF S1
    <2> QED BY <2>1, MaxIn
  <1>4. PICK rest \in Nat : rest = short - start /\ start \in Nat
    <2>1. start \in Nat /\ start <= short
      BY <1>3
    <2>2. short - start \in Nat
      BY <2>1
    <2> QED BY <2>1, <2>2
  <1> DEFINE S2 == {x \in 0..rest : \A i \in 0 .. x - 1 : base[n - i] = branch[m - i]}
  <1>5. PICK tail \in S2 : tail = Max(S2)
    <2>1. 0 \in S2 /\ S2 \subseteq 0..rest
      OBVIOUS
    <2> HIDE DEF S2
    <2> QED BY <2>1, MaxIn
  <1>6. Window(base, branch) = [blo |-> start, bhi |-> n - tail, clo |-> start, chi |-> m - tail]
    BY <1>1, <1>2, <1>3, <1>4, <1>5 DEF Window, S1, S2
  <1>7. Agree(base, branch, 0, 0, start)
    <2>1. \A i \in 1..start : base[i] = branch[i]
      BY <1>3
    <2>2. \A i \in 1..start : 0 + i = i
      BY <1>4
    <2> QED BY <2>1, <2>2 DEF Agree
  <1>8. Agree(base, branch, n - tail, m - tail, tail)
    <2>1. ASSUME NEW k \in 1..tail PROVE base[n - tail + k] = branch[m - tail + k]
      <3>1. tail \in Nat /\ tail - k \in 0 .. tail - 1
        BY <1>5
      <3>2. base[n - (tail - k)] = branch[m - (tail - k)]
        BY <1>5, <3>1
      <3>3. n - (tail - k) = n - tail + k /\ m - (tail - k) = m - tail + k
        BY <3>1
      <3> QED BY <3>2, <3>3
    <2> HIDE DEF S2
    <2> QED BY <2>1 DEF Agree
  <1>9. /\ start \in Nat /\ tail \in Nat /\ start + tail <= n /\ start + tail <= m
    BY <1>2, <1>4, <1>5
  <1> HIDE DEF S1, S2
  <1>10. PICK a : a = Window(base, branch)
    OBVIOUS
  <1>11. a.blo = start /\ a.clo = start /\ a.bhi = n - tail /\ a.chi = m - tail
    BY <1>6, <1>10
  <1>12. a \in Windows(base, branch)
    <2>1. n - tail \in 0..n /\ m - tail \in 0..m /\ start \in 0..n /\ start \in 0..m
      BY <1>9
    <2> QED BY <1>1, <1>6, <1>10, <2>1 DEF Windows
  <1>13. Ordered(a) /\ a.bhi + tail = n /\ a.chi + tail = m
    BY <1>9, <1>11 DEF Ordered
  <1>14. Agree(base, branch, a.bhi, a.chi, tail)
    BY <1>8, <1>11
  <1> QED BY <1>1, <1>7, <1>9, <1>10, <1>11, <1>12, <1>13, <1>14

WholeTexts(base, branch) == [blo |-> 0, bhi |-> Len(base), clo |-> 0, chi |-> Len(branch)]

\* The edits of a branch are the spans between the equal parts of the two texts.
LEMMA EditsTraced ==
    ASSUME NEW L, NEW base \in Seq(L), NEW branch \in Seq(L)
    PROVE  Traced(base, branch, WholeTexts(base, branch), Edits(base, branch))
  <1>1. PICK start \in Nat, tail \in Nat, w \in Windows(base, branch) :
              /\ w = Window(base, branch)
              /\ w \in Windows(base, branch) /\ Ordered(w)
              /\ w.blo = start /\ w.clo = start
              /\ w.bhi + tail = Len(base) /\ w.chi + tail = Len(branch)
              /\ Agree(base, branch, 0, 0, start) /\ Agree(base, branch, w.bhi, w.chi, tail)
    BY Margins
  <1>2. PICK es : es = Edits(base, branch) /\ Traced(base, branch, w, es)
    BY <1>1, GapsTraced DEF Edits
  <1>3. PICK V : es \in Seq(V)
    <2>0. PICK n \in Nat : \E tr : es = [i \in 1..n |-> EditAt(branch, tr[i])]
      BY <1>2 DEF Traced
    <2>1. PICK tr : es = [i \in 1..n |-> EditAt(branch, tr[i])]
      BY <2>0
    <2> DEFINE V == {EditAt(branch, tr[i]) : i \in 1..n}
    <2>2. es \in Seq(V)
      BY <2>1
    <2> QED BY <2>2
  <1>4. << >> \o es = es /\ es \o << >> = es
    BY <1>3, ConcatEmptySeq
  <1>5. PICK n \in Nat, m \in Nat : n = Len(base) /\ m = Len(branch)
    OBVIOUS
  <1>6. PICK e \in 0..n, d \in 0..m : e = w.bhi /\ d = w.chi
    BY <1>1, <1>5 DEF Windows
  <1>7. PICK f : f = [blo |-> 0, bhi |-> e, clo |-> 0, chi |-> d]
    OBVIOUS
  <1>8. Traced(base, branch, f, es)
    <2>1. CASE start = 0
      <3>1. f = w
        BY <1>1, <1>6, <1>7, <2>1 DEF Windows
      <3> QED BY <1>2, <3>1
    <2>2. CASE 0 < start
      <3>1. PICK z : z = [blo |-> 0, bhi |-> 0, clo |-> 0, chi |-> 0]
        OBVIOUS
      <3>2. z \in Windows(base, branch) /\ z.blo = 0 /\ z.bhi = 0 /\ z.clo = 0 /\ z.chi = 0
        BY <3>1 DEF Windows
      <3>3. Traced(base, branch, z, << >>)
        BY <3>2, EmptyTraced
      <3>4. /\ z.blo = f.blo /\ z.clo = f.clo /\ w.bhi = f.bhi /\ w.chi = f.chi
            /\ w.blo = z.bhi + start /\ w.clo = z.chi + start
        BY <1>1, <1>6, <1>7, <3>2
      <3>5. Agree(base, branch, z.bhi, z.chi, start)
        BY <1>1, <3>2
      <3>6. Traced(base, branch, f, << >> \o es)
        BY <1>2, <2>2, <3>3, <3>4, <3>5, TracedJoin
      <3> QED BY <1>4, <3>6
    <2> QED BY <2>1, <2>2
  <1>9. PICK g : g = WholeTexts(base, branch)
    OBVIOUS
  <1>10. g.blo = 0 /\ g.clo = 0 /\ g.bhi = n /\ g.chi = m
    BY <1>5, <1>9 DEF WholeTexts
  <1>11. Traced(base, branch, g, es)
    <2>1. CASE tail = 0
      <3>1. f = g
        BY <1>1, <1>5, <1>6, <1>7, <1>9, <2>1 DEF WholeTexts
      <3> QED BY <1>8, <3>1
    <2>2. CASE 0 < tail
      <3>1. PICK z : z = [blo |-> n, bhi |-> n, clo |-> m, chi |-> m]
        OBVIOUS
      <3>2. z \in Windows(base, branch) /\ z.blo = n /\ z.bhi = n /\ z.clo = m /\ z.chi = m
        BY <1>5, <3>1 DEF Windows
      <3>3. Traced(base, branch, z, << >>)
        BY <3>2, EmptyTraced
      <3>4. /\ f.blo = g.blo /\ f.clo = g.clo /\ z.bhi = g.bhi /\ z.chi = g.chi
            /\ z.blo = f.bhi + tail /\ z.clo = f.chi + tail
        BY <1>1, <1>5, <1>6, <1>7, <1>10, <3>2
      <3>5. Agree(base, branch, f.bhi, f.chi, tail)
        BY <1>1, <1>6, <1>7
      <3>6. Traced(base, branch, g, es \o << >>)
        BY <1>8, <2>2, <3>3, <3>4, <3>5, TracedJoin
      <3> QED BY <1>4, <3>6
    <2> QED BY <2>1, <2>2
  <1> QED BY <1>2, <1>9, <1>11

-----------------------------------------------------------------------------
(* Weaving the edits of a branch into their base gives the branch.          *)

\* The y elements of a sequence behind the first x.
LEMMA PartFacts ==
    ASSUME NEW L, NEW s \in Seq(L), NEW x \in Nat, NEW y \in Nat, x + y <= Len(s)
    PROVE  LET t == SubSeq(s, x + 1, x + y)
           IN t \in Seq(L) /\ Len(t) = y /\ \A i \in 1..y : t[i] = s[x + i]
  <1>1. PICK t, a, b : t = SubSeq(s, a, b) /\ a = x + 1 /\ b = x + y
    OBVIOUS
  <1>2. a \in Nat /\ b \in Nat /\ 1 <= a /\ b <= Len(s) /\ b - a + 1 = y
    BY <1>1
  <1>3. \A i \in a..b : s[i] \in L
    <2>1. \A i \in a..b : i \in 1 .. Len(s)
      BY <1>2
    <2> QED BY <2>1
  <1>4. /\ t \in Seq(L) /\ Len(t) = IF a <= b THEN b - a + 1 ELSE 0
        /\ \A i \in 1 .. b - a + 1 : t[i] = s[a + i - 1]
    BY <1>1, <1>2, <1>3, SubSeqProperties
  <1>5. Len(t) = y
    BY <1>2, <1>4
  <1>6. ASSUME NEW i \in 1..y PROVE t[i] = s[x + i]
    <2>1. a + i - 1 = x + i
      BY <1>1
    <2> QED BY <1>2, <1>4, <2>1
  <1> QED BY <1>1, <1>4, <1>5, <1>6

\* A part of the base that the branch has too.
LEMMA EqualParts ==
    ASSUME NEW L, NEW base \in Seq(L), NEW branch \in Seq(L), NEW b \in Nat, NEW c \in Nat,
           NEW k \in Nat, b + k <= Len(base), c + k <= Len(branch), Agree(base, branch, b, c, k)
    PROVE  SubSeq(base, b + 1, b + k) = SubSeq(branch, c + 1, c + k)
  <1>1. PICK s : s = SubSeq(base, b + 1, b + k)
    OBVIOUS
  <1>2. PICK t : t = SubSeq(branch, c + 1, c + k)
    OBVIOUS
  <1>3. s \in Seq(L) /\ Len(s) = k /\ \A i \in 1..k : s[i] = base[b + i]
    BY <1>1, PartFacts
  <1>4. t \in Seq(L) /\ Len(t) = k /\ \A i \in 1..k : t[i] = branch[c + i]
    BY <1>2, PartFacts
  <1>5. \A i \in 1..k : s[i] = t[i]
    BY <1>3, <1>4 DEF Agree
  <1>6. s = t
    BY <1>3, <1>4, <1>5, SeqEqual
  <1> QED BY <1>1, <1>2, <1>6

\* Two parts of a sequence that follow one another are one part.
LEMMA PartsJoin ==
    ASSUME NEW L, NEW s \in Seq(L), NEW x \in Nat, NEW y \in Nat, NEW z \in Nat,
           x <= y, y <= z, z <= Len(s)
    PROVE  /\ SubSeq(s, x + 1, y) \in Seq(L)
           /\ SubSeq(s, x + 1, y) \o SubSeq(s, y + 1, z) = SubSeq(s, x + 1, z)
  <1>1. \A i \in 1..z : s[i] \in L
    OBVIOUS
  <1>2. PICK k \in Nat, j \in Nat : y = x + k /\ z = x + k + j
    <2>1. y - x \in Nat /\ z - y \in Nat /\ y = x + (y - x) /\ z = x + (y - x) + (z - y)
      OBVIOUS
    <2> QED BY <2>1
  <1>3. PICK p, q, r : p = SubSeq(s, x + 1, y) /\ q = SubSeq(s, y + 1, z) /\ r = SubSeq(s, x + 1, z)
    OBVIOUS
  <1>4. p \in Seq(L) /\ Len(p) = k /\ \A i \in 1..k : p[i] = s[x + i]
    BY <1>1, <1>2, <1>3, SubSeqProperties
  <1>5. q \in Seq(L) /\ Len(q) = j /\ \A i \in 1..j : q[i] = s[x + k + i]
    BY <1>1, <1>2, <1>3, SubSeqProperties
  <1>6. r \in Seq(L) /\ Len(r) = k + j /\ \A i \in 1 .. k + j : r[i] = s[x + i]
    BY <1>1, <1>2, <1>3, SubSeqProperties
  <1>7. /\ p \o q \in Seq(L) /\ Len(p \o q) = k + j
        /\ \A i \in 1 .. k + j : (p \o q)[i] = IF i <= k THEN p[i] ELSE q[i - k]
    <2>1. /\ p \o q \in Seq(L) /\ Len(p \o q) = Len(p) + Len(q)
          /\ \A i \in 1 .. Len(p) + Len(q) : (p \o q)[i] = IF i <= Len(p) THEN p[i] ELSE q[i - Len(p)]
      <3>1. p \in Seq(L) /\ q \in Seq(L)
        BY <1>4, <1>5
      <3> QED BY <3>1, ConcatProperties, Zenon
    <2>2. Len(p) = k /\ Len(q) = j
      BY <1>4, <1>5
    <2> QED BY <2>1, <2>2
  <1>8. ASSUME NEW i \in 1 .. k + j PROVE (p \o q)[i] = r[i]
    <2>1. CASE i <= k
      <3>1. i \in 1..k
        BY <2>1
      <3>2. (p \o q)[i] = p[i]
        BY <1>7, <2>1
      <3>3. p[i] = s[x + i] /\ r[i] = s[x + i]
        BY <1>4, <1>6, <3>1
      <3> QED BY <3>2, <3>3
    <2>2. CASE k < i
      <3>1. PICK g \in 1..j : g = i - k /\ x + k + g = x + i /\ ~(i <= k)
        BY <2>2
      <3>2. (p \o q)[i] = q[g]
        BY <1>7, <3>1
      <3>3. q[g] = s[x + k + g] /\ r[i] = s[x + i]
        BY <1>5, <1>6
      <3> QED BY <3>1, <3>2, <3>3
    <2>3. i <= k \/ k < i
      OBVIOUS
    <2> QED BY <2>1, <2>2, <2>3, Zenon
  <1>9. p \o q = r
    BY <1>6, <1>7, <1>8, SeqEqual
  <1> QED BY <1>3, <1>4, <1>9

LEMMA PrefixJoin ==
    ASSUME NEW L, NEW s \in Seq(L), NEW y \in Nat, NEW z \in Nat, y <= z, z <= Len(s)
    PROVE  /\ SubSeq(s, 1, y) \in Seq(L)
           /\ SubSeq(s, 1, y) \o SubSeq(s, y + 1, z) = SubSeq(s, 1, z)
  <1>1. PICK x \in Nat : x = 0 /\ x <= y /\ x + 1 = 1
    OBVIOUS
  <1>2. /\ SubSeq(s, x + 1, y) \in Seq(L)
        /\ SubSeq(s, x + 1, y) \o SubSeq(s, y + 1, z) = SubSeq(s, x + 1, z)
    BY <1>1, PartsJoin
  <1> QED BY <1>1, <1>2

\* What the loop of Weave has after each edit.
Weaves(base, L, edits, w) ==
    /\ w[0] = [lines |-> << >>, cursor |-> 0]
    /\ \A i \in 0 .. Len(edits) : w[i].lines \in Seq(L) /\ w[i].cursor \in 0..Len(base)
    /\ \A i \in 1 .. Len(edits) :
          /\ w[i].lines = w[i - 1].lines \o SubSeq(base, w[i - 1].cursor + 1, edits[i].start)
                             \o edits[i].replacement
          /\ w[i].cursor = edits[i].end
    /\ Weave(base, edits) = w[Len(edits)].lines
                               \o SubSeq(base, w[Len(edits)].cursor + 1, Len(base))

LEMMA WeaveUnfolded ==
    ASSUME NEW L, NEW base \in Seq(L), NEW edits \in Seq(EditsOver(base, L))
    PROVE  \E w : Weaves(base, L, edits, w)
  <1> DEFINE n == Len(edits)
             D == [lines : Seq(L), cursor : 0..Len(base)]
             Next1(done, edit) ==
                [lines  |-> done.lines \o SubSeq(base, done.cursor + 1, edit.start)
                               \o edit.replacement,
                 cursor |-> edit.end]
             step == [a \in (1..n) \X D |-> Next1(a[2], edits[a[1]])]
             first == [lines |-> << >>, cursor |-> 0]
             woven[i \in 0 .. n] == IF i = 0 THEN first ELSE Next1(woven[i - 1], edits[i])
  <1>1. n \in Nat /\ Len(base) \in Nat /\ edits \in [1..n -> EditsOver(base, L)]
    OBVIOUS
  <1>2. first \in D
    BY <1>1, EmptySeq
  <1>3. ASSUME NEW done \in D, NEW edit \in EditsOver(base, L) PROVE Next1(done, edit) \in D
    <2>1. /\ done.lines \in Seq(L) /\ done.cursor \in 0..Len(base) /\ edit.replacement \in Seq(L)
          /\ edit.start \in 0..Len(base) /\ edit.end \in 0..Len(base)
      BY DEF EditsOver
    <2>2. PICK c \in Nat, s \in Nat : c = done.cursor + 1 /\ s = edit.start /\ 1 <= c /\ s <= Len(base)
      BY <1>1, <2>1
    <2>3. \A i \in c .. s : base[i] \in L
      BY <1>1, <2>2
    <2>4. SubSeq(base, c, s) \in Seq(L)
      BY <2>2, <2>3, SubSeqProperties
    <2>5. done.lines \o SubSeq(base, c, s) \in Seq(L)
      BY <2>1, <2>4, ConcatProperties
    <2>6. done.lines \o SubSeq(base, c, s) \o edit.replacement \in Seq(L)
      BY <2>1, <2>5, ConcatProperties
    <2> QED BY <2>1, <2>2, <2>6
  <1>4. step \in [(1..n) \X D -> D]
    <2> HIDE DEF D, Next1
    <2> QED BY <1>1, <1>3
  <1>5. \E f : f = [i \in 0..n |-> IF i = 0 THEN first ELSE Next1(f[i - 1], edits[i])]
    <2>1. PICK f : Repeats(n, D, first, step, f)
      <3> HIDE DEF step, n, D, first
      <3> QED BY <1>1, <1>2, <1>4, Repeated, Zenon
    <2>2. ASSUME NEW i \in 1..n PROVE f[i] = Next1(f[i - 1], edits[i])
      <3>1. i - 1 \in 0..n /\ f[i - 1] \in D /\ f[i] = step[<<i, f[i - 1]>>]
        <4> HIDE DEF n, step, D
        <4> QED BY <1>1, <2>1 DEF Repeats
      <3>2. <<i, f[i - 1]>> \in (1..n) \X D
        BY <3>1
      <3> HIDE DEF D, Next1
      <3> QED BY <3>1, <3>2
    <2>3. f = [i \in 0..n |-> f[i]] /\ f[0] = first
      <3> HIDE DEF D, step, first
      <3> QED BY <2>1 DEF Repeats
    <2>4. ASSUME NEW i \in 0..n
          PROVE  f[i] = IF i = 0 THEN first ELSE Next1(f[i - 1], edits[i])
      <3>1. i = 0 \/ i \in 1..n
        BY <1>1
      <3> HIDE DEF D, Next1, step, first
      <3> QED BY <2>2, <2>3, <3>1
    <2> HIDE DEF n, Next1, first
    <2> QED BY <2>3, <2>4
  <1>6. woven = [i \in 0..n |-> IF i = 0 THEN first ELSE Next1(woven[i - 1], edits[i])]
    <2> HIDE DEF n, Next1, first
    <2> QED BY <1>5
  <1>7. Weave(base, edits) = woven[n].lines \o SubSeq(base, woven[n].cursor + 1, Len(base))
    BY DEF Weave
  <1> HIDE DEF woven
  <1>8. woven[0] = first /\ \A i \in 1..n : woven[i] = Next1(woven[i - 1], edits[i])
    <2> HIDE DEF n, Next1, first
    <2> QED BY <1>1, <1>6
  <1>9. \A i \in 0..n : woven[i] \in D
    <2> DEFINE S == {i \in 0..n : woven[i] \in D}
    <2>1. 0 \in S
      <3> HIDE DEF D, first
      <3> QED BY <1>1, <1>2, <1>8
    <2>2. \A i \in 1..n : i - 1 \in S => i \in S
      <3> HIDE DEF D, Next1
      <3> QED BY <1>1, <1>3, <1>8
    <2>3. 0..n \subseteq S
      <3> HIDE DEF S, n
      <3> QED BY <1>1, <2>1, <2>2, Throughout
    <2> QED BY <2>3
  <1>10. \A i \in 0..n : woven[i].lines \in Seq(L) /\ woven[i].cursor \in 0..Len(base)
    BY <1>9
  <1>11. \A i \in 1..n :
          /\ woven[i].lines = woven[i - 1].lines \o SubSeq(base, woven[i - 1].cursor + 1, edits[i].start)
                             \o edits[i].replacement
          /\ woven[i].cursor = edits[i].end
    <2> TAKE i \in 1..n
    <2>1. woven[i] = Next1(woven[i - 1], edits[i])
      BY <1>8
    <2>2. PICK done, edit : done = woven[i - 1] /\ edit = edits[i]
      OBVIOUS
    <2>3. /\ Next1(done, edit).lines = done.lines \o SubSeq(base, done.cursor + 1, edit.start)
                                           \o edit.replacement
          /\ Next1(done, edit).cursor = edit.end
      OBVIOUS
    <2> HIDE DEF Next1
    <2> QED BY <2>1, <2>2, <2>3
  <1>12. Weaves(base, L, edits, woven)
    BY <1>7, <1>8, <1>10, <1>11 DEF Weaves
  <1> QED BY <1>12

LEMMA FourInOrder == \A a, b, c, d \in Nat : a < b /\ b <= c /\ c < d => a < d
  OBVIOUS

\* Traced edits carry one text into the other.
LEMMA TracedWeave ==
    ASSUME NEW L, NEW base \in Seq(L), NEW branch \in Seq(L), NEW edits,
           Traced(base, branch, WholeTexts(base, branch), edits)
    PROVE  edits \in Seq(EditsOver(base, L)) /\ Weave(base, edits) = branch
  <1>0. PICK n \in Nat : \E tr : /\ Trace(base, branch, WholeTexts(base, branch), n, tr)
                                 /\ edits = [i \in 1..n |-> EditAt(branch, tr[i])]
    BY DEF Traced
  <1>1. PICK tr : /\ Trace(base, branch, WholeTexts(base, branch), n, tr)
                  /\ edits = [i \in 1..n |-> EditAt(branch, tr[i])]
    BY <1>0
  <1>2. PICK m \in Nat, l \in Nat : m = Len(base) /\ l = Len(branch)
    OBVIOUS
  <1>3. /\ tr[0].end = 0 /\ tr[0].chi = 0 /\ tr[n + 1].start = m /\ tr[n + 1].clo = l
        /\ \A i \in 0 .. n + 1 : tr[i] \in Spans(base, branch)
        /\ \A i \in 0..n : Link(base, branch, tr[i], tr[i + 1])
    <2>1. PICK a : a = WholeTexts(base, branch)
      OBVIOUS
    <2>2. a.blo = 0 /\ a.clo = 0 /\ a.bhi = m /\ a.chi = l
      BY <1>2, <2>1 DEF WholeTexts
    <2>3. Trace(base, branch, a, n, tr)
      BY <1>1, <2>1
    <2> QED BY <2>2, <2>3 DEF Trace
  <1>4. ASSUME NEW i \in 0 .. n + 1
        PROVE  /\ tr[i].start \in Nat /\ tr[i].end \in Nat /\ tr[i].clo \in Nat /\ tr[i].chi \in Nat
               /\ tr[i].start <= tr[i].end /\ tr[i].clo <= tr[i].chi
               /\ tr[i].end <= m /\ tr[i].chi <= l
    BY <1>2, <1>3, SpanFields
  <1>5. ASSUME NEW i \in 1..n
        PROVE  /\ edits[i] \in EditsOver(base, L)
               /\ edits[i].start = tr[i].start /\ edits[i].end = tr[i].end
               /\ edits[i].replacement = SubSeq(branch, tr[i].clo + 1, tr[i].chi)
    <2>1. i \in 0 .. n + 1 /\ edits[i] = EditAt(branch, tr[i])
      BY <1>1
    <2>2. SubSeq(branch, tr[i].clo + 1, tr[i].chi) \in Seq(L)
      BY <1>2, <1>4, <2>1, PartsJoin
    <2>3. tr[i].start \in 0..m /\ tr[i].end \in 0..m
      BY <1>4, <2>1
    <2>4. PICK x, part : x = tr[i] /\ part = SubSeq(branch, x.clo + 1, x.chi)
      OBVIOUS
    <2>5. edits[i] = [start |-> x.start, end |-> x.end, replacement |-> part]
      BY <2>1, <2>4 DEF EditAt
    <2>6. x.start \in 0..m /\ x.end \in 0..m /\ part \in Seq(L)
      BY <2>2, <2>3, <2>4
    <2>7. edits[i] \in EditsOver(base, L)
      BY <1>2, <2>5, <2>6 DEF EditsOver
    <2>8. edits[i].start = x.start /\ edits[i].end = x.end /\ edits[i].replacement = part
      BY <2>5
    <2> QED BY <2>4, <2>7, <2>8
  <1>6. edits \in Seq(EditsOver(base, L)) /\ Len(edits) = n
    <2>1. PICK E : E = EditsOver(base, L)
      OBVIOUS
    <2>2. edits \in [1..n -> E]
      BY <1>1, <1>5, <2>1
    <2> QED BY <2>1, <2>2
  <1>7. PICK w : Weaves(base, L, edits, w)
    BY <1>6, WeaveUnfolded
  <1>8. ASSUME NEW i \in 0..n
        PROVE  SubSeq(base, tr[i].end + 1, tr[i + 1].start)
                  = SubSeq(branch, tr[i].chi + 1, tr[i + 1].clo)
               /\ tr[i].chi <= tr[i + 1].clo
    <2>1. i \in 0 .. n + 1 /\ i + 1 \in 0 .. n + 1
      OBVIOUS
    <2>2. Link(base, branch, tr[i], tr[i + 1])
      BY <1>3
    <2>3. PICK b \in Nat, c \in Nat, e \in Nat, d \in Nat :
             /\ b = tr[i].end /\ c = tr[i].chi /\ e = tr[i + 1].start /\ d = tr[i + 1].clo
             /\ e <= m /\ d <= l
      <3>1. tr[i].end \in Nat /\ tr[i].chi \in Nat
        BY <1>4, <2>1
      <3>2. PICK j : j = i + 1 /\ j \in 0 .. n + 1
        BY <2>1
      <3>3. /\ tr[j].start \in Nat /\ tr[j].clo \in Nat
            /\ tr[j].start <= tr[j].end /\ tr[j].clo <= tr[j].chi
            /\ tr[j].end \in Nat /\ tr[j].chi \in Nat /\ tr[j].end <= m /\ tr[j].chi <= l
        BY <1>4, <3>2
      <3>4. tr[j].start <= m /\ tr[j].clo <= l
        BY <3>3
      <3> QED BY <3>1, <3>2, <3>3, <3>4
    <2>4. b <= e /\ e - b = d - c
      BY <2>2, <2>3 DEF Link
    <2>5. PICK k \in Nat : e = b + k /\ d = c + k
      <3>1. e - b \in Nat /\ e = b + (e - b) /\ d = c + (e - b)
        BY <2>4
      <3> QED BY <3>1
    <2>6. Agree(base, branch, b, c, k)
      <3>1. tr[i + 1].start - tr[i].end = k
        BY <2>3, <2>5
      <3> QED BY <2>2, <2>3, <3>1 DEF Link
    <2>7. SubSeq(base, b + 1, b + k) = SubSeq(branch, c + 1, c + k)
      <3>1. b + k <= Len(base) /\ c + k <= Len(branch)
        BY <1>2, <2>3, <2>5
      <3> QED BY <2>6, <3>1, EqualParts
    <2>8. c <= d
      BY <2>5
    <2> QED BY <2>3, <2>5, <2>7, <2>8
  <1> DEFINE S == {i \in 0..n : w[i].lines = SubSeq(branch, 1, tr[i].chi) /\ w[i].cursor = tr[i].end}
  <1>9. 0 \in S
    <2>1. w[0].lines = << >> /\ w[0].cursor = 0
      BY <1>7 DEF Weaves
    <2>2. SubSeq(branch, 1, 0) = << >>
      BY SubSeqEmpty
    <2>3. w[0].lines = SubSeq(branch, 1, tr[0].chi) /\ w[0].cursor = tr[0].end
      BY <1>3, <2>1, <2>2
    <2>4. 0 \in 0..n
      OBVIOUS
    <2> QED BY <2>3, <2>4
  <1>10. ASSUME NEW i \in 1..n, i - 1 \in S PROVE i \in S
    <2>1. PICK h : h = i - 1 /\ h \in 0..n /\ h + 1 = i
      OBVIOUS
    <2>2. w[h].lines = SubSeq(branch, 1, tr[h].chi) /\ w[h].cursor = tr[h].end
      BY <1>10, <2>1
    <2>3. PICK x \in Nat, y \in Nat, z \in Nat :
             x = tr[h].chi /\ y = tr[i].clo /\ z = tr[i].chi /\ x <= y /\ y <= z /\ z <= l
      <3>1. h \in 0 .. n + 1 /\ i \in 0 .. n + 1
        BY <2>1
      <3>2. tr[h].chi <= tr[i].clo
        BY <1>8, <2>1
      <3> QED BY <1>4, <3>1, <3>2
    <2>4. w[i].lines = w[h].lines \o SubSeq(base, w[h].cursor + 1, edits[i].start)
                          \o edits[i].replacement
          /\ w[i].cursor = edits[i].end
      BY <1>6, <1>7, <2>1 DEF Weaves
    <2>5. w[i].lines = SubSeq(branch, 1, x) \o SubSeq(branch, x + 1, y) \o SubSeq(branch, y + 1, z)
      <3>1. SubSeq(base, tr[h].end + 1, tr[i].start) = SubSeq(branch, x + 1, y)
        BY <1>8, <2>1, <2>3
      <3>2. SubSeq(base, w[h].cursor + 1, edits[i].start) = SubSeq(branch, x + 1, y)
        BY <1>5, <2>2, <3>1
      <3>3. edits[i].replacement = SubSeq(branch, y + 1, z)
        BY <1>5, <2>3
      <3> QED BY <2>2, <2>3, <2>4, <3>2, <3>3
    <2>6. SubSeq(branch, 1, x) \o SubSeq(branch, x + 1, y) = SubSeq(branch, 1, y)
      <3>1. y <= Len(branch)
        BY <1>2, <2>3
      <3>2. x \in Nat /\ y \in Nat /\ x <= y
        BY <2>3
      <3> QED BY <3>1, <3>2, PrefixJoin
    <2>7. SubSeq(branch, 1, y) \o SubSeq(branch, y + 1, z) = SubSeq(branch, 1, z)
      <3>1. z <= Len(branch)
        BY <1>2, <2>3
      <3>2. y \in Nat /\ z \in Nat /\ y <= z
        BY <2>3
      <3> QED BY <3>1, <3>2, PrefixJoin
    <2>8. w[i].lines = SubSeq(branch, 1, z)
      BY <2>5, <2>6, <2>7
    <2>9. w[i].cursor = tr[i].end
      BY <1>5, <2>4
    <2> QED BY <2>3, <2>8, <2>9
  <1>11. 0..n \subseteq S
    <2> HIDE DEF S
    <2> QED BY <1>9, <1>10, Throughout
  <1>12. w[n].lines = SubSeq(branch, 1, tr[n].chi) /\ w[n].cursor = tr[n].end
    BY <1>11
  <1>13. Weave(base, edits) = w[n].lines \o SubSeq(base, w[n].cursor + 1, m)
    BY <1>2, <1>6, <1>7 DEF Weaves
  <1>14. PICK x \in Nat : x = tr[n].chi /\ x <= l
    BY <1>4
  <1>15. SubSeq(base, tr[n].end + 1, m) = SubSeq(branch, x + 1, l)
    <2>1. n \in 0..n
      OBVIOUS
    <2>2. SubSeq(base, tr[n].end + 1, tr[n + 1].start) = SubSeq(branch, tr[n].chi + 1, tr[n + 1].clo)
      BY <1>8, <2>1
    <2> QED BY <1>3, <1>14, <2>2
  <1>16. Weave(base, edits) = SubSeq(branch, 1, x) \o SubSeq(branch, x + 1, l)
    BY <1>12, <1>13, <1>14, <1>15
  <1>17. SubSeq(branch, 1, x) \o SubSeq(branch, x + 1, l) = SubSeq(branch, 1, l)
    <2>1. l <= Len(branch)
      BY <1>2
    <2> QED BY <1>14, <2>1, PrefixJoin
  <1>18. SubSeq(branch, 1, l) = branch
    <2>1. \A i \in 1..l : branch[i] \in L
      BY <1>2
    <2>2. /\ SubSeq(branch, 1, l) \in Seq(L) /\ Len(SubSeq(branch, 1, l)) = l
          /\ \A i \in 1..l : SubSeq(branch, 1, l)[i] = branch[i]
      BY <2>1, SubSeqProperties
    <2> QED BY <1>2, <2>2, SeqEqual
  <1> QED BY <1>6, <1>16, <1>17, <1>18

\* Weaving a branch's own edits into the base gives the branch.
LEMMA EditsWeave ==
    ASSUME NEW L, NEW base \in Seq(L), NEW branch \in Seq(L)
    PROVE  /\ Edits(base, branch) \in Seq(EditsOver(base, L))
           /\ Weave(base, Edits(base, branch)) = branch
  BY EditsTraced, TracedWeave

-----------------------------------------------------------------------------
(* Weaving edits in order is putting each of them at its place.             *)

\* Edits one after the other, with a line of the base between any two.
InOrder(base, L, edits) ==
    /\ edits \in Seq(EditsOver(base, L))
    /\ \A i \in 1 .. Len(edits) : edits[i].start <= edits[i].end
    /\ \A i, j \in 1 .. Len(edits) : i < j => edits[i].end < edits[j].start

\* What FlattenSeq has joined after each sequence.
Flattens(L, seqs, f) ==
    /\ f[0] = << >>
    /\ \A i \in 0 .. Len(seqs) : f[i] \in Seq(L)
    /\ \A i \in 1 .. Len(seqs) : f[i] = f[i - 1] \o seqs[i]
    /\ FlattenSeq(seqs) = f[Len(seqs)]

LEMMA FlattenUnfolded ==
    ASSUME NEW L, NEW n \in Nat, NEW seqs \in [1..n -> Seq(L)]
    PROVE  \E f : Flattens(L, seqs, f)
  <1> DEFINE step == [a \in (1..n) \X Seq(L) |-> a[2] \o seqs[a[1]]]
             flatten[i \in 1..n] == IF i = 1 THEN seqs[i] ELSE flatten[i - 1] \o seqs[i]
  <1>1. Len(seqs) = n /\ << >> \in Seq(L)
    BY EmptySeq
  <1>2. step \in [(1..n) \X Seq(L) -> Seq(L)]
    <2>1. ASSUME NEW i \in 1..n, NEW s \in Seq(L) PROVE s \o seqs[i] \in Seq(L)
      BY ConcatProperties
    <2> QED BY <2>1
  <1>3. PICK f : Repeats(n, Seq(L), << >>, step, f)
    <2> HIDE DEF step
    <2> QED BY <1>1, <1>2, Repeated, Zenon
  <1>4. f[0] = << >> /\ \A i \in 0..n : f[i] \in Seq(L)
    <2> HIDE DEF step
    <2> QED BY <1>3 DEF Repeats
  <1>5. ASSUME NEW i \in 1..n PROVE f[i] = f[i - 1] \o seqs[i]
    <2>1. i - 1 \in 0..n /\ f[i - 1] \in Seq(L) /\ f[i] = step[<<i, f[i - 1]>>]
      <3> HIDE DEF step
      <3> QED BY <1>3 DEF Repeats
    <2>2. <<i, f[i - 1]>> \in (1..n) \X Seq(L)
      BY <2>1
    <2> QED BY <2>1, <2>2
  <1>6. ASSUME n # 0 PROVE f[1] = seqs[1]
    <2>1. 1 \in 1..n /\ 1 - 1 = 0
      BY <1>6
    <2>2. f[1] = f[1 - 1] \o seqs[1]
      BY <1>5, <2>1
    <2>3. f[1] = << >> \o seqs[1] /\ seqs[1] \in Seq(L)
      BY <1>4, <2>1, <2>2
    <2> QED BY <2>3, ConcatEmptySeq
  <1>7. \E h : h = [i \in 1..n |-> IF i = 1 THEN seqs[i] ELSE h[i - 1] \o seqs[i]]
    <2>1. PICK h : h = [i \in 1..n |-> f[i]]
      OBVIOUS
    <2>2. ASSUME NEW i \in 1..n PROVE f[i] = IF i = 1 THEN seqs[i] ELSE h[i - 1] \o seqs[i]
      <3>1. CASE i = 1
        <4>1. n # 0
          BY <3>1
        <4> QED BY <1>6, <3>1, <4>1
      <3>2. CASE i # 1
        <4>1. h[i - 1] = f[i - 1]
          BY <2>1, <3>2
        <4> QED BY <1>5, <3>2, <4>1
      <3> QED BY <3>1, <3>2
    <2>3. h = [i \in 1..n |-> IF i = 1 THEN seqs[i] ELSE h[i - 1] \o seqs[i]]
      BY <2>1, <2>2
    <2> QED BY <2>3
  <1>8. flatten = [i \in 1..n |-> IF i = 1 THEN seqs[i] ELSE flatten[i - 1] \o seqs[i]]
    BY <1>7
  <1>9. n # 0 => FlattenSeq(seqs) = flatten[n]
    BY <1>1 DEF FlattenSeq
  <1> HIDE DEF flatten
  <1>10. \A i \in 1..n : flatten[i] = IF i = 1 THEN seqs[i] ELSE flatten[i - 1] \o seqs[i]
    BY <1>8
  <1> DEFINE S == {i \in 0..n : i # 0 => flatten[i] = f[i]}
  <1>11. 0..n \subseteq S
    <2>1. 0 \in S
      OBVIOUS
    <2>2. ASSUME NEW i \in 1..n, i - 1 \in S PROVE i \in S
      <3>1. CASE i = 1
        <4>1. n # 0
          BY <3>1
        <4>2. flatten[i] = f[i]
          BY <1>10, <1>6, <3>1, <4>1
        <4> QED BY <4>2
      <3>2. CASE i # 1
        <4>1. flatten[i] = flatten[i - 1] \o seqs[i]
          BY <1>10, <3>2
        <4>2. i - 1 # 0 /\ flatten[i - 1] = f[i - 1]
          BY <2>2, <3>2
        <4>3. flatten[i] = f[i]
          BY <1>5, <4>1, <4>2
        <4> QED BY <4>3
      <3> QED BY <3>1, <3>2
    <2> HIDE DEF S
    <2> QED BY <2>1, <2>2, Throughout
  <1>12. FlattenSeq(seqs) = f[n]
    <2>1. CASE n = 0
      <3>1. FlattenSeq(seqs) = seqs /\ seqs = << >>
        BY <1>1, <2>1 DEF FlattenSeq
      <3> QED BY <1>4, <2>1, <3>1
    <2>2. CASE n # 0
      BY <1>9, <1>11, <2>2
    <2> QED BY <2>1, <2>2
  <1> QED BY <1>1, <1>4, <1>5, <1>12 DEF Flattens

\* The only replacement at a place, and none.
LEMMA FlattenOne ==
    ASSUME NEW L, NEW r \in Seq(L)
    PROVE  FlattenSeq(SetToSeq({r})) = r /\ FlattenSeq(SetToSeq({})) = << >>
  <1>1. SetToSeq({r}) = <<r>>
    <2>1. Cardinality({r}) = 1
      BY FS_Singleton
    <2>2. PICK s : s = SetToSeq({r})
      OBVIOUS
    <2>3. s = CHOOSE f \in [1..1 -> {r}] : IsInjective(f)
      BY <2>1, <2>2 DEF SetToSeq
    <2>4. <<r>> \in [1..1 -> {r}] /\ IsInjective(<<r>>)
      BY DEF IsInjective
    <2>5. s \in [1..1 -> {r}]
      BY <2>3, <2>4
    <2>6. s = <<r>>
      BY <2>5
    <2> QED BY <2>2, <2>6
  <1>2. SetToSeq({}) = << >>
    <2>1. Cardinality({}) = 0
      BY FS_EmptySet
    <2>2. PICK s : s = SetToSeq({})
      OBVIOUS
    <2>3. s = CHOOSE f \in [1..0 -> {}] : IsInjective(f)
      BY <2>1, <2>2 DEF SetToSeq
    <2>4. << >> \in [1..0 -> {}] /\ IsInjective(<< >>)
      BY DEF IsInjective
    <2>5. s \in [1..0 -> {}]
      BY <2>3, <2>4
    <2>6. s = << >>
      BY <2>5
    <2> QED BY <2>2, <2>6
  <1>3. FlattenSeq(<<r>>) = r
    <2>0. PICK seqs : seqs = <<r>>
      OBVIOUS
    <2>1. PICK n \in Nat : seqs = <<r>> /\ n = 1
      BY <2>0
    <2>2. seqs \in [1..n -> Seq(L)] /\ Len(seqs) = n /\ seqs[1] = r
      BY <2>1
    <2>3. PICK f : Flattens(L, seqs, f)
      BY <2>2, FlattenUnfolded
    <2>4. FlattenSeq(seqs) = f[1] /\ f[1] = << >> \o r
      <3>1. 1 \in 1 .. Len(seqs) /\ 1 - 1 = 0 /\ Len(seqs) = 1
        BY <2>1, <2>2
      <3>2. FlattenSeq(seqs) = f[Len(seqs)] /\ f[1] = f[1 - 1] \o seqs[1] /\ f[0] = << >>
        BY <2>3, <3>1 DEF Flattens
      <3> QED BY <2>2, <3>1, <3>2
    <2> QED BY <2>1, <2>4, ConcatEmptySeq
  <1>4. FlattenSeq(<< >>) = << >>
    BY DEF FlattenSeq
  <1> QED BY <1>1, <1>2, <1>3, <1>4

\* The base from behind a place on, one line further.
TailAt(base, c, g) == IF g > Len(base) \/ c >= g THEN << >> ELSE <<base[g]>>
UpTo(base, c, g) == SubSeq(base, c + 1, IF g <= Len(base) THEN g ELSE Len(base))
Behind(base, c, g) == SubSeq(base, c + 1, g - 1)

LEMMA TailStep ==
    ASSUME NEW L, NEW base \in Seq(L), NEW c \in 0 .. Len(base), NEW g \in 1 .. Len(base) + 1
    PROVE  /\ TailAt(base, c, g) \in Seq(L) /\ Behind(base, c, g) \in Seq(L)
           /\ Behind(base, c, g) \o TailAt(base, c, g) = UpTo(base, c, g)
           /\ g - 1 <= c => Behind(base, c, g) = << >>
  <1>0. PICK n \in Nat, tail \in {TailAt(base, c, g)} : n = Len(base) /\ tail = TailAt(base, c, g)
    OBVIOUS
  <1>1. c \in Nat /\ g \in Nat /\ g - 1 \in Nat /\ g - 1 <= n
    BY <1>0
  <1>2. SubSeq(base, c + 1, g - 1) \in Seq(L)
    <2>1. \A i \in c + 1 .. g - 1 : base[i] \in L
      BY <1>1
    <2> QED BY <1>1, <2>1, SubSeqProperties
  <1>3. ASSUME g > n \/ c >= g
        PROVE  /\ tail \in Seq(L)
               /\ SubSeq(base, c + 1, g - 1) \o tail = SubSeq(base, c + 1, IF g <= n THEN g ELSE n)
    <2>1. SubSeq(base, c + 1, g - 1) = SubSeq(base, c + 1, IF g <= n THEN g ELSE n)
      <3>1. CASE g > n
        <4>1. g - 1 = n
          BY <1>0, <3>1
        <4> QED BY <3>1, <4>1
      <3>2. CASE g <= n /\ c >= g
        <4>1. g - 1 < c + 1 /\ g < c + 1 /\ c + 1 \in Int
          BY <3>2
        <4>2. SubSeq(base, c + 1, g - 1) = << >> /\ SubSeq(base, c + 1, g) = << >>
          BY <1>1, <4>1, SubSeqEmpty
        <4> QED BY <3>2, <4>2
      <3> QED BY <1>3, <3>1, <3>2
    <2>2. tail = << >>
      BY <1>0, <1>3 DEF TailAt
    <2>3. SubSeq(base, c + 1, g - 1) \o << >> = SubSeq(base, c + 1, g - 1) /\ << >> \in Seq(L)
      BY <1>2, ConcatEmptySeq, EmptySeq
    <2> QED BY <2>1, <2>2, <2>3
  <1>4. ASSUME g <= n, c < g
        PROVE  /\ tail \in Seq(L)
               /\ SubSeq(base, c + 1, g - 1) \o tail = SubSeq(base, c + 1, IF g <= n THEN g ELSE n)
    <2>0. PICK x \in L : x = base[g]
      BY <1>0, <1>1, <1>4
    <2>1. tail = <<base[g]>> /\ base[g] \in L /\ tail \in Seq(L)
      BY <1>0, <1>1, <1>4, <2>0 DEF TailAt
    <2>2. tail = SubSeq(base, (g - 1) + 1, g)
      <3>1. PICK t : t = SubSeq(base, (g - 1) + 1, g)
        OBVIOUS
      <3>2. \A i \in (g - 1) + 1 .. g : base[i] \in L
        BY <2>1
      <3>3. t \in Seq(L) /\ Len(t) = 1 /\ t[1] = base[g]
        BY <1>1, <3>1, <3>2, SubSeqProperties
      <3>4. Len(tail) = 1 /\ tail[1] = base[g]
        <4>1. tail = <<x>>
          BY <2>0, <2>1
        <4> QED BY <2>0, <4>1
      <3>5. \A i \in 1..1 : tail[i] = t[i]
        BY <3>3, <3>4
      <3>6. tail = t
        BY <2>1, <3>3, <3>4, <3>5, SeqEqual
      <3> QED BY <3>1, <3>6
    <2>3. c <= g - 1 /\ g - 1 <= g /\ g <= Len(base)
      BY <1>0, <1>1, <1>4
    <2>4. SubSeq(base, c + 1, g - 1) \o SubSeq(base, (g - 1) + 1, g) = SubSeq(base, c + 1, g)
      BY <1>1, <2>3, PartsJoin
    <2>5. tail \in Seq(L) /\ SubSeq(base, c + 1, g - 1) \o tail = SubSeq(base, c + 1, g)
      BY <2>1, <2>2, <2>4
    <2> QED BY <1>4, <2>5
  <1>5. /\ tail \in Seq(L)
        /\ SubSeq(base, c + 1, g - 1) \o tail = SubSeq(base, c + 1, IF g <= n THEN g ELSE n)
    BY <1>1, <1>3, <1>4
  <1>6. g - 1 <= c => SubSeq(base, c + 1, g - 1) = << >>
    <2>1. g - 1 <= c => g - 1 < c + 1 /\ c + 1 \in Int
      BY <1>1
    <2> QED BY <1>1, <2>1, SubSeqEmpty
  <1> QED BY <1>0, <1>2, <1>5, <1>6 DEF UpTo, Behind

Joint(L, done, r, tail, lines) ==
    /\ done \in Seq(L) /\ r \in Seq(L) /\ tail \in Seq(L) /\ lines = done \o r

LEMMA Regrouped ==
    ASSUME NEW L, NEW done, NEW r, NEW tail, NEW lines, Joint(L, done, r, tail, lines)
    PROVE  done \o (r \o tail) = lines \o tail /\ r \o tail \in Seq(L)
  <1>1. /\ done \in Seq(L) /\ r \in Seq(L) /\ tail \in Seq(L) /\ lines = done \o r
    BY DEF Joint
  <1>2. (done \o r) \o tail = done \o (r \o tail)
    BY <1>1, ConcatAssociative
  <1>3. r \o tail \in Seq(L)
    BY <1>1, ConcatProperties
  <1> QED BY <1>1, <1>2, <1>3

\* One gap of Woven: the lines inserted or replaced there, and the next line.
ChunkAt(base, edits, g) ==
    FlattenSeq(SetToSeq({e.replacement : e \in {x \in edits : x.start = g - 1}}))
    \o IF g > Len(base) \/ \E e \in edits : e.start < g /\ g <= e.end
       THEN << >> ELSE <<base[g]>>

\* The edits up to the i-th are those that start before the g-th line.
Begun(edits, i, g) ==
    \A k \in 1 .. Len(edits) : k <= i <=> edits[k].start < g

\* The lines are those of the loop after these edits, and the base up to the g-th line.
Reaches(base, edits, w, g, lines) ==
    \E i \in 0 .. Len(edits) :
       Begun(edits, i, g) /\ lines = w[i].lines \o UpTo(base, w[i].cursor, g)

LEMMA ChunkFacts ==
    ASSUME NEW L, NEW base \in Seq(L), NEW edits,
           InOrder(base, L, edits), NEW w, Weaves(base, L, edits, w),
           NEW g \in 1 .. Len(base) + 1, NEW done, Reaches(base, edits, w, g - 1, done)
    PROVE  /\ ChunkAt(base, Range(edits), g) \in Seq(L)
           /\ Reaches(base, edits, w, g, done \o ChunkAt(base, Range(edits), g))
  <1>1. PICK m \in Nat, n \in Nat : m = Len(edits) /\ n = Len(base)
    BY DEF InOrder
  <1>0. PICK h \in 0..m : Begun(edits, h, g - 1) /\ done = w[h].lines \o Behind(base, w[h].cursor, g)
    <2>1. PICK h \in 0..m : Begun(edits, h, g - 1) /\ done = w[h].lines \o UpTo(base, w[h].cursor, g - 1)
      BY <1>1 DEF Reaches
    <2>2. (IF g - 1 <= Len(base) THEN g - 1 ELSE Len(base)) = g - 1
      BY <1>1
    <2> QED BY <2>1, <2>2 DEF UpTo, Behind
  <1>2. /\ DOMAIN edits = 1..m /\ Range(edits) = {edits[k] : k \in 1..m}
        /\ \A k \in 1..m : /\ edits[k].start \in 0..n /\ edits[k].end \in 0..n
                           /\ edits[k].replacement \in Seq(L)
                           /\ edits[k].start \in Nat /\ edits[k].end \in Nat
                           /\ edits[k].start <= edits[k].end
        /\ \A k, l \in 1..m : k < l => edits[k].end < edits[l].start
    <2>1. edits \in [1..m -> EditsOver(base, L)]
      BY <1>1 DEF InOrder
    <2>2. ASSUME NEW k \in 1..m
          PROVE  /\ edits[k].start \in 0..n /\ edits[k].end \in 0..n
                 /\ edits[k].replacement \in Seq(L)
      <3>1. PICK e : e = edits[k] /\ e \in EditsOver(base, L)
        BY <2>1
      <3> QED BY <1>1, <3>1 DEF EditsOver
    <2>3. ASSUME NEW k \in 1..m PROVE edits[k].start \in Nat /\ edits[k].end \in Nat
      BY <2>2
    <2>4. DOMAIN edits = 1..m /\ Range(edits) = {edits[k] : k \in 1..m}
      BY <2>1 DEF Range
    <2> QED BY <1>1, <2>2, <2>3, <2>4 DEF InOrder
  <1>3. /\ \A i \in 0..m : w[i].lines \in Seq(L) /\ w[i].cursor \in 0..n
        /\ w[0].cursor = 0
        /\ \A i \in 1..m : w[i].cursor = edits[i].end
    BY <1>1 DEF Weaves
  <1>4. PICK c \in 0..n : c = w[h].cursor
    BY <1>1, <1>3
  <1>5. PICK starting : starting = {e.replacement : e \in {x \in Range(edits) : x.start = g - 1}}
    OBVIOUS
  <1>6. PICK tail : tail = IF g > n \/ \E e \in Range(edits) : e.start < g /\ g <= e.end
                           THEN << >> ELSE <<base[g]>>
    OBVIOUS
  <1>7. ChunkAt(base, Range(edits), g) = FlattenSeq(SetToSeq(starting)) \o tail
    BY <1>1, <1>5, <1>6 DEF ChunkAt
  \* Whether a line is covered shows in the edit before it.
  <1>8. ASSUME NEW i \in 0..m, Begun(edits, i, g)
        PROVE  (\E e \in Range(edits) : e.start < g /\ g <= e.end) <=> w[i].cursor >= g
    <2>1. ASSUME NEW e \in Range(edits), e.start < g, g <= e.end PROVE w[i].cursor >= g
      <3>1. PICK k \in 1..m : e = edits[k]
        BY <1>2, <2>1
      <3>2. k <= i
        BY <1>1, <1>8, <2>1, <3>1 DEF Begun
      <3>3. i \in 1..m /\ (k < i \/ k = i)
        BY <3>1, <3>2
      <3>4. edits[k].end <= edits[i].end
        <4>1. CASE k < i
          <5>1. edits[k].end < edits[i].start /\ edits[i].start <= edits[i].end
            BY <1>2, <3>1, <3>3, <4>1
          <5>2. edits[k].end \in Nat /\ edits[i].start \in Nat /\ edits[i].end \in Nat
            BY <1>2, <3>1, <3>3
          <5> QED BY <5>1, <5>2
        <4>2. CASE k = i
          BY <1>2, <3>3, <4>2
        <4> QED BY <3>3, <4>1, <4>2
      <3>5. edits[k].end \in Nat /\ edits[i].end \in Nat /\ w[i].cursor = edits[i].end
        BY <1>2, <1>3, <3>1, <3>3
      <3> QED BY <2>1, <3>1, <3>4, <3>5
    <2>2. ASSUME w[i].cursor >= g PROVE \E e \in Range(edits) : e.start < g /\ g <= e.end
      <3>1. i # 0
        BY <1>3, <2>2
      <3>2. i \in 1..m /\ i <= i
        BY <3>1
      <3>3. edits[i] \in Range(edits) /\ edits[i].start < g
        BY <1>1, <1>2, <1>8, <3>2 DEF Begun
      <3>4. g <= edits[i].end
        BY <1>2, <1>3, <2>2, <3>2
      <3> QED BY <3>3, <3>4
    <2> QED BY <2>1, <2>2
  <1>9. CASE \E k \in 1..m : edits[k].start = g - 1
    <2>1. PICK k \in 1..m : edits[k].start = g - 1
      BY <1>9
    <2>2. k = h + 1
      <3>1. ~(k <= h)
        BY <1>0, <1>1, <2>1 DEF Begun
      <3>2. ASSUME h + 1 < k PROVE FALSE
        <4>1. h + 1 \in 1..m
          BY <1>1, <3>2
        <4>2. edits[h + 1].end < edits[k].start /\ edits[h + 1].start <= edits[h + 1].end
          BY <1>2, <3>2, <4>1
        <4>3. edits[h + 1].start \in Nat /\ edits[h + 1].end \in Nat
          BY <1>2, <4>1
        <4>4. edits[h + 1].start < g - 1
          BY <2>1, <4>2, <4>3
        <4>5. h + 1 <= h
          BY <1>0, <1>1, <4>1, <4>4 DEF Begun
        <4> QED BY <1>1, <4>5
      <3> QED BY <1>1, <3>1, <3>2
    <2>3. PICK r \in Seq(L), d \in 0..n : r = edits[k].replacement /\ d = edits[k].end
      BY <1>2
    <2>4. starting = {r}
      <3>1. ASSUME NEW l \in 1..m, edits[l].start = g - 1 PROVE l = k
        <4>1. edits[l].end \in Nat /\ edits[k].end \in Nat /\ edits[k].start <= edits[k].end
              /\ edits[l].start <= edits[l].end
          BY <1>2
        <4>2. ~(l < k) /\ ~(k < l)
          BY <1>2, <2>1, <3>1, <4>1
        <4> QED BY <4>2
      <3>2. {x \in Range(edits) : x.start = g - 1} = {edits[k]}
        BY <1>2, <2>1, <3>1
      <3> QED BY <1>5, <2>3, <3>2
    <2>5. Begun(edits, k, g)
      <3>1. ASSUME NEW l \in 1..m PROVE l <= k <=> edits[l].start < g
        <4>1. edits[l].start \in Nat /\ edits[l].end \in Nat /\ edits[k].end \in Nat
              /\ edits[k].start <= edits[k].end
          BY <1>2
        <4>2. CASE l <= h
          <5>1. edits[l].start < g - 1
            BY <1>0, <1>1, <4>2 DEF Begun
          <5> QED BY <1>1, <2>2, <4>1, <4>2, <5>1
        <4>3. CASE l = k
          BY <2>1, <4>3
        <4>4. CASE k < l
          <5>1. edits[k].end < edits[l].start
            BY <1>2, <4>4
          <5>2. PICK a \in Nat, b \in Nat, x \in Nat :
                   a = edits[k].start /\ b = edits[k].end /\ x = edits[l].start
            BY <1>2
          <5>3. a = g - 1 /\ a <= b /\ b < x
            BY <2>1, <4>1, <5>1, <5>2
          <5>4. ~(x < g)
            BY <5>3
          <5> QED BY <4>1, <4>4, <5>2, <5>4
        <4> QED BY <1>1, <2>2, <4>2, <4>3, <4>4
      <3> QED BY <1>1, <3>1 DEF Begun
    <2>6. tail = TailAt(base, d, g)
      <3>1. k \in 0..m /\ w[k].cursor = d
        BY <1>3, <2>3
      <3>2. (\E e \in Range(edits) : e.start < g /\ g <= e.end) <=> d >= g
        BY <1>8, <2>5, <3>1
      <3> QED BY <1>1, <1>6, <3>2 DEF TailAt
    <2>7. tail \in Seq(L) /\ Behind(base, d, g) \o tail = UpTo(base, d, g)
      BY <1>1, <2>6, TailStep
    <2>8. Behind(base, d, g) = << >>
      <3>1. g - 1 <= d
        BY <1>2, <2>1, <2>3
      <3> QED BY <1>1, <3>1, TailStep
    <2>9. tail = UpTo(base, d, g)
      BY <2>7, <2>8, ConcatEmptySeq
    <2>10. ChunkAt(base, Range(edits), g) = r \o tail
      BY <1>7, <2>4, FlattenOne
    <2>11. done \in Seq(L) /\ w[k].lines = done \o r /\ w[k].lines \in Seq(L)
      <3>1. w[k].lines = w[k - 1].lines \o SubSeq(base, w[k - 1].cursor + 1, edits[k].start)
                              \o edits[k].replacement
        BY <1>1 DEF Weaves
      <3>2. k - 1 = h
        BY <1>1, <2>2
      <3>3. w[k].lines = done \o r
        BY <1>0, <2>1, <2>3, <3>1, <3>2 DEF Behind
      <3>4. w[h].lines \in Seq(L) /\ Behind(base, c, g) \in Seq(L)
        BY <1>1, <1>3, TailStep
      <3>5. done \in Seq(L)
        BY <1>0, <1>4, <3>4, ConcatProperties
      <3>6. k \in 0..m
        OBVIOUS
      <3> QED BY <1>3, <3>3, <3>5, <3>6
    <2>12. done \o (r \o tail) = w[k].lines \o tail /\ r \o tail \in Seq(L)
      <3>1. Joint(L, done, r, tail, w[k].lines)
        BY <2>7, <2>11 DEF Joint
      <3> QED BY <3>1, Regrouped
    <2>13. k \in 0 .. Len(edits) /\ w[k].cursor = d
      BY <1>1, <1>3, <2>3
    <2>14. done \o ChunkAt(base, Range(edits), g) = w[k].lines \o UpTo(base, w[k].cursor, g)
      BY <2>9, <2>10, <2>12, <2>13
    <2> QED BY <2>5, <2>10, <2>12, <2>13, <2>14 DEF Reaches
  <1>10. CASE ~ \E k \in 1..m : edits[k].start = g - 1
    <2>1. starting = {}
      BY <1>2, <1>5, <1>10
    <2>2. Begun(edits, h, g)
      <3>1. ASSUME NEW l \in 1..m PROVE l <= h <=> edits[l].start < g
        <4>1. l <= h <=> edits[l].start < g - 1
          BY <1>0, <1>1 DEF Begun
        <4>2. edits[l].start # g - 1 /\ edits[l].start \in Nat
          BY <1>2, <1>10
        <4> QED BY <4>1, <4>2
      <3> QED BY <1>1, <3>1 DEF Begun
    <2>3. tail = TailAt(base, c, g)
      <3>1. (\E e \in Range(edits) : e.start < g /\ g <= e.end) <=> c >= g
        BY <1>1, <1>4, <1>8, <2>2
      <3> QED BY <1>1, <1>6, <3>1 DEF TailAt
    <2>4. /\ tail \in Seq(L) /\ Behind(base, c, g) \in Seq(L)
          /\ Behind(base, c, g) \o tail = UpTo(base, c, g)
      BY <1>1, <2>3, TailStep
    <2>5. ChunkAt(base, Range(edits), g) = tail
      <3>1. FlattenSeq(SetToSeq({})) = << >>
        BY <2>4, FlattenOne
      <3> QED BY <1>7, <2>1, <2>4, <3>1, ConcatEmptySeq
    <2>6. w[h].lines \in Seq(L)
      BY <1>1, <1>3
    <2>7. done \o tail = w[h].lines \o (Behind(base, c, g) \o tail)
      <3>1. PICK a \in Seq(L), b \in Seq(L) : a = w[h].lines /\ b = Behind(base, c, g)
        BY <2>4, <2>6
      <3>2. done = a \o b
        BY <1>0, <1>4, <3>1
      <3>3. PICK z \in Seq(L) : z = tail
        BY <2>4
      <3>4. (a \o b) \o z = a \o (b \o z)
        BY ConcatAssociative
      <3> QED BY <3>1, <3>2, <3>3, <3>4
    <2>8. done \o ChunkAt(base, Range(edits), g) = w[h].lines \o UpTo(base, w[h].cursor, g)
      BY <1>4, <2>4, <2>5, <2>7
    <2>9. ChunkAt(base, Range(edits), g) \in Seq(L) /\ h \in 0 .. Len(edits)
      BY <1>1, <2>4, <2>5
    <2> QED BY <2>2, <2>8, <2>9 DEF Reaches
  <1> QED BY <1>9, <1>10

\* The loop of Weave puts every edit at its place.
LEMMA WeaveIsWoven ==
    ASSUME NEW L, NEW base \in Seq(L), NEW edits, InOrder(base, L, edits)
    PROVE  Weave(base, edits) = Woven(base, Range(edits))
  <1>1. PICK n \in Nat, m \in Nat : n = Len(base) /\ m = Len(edits)
    BY DEF InOrder
  <1>2. edits \in Seq(EditsOver(base, L))
    BY DEF InOrder
  <1>3. PICK w : Weaves(base, L, edits, w)
    BY <1>2, WeaveUnfolded
  <1>4. /\ \A i \in 0..m : w[i].lines \in Seq(L) /\ w[i].cursor \in 0..n
        /\ w[0].lines = << >> /\ w[0].cursor = 0
        /\ Weave(base, edits) = w[m].lines \o SubSeq(base, w[m].cursor + 1, n)
    BY <1>1, <1>3 DEF Weaves
  <1>5. PICK chunks : chunks = [g \in 1 .. n + 1 |-> ChunkAt(base, Range(edits), g)]
    OBVIOUS
  <1>6. Woven(base, Range(edits)) = FlattenSeq(chunks)
    BY <1>1, <1>5 DEF Woven, ChunkAt
  <1>7. ASSUME NEW g \in 1 .. n + 1, NEW done, Reaches(base, edits, w, g - 1, done)
        PROVE  chunks[g] \in Seq(L) /\ Reaches(base, edits, w, g, done \o chunks[g])
    <2>1. chunks[g] = ChunkAt(base, Range(edits), g)
      BY <1>5
    <2>2. g \in 1 .. Len(base) + 1
      BY <1>1
    <2> QED BY <1>3, <1>7, <2>1, <2>2, ChunkFacts
  <1>8. Reaches(base, edits, w, 0, << >>)
    <2>1. Begun(edits, 0, 0)
      <3>1. ASSUME NEW k \in 1..m PROVE edits[k].start \in Nat
        <4>1. PICK e : e = edits[k] /\ e \in EditsOver(base, L)
          BY <1>1, <1>2
        <4> QED BY <1>1, <4>1 DEF EditsOver
      <3> QED BY <1>1, <3>1 DEF Begun
    <2>2. UpTo(base, 0, 0) = << >>
      <3>1. UpTo(base, 0, 0) = SubSeq(base, 1, 0)
        BY <1>1 DEF UpTo
      <3> QED BY <3>1, SubSeqEmpty
    <2>3. << >> \o << >> = << >>
      BY ConcatEmptySeq, EmptySeq
    <2>4. << >> = w[0].lines \o UpTo(base, w[0].cursor, 0)
      BY <1>4, <2>2, <2>3
    <2>5. 0 \in 0 .. Len(edits)
      BY <1>1
    <2> QED BY <2>1, <2>4, <2>5 DEF Reaches
  <1>9. PICK k \in Nat : k = n + 1
    OBVIOUS
  <1>10. ASSUME NEW g \in 0..k PROVE \E done : Reaches(base, edits, w, g, done)
    <2> DEFINE S == {x \in 0..k : \E done : Reaches(base, edits, w, x, done)}
    <2>1. 0 \in S
      BY <1>8
    <2>2. \A x \in 1..k : x - 1 \in S => x \in S
      BY <1>7, <1>9
    <2>3. 0..k \subseteq S
      <3> HIDE DEF S
      <3> QED BY <2>1, <2>2, Throughout
    <2> QED BY <2>3
  <1>11. chunks \in [1..k -> Seq(L)]
    <2>1. ASSUME NEW g \in 1..k PROVE chunks[g] \in Seq(L)
      <3>1. g - 1 \in 0..k
        OBVIOUS
      <3>2. PICK done : Reaches(base, edits, w, g - 1, done)
        BY <1>10, <3>1
      <3> QED BY <1>7, <1>9, <3>2
    <2> QED BY <1>5, <1>9, <2>1
  <1>12. PICK f : Flattens(L, chunks, f)
    BY <1>11, FlattenUnfolded
  <1>13. /\ f[0] = << >> /\ FlattenSeq(chunks) = f[n + 1]
         /\ \A g \in 1..k : f[g] = f[g - 1] \o chunks[g]
    <2>1. Len(chunks) = k
      BY <1>11
    <2> QED BY <1>9, <1>12, <2>1 DEF Flattens
  <1>14. Reaches(base, edits, w, n + 1, f[n + 1])
    <2> DEFINE S == {g \in 0..k : Reaches(base, edits, w, g, f[g])}
    <2>1. 0 \in S
      BY <1>8, <1>13
    <2>2. ASSUME NEW g \in 1..k, g - 1 \in S PROVE g \in S
      <3>1. PICK done : done = f[g - 1] /\ Reaches(base, edits, w, g - 1, done)
        BY <2>2
      <3>2. Reaches(base, edits, w, g, done \o chunks[g])
        BY <1>7, <1>9, <3>1
      <3>3. Reaches(base, edits, w, g, f[g])
        BY <1>13, <3>1, <3>2
      <3> QED BY <3>3
    <2>3. 0..k \subseteq S
      <3> HIDE DEF S
      <3> QED BY <2>1, <2>2, Throughout
    <2>4. k \in S
      <3> HIDE DEF S
      <3> QED BY <2>3
    <2> QED BY <1>9, <2>4
  <1>15. PICK i \in 0..m : /\ Begun(edits, i, n + 1)
                           /\ f[n + 1] = w[i].lines \o UpTo(base, w[i].cursor, n + 1)
    BY <1>1, <1>14 DEF Reaches
  <1>16. i = m
    <2>1. ASSUME i # m PROVE FALSE
      <3>1. m \in 1..m /\ ~(m <= i)
        BY <2>1
      <3>2. PICK e : e = edits[m] /\ e \in EditsOver(base, L)
        BY <1>1, <1>2, <3>1
      <3>3. edits[m].start \in 0..n
        BY <1>1, <3>2 DEF EditsOver
      <3>4. edits[m].start < n + 1
        BY <3>3
      <3> QED BY <1>1, <1>15, <3>1, <3>4 DEF Begun
    <2> QED BY <2>1
  <1>17. UpTo(base, w[m].cursor, n + 1) = SubSeq(base, w[m].cursor + 1, n)
    <2>1. (IF n + 1 <= Len(base) THEN n + 1 ELSE Len(base)) = n
      BY <1>1
    <2> QED BY <2>1 DEF UpTo
  <1> QED BY <1>4, <1>6, <1>13, <1>15, <1>16, <1>17

\* Traced edits are in order.
LEMMA TracedInOrder ==
    ASSUME NEW L, NEW base \in Seq(L), NEW branch \in Seq(L), NEW edits,
           Traced(base, branch, WholeTexts(base, branch), edits)
    PROVE  InOrder(base, L, edits)
  <1>0. PICK n \in Nat : \E tr : /\ Trace(base, branch, WholeTexts(base, branch), n, tr)
                                 /\ edits = [i \in 1..n |-> EditAt(branch, tr[i])]
    BY DEF Traced
  <1>1. PICK tr : /\ Trace(base, branch, WholeTexts(base, branch), n, tr)
                  /\ edits = [i \in 1..n |-> EditAt(branch, tr[i])]
    BY <1>0
  <1>2. edits \in Seq(EditsOver(base, L))
    BY TracedWeave
  <1>3. Len(edits) = n
    BY <1>1
  <1>4. ASSUME NEW i \in 1..n
        PROVE  /\ edits[i].start = tr[i].start /\ edits[i].end = tr[i].end
               /\ tr[i].start \in Nat /\ tr[i].end \in Nat /\ tr[i].start <= tr[i].end
    <2>1. edits[i] = EditAt(branch, tr[i]) /\ i \in 0 .. n + 1
      BY <1>1
    <2>2. PICK x : x = tr[i] /\ edits[i] = EditAt(branch, x) /\ x \in Spans(base, branch)
      BY <1>1, <2>1 DEF Trace
    <2>3. x.start \in Nat /\ x.end \in Nat /\ x.start <= x.end
      BY <2>2, SpanFields
    <2> QED BY <2>2, <2>3 DEF EditAt
  <1>5. \A i \in 1 .. n - 1 : tr[i].end < tr[i + 1].start
    BY <1>1 DEF Trace
  <1> DEFINE S == {j \in 0..n : \A i \in 1..n : i < j => tr[i].end < tr[j].start}
  <1>6. 0..n \subseteq S
    <2>1. 0 \in S
      OBVIOUS
    <2>2. ASSUME NEW j \in 1..n, j - 1 \in S PROVE j \in S
      <3>1. ASSUME NEW i \in 1..n, i < j PROVE tr[i].end < tr[j].start
        <4>1. PICK h : h = j - 1 /\ h \in 1 .. n - 1 /\ h + 1 = j /\ h \in 1..n
          BY <3>1
        <4>2. tr[h].end < tr[j].start
          BY <1>5, <4>1
        <4>3. CASE i = h
          BY <4>2, <4>3
        <4>4. CASE i < h
          <5>1. tr[i].end < tr[h].start
            BY <2>2, <4>1, <4>4
          <5>2. PICK a \in Nat, b \in Nat, c \in Nat, d \in Nat :
                   a = tr[i].end /\ b = tr[h].start /\ c = tr[h].end /\ d = tr[j].start /\ b <= c
            BY <1>4, <4>1
          <5>3. a < b /\ c < d
            BY <4>2, <5>1, <5>2
          <5>4. a < d
            BY <5>2, <5>3, FourInOrder, Zenon
          <5> QED BY <5>2, <5>4
        <4> QED BY <3>1, <4>1, <4>3, <4>4
      <3> QED BY <3>1
    <2> HIDE DEF S
    <2> QED BY <2>1, <2>2, Throughout
  <1>7. \A i, j \in 1..n : i < j => edits[i].end < edits[j].start
    BY <1>4, <1>6
  <1>8. \A i \in 1..n : edits[i].start <= edits[i].end
    BY <1>4
  <1> QED BY <1>2, <1>3, <1>7, <1>8 DEF InOrder

\* The base with the edits of a branch made to it is the branch.
LEMMA EditsWoven ==
    ASSUME NEW L, NEW base \in Seq(L), NEW branch \in Seq(L)
    PROVE  /\ InOrder(base, L, Edits(base, branch))
           /\ Woven(base, Range(Edits(base, branch))) = branch
  <1>1. InOrder(base, L, Edits(base, branch))
    BY EditsTraced, TracedInOrder
  <1> QED BY <1>1, EditsWeave, WeaveIsWoven

-----------------------------------------------------------------------------
(* The combination of the edits of both branches.                           *)

\* What _combine's loop finds from each pair of edits on.
Pairs(A, B) == (1 .. Len(A) + 1) \X (1 .. Len(B) + 1)
Combinations(E) == [clash : BOOLEAN, edits : Seq(E)]

Outcome(A, B, h, i, j) ==
    IF i > Len(A) \/ j > Len(B)
    THEN [clash |-> FALSE, edits |-> From(A, i) \o From(B, j)]
    ELSE IF SameEdit(A[i], B[j]) THEN Before(A[i], h[<<i + 1, j + 1>>])
    ELSE IF Separated(A[i], B[j]) THEN Before(A[i], h[<<i + 1, j>>])
    ELSE IF Separated(B[j], A[i]) THEN Before(B[j], h[<<i, j + 1>>])
    ELSE Clash

Combines(E, A, B, h) ==
    /\ h \in [Pairs(A, B) -> Combinations(E)]
    /\ \A i \in 1 .. Len(A) + 1, j \in 1 .. Len(B) + 1 : h[<<i, j>>] = Outcome(A, B, h, i, j)
    /\ Combine(A, B) = h[<<1, 1>>]

LEMMA FromFacts ==
    ASSUME NEW E, NEW A \in Seq(E), NEW i \in 1 .. Len(A) + 1
    PROVE  /\ From(A, i) \in Seq(E) /\ Len(From(A, i)) = Len(A) - i + 1
           /\ \A k \in 1 .. Len(A) - i + 1 : From(A, i)[k] = A[i + k - 1]
  <1>1. PICK p \in Nat : p = Len(A)
    OBVIOUS
  <1>2. \A k \in i..p : A[k] \in E
    BY <1>1
  <1>3. /\ SubSeq(A, i, p) \in Seq(E)
        /\ Len(SubSeq(A, i, p)) = IF i <= p THEN p - i + 1 ELSE 0
        /\ \A k \in 1 .. p - i + 1 : SubSeq(A, i, p)[k] = A[i + k - 1]
    BY <1>1, <1>2, SubSeqProperties
  <1>4. (IF i <= p THEN p - i + 1 ELSE 0) = p - i + 1
    BY <1>1
  <1> QED BY <1>1, <1>3, <1>4 DEF From

LEMMA BeforeFacts ==
    ASSUME NEW E, NEW e \in E, NEW r \in Combinations(E)
    PROVE  /\ Before(e, r) \in Combinations(E)
           /\ Before(e, r).clash = r.clash /\ Before(e, r).edits = <<e>> \o r.edits
  <1>1. r.clash \in BOOLEAN /\ r.edits \in Seq(E)
    BY DEF Combinations
  <1>2. <<e>> \o r.edits \in Seq(E)
    BY <1>1, ConcatProperties
  <1> QED BY <1>1, <1>2 DEF Combinations, Before

LEMMA SmallerPairs ==
    \A p, q : \A i, j \in Int : p \in Nat /\ q \in Nat =>
       /\ (p + 1 - (i + 1)) + (q + 1 - (j + 1)) < (p + 1 - i) + (q + 1 - j)
       /\ (p + 1 - (i + 1)) + (q + 1 - j) < (p + 1 - i) + (q + 1 - j)
       /\ (p + 1 - i) + (q + 1 - (j + 1)) < (p + 1 - i) + (q + 1 - j)
  OBVIOUS

LEMMA CombineUnfolded ==
    ASSUME NEW E, NEW A \in Seq(E), NEW B \in Seq(E)
    PROVE  \E h : Combines(E, A, B, h)
  <1>1. PICK p \in Nat, q \in Nat : p = Len(A) /\ q = Len(B)
    OBVIOUS
  <1> DEFINE D == Pairs(A, B)
             V == Combinations(E)
             Body(f, at) == Outcome(A, B, f, at[1], at[2])
             G == [f \in [D -> V] |-> [at \in D |-> Body(f, at)]]
             size == [at \in D |-> (p + 1 - at[1]) + (q + 1 - at[2])]
  <1>2. Clash \in V
    BY EmptySeq DEF Clash, Combinations
  <1>3. size \in [D -> 0 .. p + q]
    BY <1>1 DEF Pairs
  \* What a pair of edits looks at is smaller.
  <1>4. ASSUME NEW i \in 1..p, NEW j \in 1..q
        PROVE  /\ <<i, j>> \in D /\ <<i + 1, j + 1>> \in D /\ <<i + 1, j>> \in D /\ <<i, j + 1>> \in D
               /\ size[<<i + 1, j + 1>>] < size[<<i, j>>]
               /\ size[<<i + 1, j>>] < size[<<i, j>>] /\ size[<<i, j + 1>>] < size[<<i, j>>]
    <2>1. <<i, j>> \in D /\ <<i + 1, j + 1>> \in D /\ <<i + 1, j>> \in D /\ <<i, j + 1>> \in D
      BY <1>1 DEF Pairs
    <2>2. /\ size[<<i, j>>] = (p + 1 - i) + (q + 1 - j)
          /\ size[<<i + 1, j + 1>>] = (p + 1 - (i + 1)) + (q + 1 - (j + 1))
          /\ size[<<i + 1, j>>] = (p + 1 - (i + 1)) + (q + 1 - j)
          /\ size[<<i, j + 1>>] = (p + 1 - i) + (q + 1 - (j + 1))
      <3> HIDE DEF D
      <3> QED BY <2>1
    <2>3. i \in Int /\ j \in Int
      OBVIOUS
    <2> HIDE DEF D, size
    <2> QED BY <1>1, <2>1, <2>2, <2>3, SmallerPairs
  <1>5. ASSUME NEW f, NEW at \in D, \A y \in D : size[y] < size[at] => f[y] \in V
        PROVE  Body(f, at) \in V
    <2>1. PICK i \in 1 .. p + 1, j \in 1 .. q + 1 : at = <<i, j>>
      BY <1>1 DEF Pairs
    <2>2. CASE i > p \/ j > q
      <3>1. From(A, i) \in Seq(E) /\ From(B, j) \in Seq(E)
        BY <1>1, FromFacts
      <3>2. From(A, i) \o From(B, j) \in Seq(E)
        BY <3>1, ConcatProperties
      <3>3. Body(f, at) = [clash |-> FALSE, edits |-> From(A, i) \o From(B, j)]
        BY <1>1, <2>1, <2>2 DEF Outcome
      <3> QED BY <3>2, <3>3 DEF Combinations
    <2>3. CASE i \in 1..p /\ j \in 1..q
      <3>1. A[i] \in E /\ B[j] \in E
        BY <1>1, <2>3
      <3>2. f[<<i + 1, j + 1>>] \in V /\ f[<<i + 1, j>>] \in V /\ f[<<i, j + 1>>] \in V
        <4> HIDE DEF D, V, size
        <4> QED BY <1>4, <1>5, <2>1, <2>3
      <3>3. /\ Before(A[i], f[<<i + 1, j + 1>>]) \in V /\ Before(A[i], f[<<i + 1, j>>]) \in V
            /\ Before(B[j], f[<<i, j + 1>>]) \in V
        BY <3>1, <3>2, BeforeFacts
      <3>4. ~(i > Len(A) \/ j > Len(B))
        BY <1>1, <2>3
      <3>5. at[1] = i /\ at[2] = j
        BY <2>1
      <3> HIDE DEF V, D
      <3> QED BY <1>2, <3>3, <3>4, <3>5 DEF Outcome
    <2> QED BY <2>2, <2>3
  <1>6. G \in [[D -> V] -> [D -> V]]
    <2> HIDE DEF Body, D, V
    <2> QED BY <1>5
  <1>7. ASSUME NEW f \in [D -> V], NEW g \in [D -> V], NEW at \in D,
               \A y \in D : size[y] < size[at] => f[y] = g[y]
        PROVE  G[f][at] = G[g][at]
    <2>1. G[f][at] = Body(f, at) /\ G[g][at] = Body(g, at)
      <3> HIDE DEF Body, D, V
      <3> QED OBVIOUS
    <2>2. PICK i \in 1 .. p + 1, j \in 1 .. q + 1 : at = <<i, j>>
      BY <1>1 DEF Pairs
    <2>3. at[1] = i /\ at[2] = j
      BY <2>2
    <2>4. CASE i > p \/ j > q
      BY <1>1, <2>1, <2>3, <2>4 DEF Outcome
    <2>5. CASE i \in 1..p /\ j \in 1..q
      <3>1. /\ f[<<i + 1, j + 1>>] = g[<<i + 1, j + 1>>] /\ f[<<i + 1, j>>] = g[<<i + 1, j>>]
            /\ f[<<i, j + 1>>] = g[<<i, j + 1>>]
        <4> HIDE DEF D, V, size
        <4> QED BY <1>4, <1>7, <2>2, <2>5
      <3>2. Outcome(A, B, f, i, j) = Outcome(A, B, g, i, j)
        BY <3>1 DEF Outcome
      <3> HIDE DEF G
      <3> QED BY <2>1, <2>3, <3>2
    <2> QED BY <2>4, <2>5
  <1>8. PICK f \in [D -> V] : f = G[f]
    <2>1. Descends(D, V, size, G)
      <3> HIDE DEF D, V, size, G
      <3> QED BY <1>7 DEF Descends
    <2>2. p + q \in Nat
      OBVIOUS
    <2> HIDE DEF D, V, size, G
    <2>3. Solvable(D, V, G)
      BY <1>2, <1>3, <1>6, <2>1, <2>2, Recursion, Zenon
    <2> QED BY <2>3 DEF Solvable
  <1>9. f = [at \in D |-> Body(f, at)]
    <2> HIDE DEF D, V, Body
    <2> QED BY <1>8
  <1> DEFINE Solution(g) == g = [at \in D |-> Body(g, at)]
             combine == CHOOSE g : Solution(g)
  <1>10. Solution(combine)
    <2>1. Solution(f)
      BY <1>9
    <2> HIDE DEF Solution
    <2> QED BY <2>1
  <1>11. Combine(A, B) = combine[<<1, 1>>]
    BY DEF Combine, D, Pairs, Outcome
  <1> HIDE DEF combine
  <1>12. \A at \in D : combine[at] = Body(combine, at)
    <2> HIDE DEF Body, D
    <2> QED BY <1>10
  <1>13. \A at \in D : combine[at] \in V
    <2> DEFINE S == {k \in Nat : \A at \in D : size[at] <= k => combine[at] \in V}
    <2>1. \A at \in D : size[at] \in Nat /\ size[at] <= p + q
      <3> HIDE DEF size, D
      <3> QED BY <1>3
    <2>2. ASSUME NEW at \in D, \A y \in D : size[y] < size[at] => combine[y] \in V
          PROVE  combine[at] \in V
      <3> HIDE DEF Body, D, V, size
      <3> QED BY <1>5, <1>12, <2>2
    <2> HIDE DEF size, D, V
    <2>3. 0 \in S
      BY <2>1, <2>2
    <2>4. ASSUME NEW k \in Nat, k \in S PROVE k + 1 \in S
      <3>1. ASSUME NEW at \in D, size[at] <= k + 1 PROVE combine[at] \in V
        <4>1. \A y \in D : size[y] < size[at] => size[y] <= k
          BY <2>1, <3>1
        <4> QED BY <2>2, <2>4, <4>1
      <3> QED BY <3>1
    <2>5. p + q \in S
      <3>1. p + q \in Nat
        OBVIOUS
      <3> HIDE DEF S
      <3> QED BY <2>3, <2>4, <3>1, AllNumbers
    <2> QED BY <2>1, <2>5
  <1>14. combine = [at \in D |-> combine[at]]
    <2> HIDE DEF Body, D
    <2> QED BY <1>10
  <1>15. \A i \in 1 .. Len(A) + 1, j \in 1 .. Len(B) + 1 :
            <<i, j>> \in D /\ combine[<<i, j>>] = Outcome(A, B, combine, i, j)
    <2> TAKE i \in 1 .. Len(A) + 1, j \in 1 .. Len(B) + 1
    <2>1. PICK at : at = <<i, j>>
      OBVIOUS
    <2>2. at \in D /\ at[1] = i /\ at[2] = j
      BY <2>1 DEF Pairs
    <2> HIDE DEF D
    <2> QED BY <1>12, <2>1, <2>2
  <1>16. combine \in [D -> V]
    <2> HIDE DEF D, V
    <2> QED BY <1>13, <1>14
  <1> QED BY <1>11, <1>15, <1>16 DEF Combines

\* The edits from the i-th on.
After(A, i) == {A[k] : k \in i .. Len(A)}

\* The fields of the edits in order.
LEMMA InOrderFields ==
    ASSUME NEW L, NEW base \in Seq(L), NEW A, InOrder(base, L, A)
    PROVE  /\ Len(A) \in Nat /\ A \in Seq(EditsOver(base, L)) /\ Range(A) = After(A, 1)
           /\ \A k \in 1 .. Len(A) :
                 /\ A[k] \in EditsOver(base, L) /\ A[k].start \in Nat /\ A[k].end \in Nat
                 /\ A[k].start <= A[k].end /\ A[k].end <= Len(base)
           /\ \A k, l \in 1 .. Len(A) : k < l => A[k].end < A[l].start
  <1>1. A \in Seq(EditsOver(base, L)) /\ Len(A) \in Nat
    BY DEF InOrder
  <1>2. ASSUME NEW k \in 1 .. Len(A)
        PROVE  /\ A[k] \in EditsOver(base, L) /\ A[k].start \in Nat /\ A[k].end \in Nat
               /\ A[k].end <= Len(base)
    <2>1. PICK e : e = A[k] /\ e \in EditsOver(base, L)
      BY <1>1
    <2>2. e.start \in Nat /\ e.end \in Nat /\ e.end <= Len(base)
      BY <2>1 DEF EditsOver
    <2> QED BY <2>1, <2>2
  <1>3. Range(A) = After(A, 1)
    BY <1>1 DEF Range, After
  <1> QED BY <1>1, <1>2, <1>3 DEF InOrder

LEMMA ShiftedIndex ==
    \A p \in Nat : \A i \in 1 .. p + 1 : \A l \in 1 .. p - i + 1 : i + l - 1 \in i..p
  OBVIOUS

LEMMA InOrderFrom ==
    ASSUME NEW L, NEW base \in Seq(L), NEW A, InOrder(base, L, A), NEW i \in 1 .. Len(A) + 1
    PROVE  InOrder(base, L, From(A, i)) /\ Range(From(A, i)) = After(A, i)
  <1>0. PICK p \in Nat : p = Len(A)
    BY InOrderFields
  <1>1. PICK B : p = Len(A) /\ B = From(A, i)
    BY <1>0
  <1>2. A \in Seq(EditsOver(base, L))
    BY DEF InOrder
  <1>3. /\ B \in Seq(EditsOver(base, L)) /\ Len(B) = p - i + 1
        /\ \A k \in 1 .. p - i + 1 : B[k] = A[i + k - 1]
    BY <1>1, <1>2, FromFacts
  <1>4. \A k \in 1 .. p - i + 1 : i + k - 1 \in 1..p
    BY <1>1
  <1>5. \A k \in 1 .. p - i + 1 : B[k].start <= B[k].end
    BY <1>1, <1>3, <1>4 DEF InOrder
  <1>6. ASSUME NEW k \in 1 .. p - i + 1, NEW l \in 1 .. p - i + 1, k < l
        PROVE  B[k].end < B[l].start
    <2>1. i + k - 1 < i + l - 1
      BY <1>1, <1>6
    <2> QED BY <1>1, <1>3, <1>4, <2>1 DEF InOrder
  <1>7. Range(B) = After(A, i)
    <2>1. Range(B) = {B[k] : k \in 1 .. p - i + 1}
      BY <1>3 DEF Range
    <2>2. ASSUME NEW k \in i..p PROVE A[k] \in {B[l] : l \in 1 .. p - i + 1}
      <3>1. k - i + 1 \in 1 .. p - i + 1 /\ i + (k - i + 1) - 1 = k
        BY <1>1
      <3>2. B[k - i + 1] = A[k]
        BY <1>3, <3>1
      <3> QED BY <3>1, <3>2
    <2>3. ASSUME NEW l \in 1 .. p - i + 1 PROVE B[l] \in {A[k] : k \in i..p}
      <3>1. i + l - 1 \in i..p
        BY <1>1, ShiftedIndex
      <3>2. B[l] = A[i + l - 1]
        BY <1>3
      <3>3. PICK k, later : later = i..p /\ k = i + l - 1 /\ k \in later
        BY <3>1
      <3>4. A[k] \in {A[h] : h \in later}
        BY <3>3, Zenon
      <3> QED BY <3>2, <3>3, <3>4, Zenon
    <2>4. {B[k] : k \in 1 .. p - i + 1} \subseteq {A[k] : k \in i..p}
      BY <2>3, Zenon
    <2>5. {A[k] : k \in i..p} \subseteq {B[k] : k \in 1 .. p - i + 1}
      BY <2>2, Zenon
    <2>6. After(A, i) = {A[k] : k \in i..p}
      BY <1>1, Zenon DEF After
    <2> QED BY <2>1, <2>4, <2>5, <2>6, Zenon
  <1> QED BY <1>1, <1>3, <1>5, <1>6, <1>7 DEF InOrder

\* An edit before all the others stays in order with them.
LEMMA FirstInOrder ==
    ASSUME NEW L, NEW base \in Seq(L), NEW s, InOrder(base, L, s),
           NEW e \in EditsOver(base, L), e.start <= e.end, \A x \in Range(s) : e.end < x.start
    PROVE  InOrder(base, L, <<e>> \o s) /\ Range(<<e>> \o s) = {e} \cup Range(s)
  <1>0. PICK n \in Nat : n = Len(s)
    BY InOrderFields
  <1>1. PICK E, one, t : n = Len(s) /\ E = EditsOver(base, L) /\ one = <<e>> /\ t = <<e>> \o s
    BY <1>0
  <1>2. s \in Seq(E) /\ e \in E
    BY <1>1 DEF InOrder
  <1>3. one \in Seq(E) /\ Len(one) = 1 /\ one[1] = e
    BY <1>1, <1>2
  <1>4. t \in Seq(E) /\ Len(t) = n + 1 /\ t[1] = e /\ \A k \in 2 .. n + 1 : t[k] = s[k - 1]
    <2>1. t = Lists(one, s)
      BY <1>1, <1>2, <1>3, ListsJoin
    <2>2. t \in Seq(E)
      BY <1>1, <1>2, <1>3, ConcatProperties
    <2>3. t = [k \in 1 .. n + 1 |-> IF k <= 1 THEN one[k] ELSE s[k - 1]]
      BY <1>1, <1>3, <2>1 DEF Lists
    <2> QED BY <1>3, <2>2, <2>3
  <1>5. DOMAIN s = 1..n /\ DOMAIN t = 1 .. n + 1
    BY <1>1, <1>2, <1>4
  <1>6. \A k \in 1 .. n + 1 : t[k].start <= t[k].end
    <2> TAKE k \in 1 .. n + 1
    <2>1. CASE k = 1
      BY <1>4, <2>1
    <2>2. CASE k # 1
      <3>1. k - 1 \in 1..n /\ k \in 2 .. n + 1
        BY <2>2
      <3>2. s[k - 1].start <= s[k - 1].end
        BY <1>1, <3>1 DEF InOrder
      <3> QED BY <1>4, <3>1, <3>2
    <2> QED BY <2>1, <2>2
  <1>7. ASSUME NEW k \in 1 .. n + 1, NEW l \in 1 .. n + 1, k < l PROVE t[k].end < t[l].start
    <2>1. l - 1 \in 1..n /\ l \in 2 .. n + 1 /\ t[l] = s[l - 1]
      BY <1>4, <1>7
    <2>2. CASE k = 1
      <3>1. s[l - 1] \in Range(s)
        BY <1>5, <2>1 DEF Range
      <3> QED BY <1>4, <2>1, <2>2, <3>1
    <2>3. CASE k # 1
      <3>1. k - 1 \in 1..n /\ k \in 2 .. n + 1 /\ k - 1 < l - 1 /\ t[k] = s[k - 1]
        BY <1>4, <1>7, <2>3
      <3>2. s[k - 1].end < s[l - 1].start
        BY <1>1, <2>1, <3>1 DEF InOrder
      <3> QED BY <2>1, <3>1, <3>2
    <2> QED BY <2>2, <2>3
  <1>8. Range(t) = {e} \cup Range(s)
    <2>1. Range(t) = {t[k] : k \in 1 .. n + 1} /\ Range(s) = {s[k] : k \in 1..n}
      BY <1>5 DEF Range
    <2>2. ASSUME NEW k \in 1..n PROVE s[k] \in {t[l] : l \in 1 .. n + 1}
      <3>1. k + 1 \in 2 .. n + 1 /\ (k + 1) - 1 = k /\ k + 1 \in 1 .. n + 1
        OBVIOUS
      <3>2. t[k + 1] = s[k]
        BY <1>4, <3>1
      <3> QED BY <3>1, <3>2
    <2>3. e \in {t[l] : l \in 1 .. n + 1}
      BY <1>4
    <2>4. ASSUME NEW l \in 1 .. n + 1 PROVE t[l] = e \/ t[l] \in {s[k] : k \in 1..n}
      <3>1. CASE l = 1
        BY <1>4, <3>1
      <3>2. CASE l # 1
        <4>1. l - 1 \in 1..n /\ l \in 2 .. n + 1
          BY <3>2
        <4> QED BY <1>4, <4>1
      <3> QED BY <3>1, <3>2
    <2> QED BY <2>1, <2>2, <2>3, <2>4
  <1> QED BY <1>1, <1>4, <1>6, <1>7, <1>8 DEF InOrder

\* What follows an edit is behind it.
LEMMA AfterFacts ==
    ASSUME NEW L, NEW base \in Seq(L), NEW A, InOrder(base, L, A), NEW i \in 1 .. Len(A)
    PROVE  /\ After(A, i) = {A[i]} \cup After(A, i + 1)
           /\ \A x \in After(A, i + 1) : A[i].end < x.start
           /\ \A x \in After(A, i) : /\ x \in EditsOver(base, L) /\ x.start \in Nat /\ x.end \in Nat
                                     /\ x.start <= x.end /\ A[i].start <= x.start
  <1>1. PICK p \in Nat : p = Len(A)
    BY InOrderFields
  <1>2. After(A, i) = {A[i]} \cup After(A, i + 1)
    <2>1. i..p = {i} \cup (i + 1 .. p)
      BY <1>1
    <2> QED BY <1>1, <2>1 DEF After
  <1>3. \A x \in After(A, i + 1) : A[i].end < x.start
    BY <1>1, InOrderFields DEF After
  <1>4. ASSUME NEW x \in After(A, i)
        PROVE  x \in EditsOver(base, L) /\ x.start \in Nat /\ x.end \in Nat /\ x.start <= x.end
    BY <1>1, InOrderFields DEF After
  <1>5. ASSUME NEW x \in After(A, i) PROVE A[i].start <= x.start
    <2>1. A[i].start \in Nat /\ A[i].end \in Nat /\ A[i].start <= A[i].end
      BY InOrderFields
    <2>2. x = A[i] \/ A[i].end < x.start
      BY <1>2, <1>3
    <2>3. x.start \in Nat
      BY <1>4
    <2> QED BY <2>1, <2>2, <2>3
  <1> QED BY <1>2, <1>3, <1>4, <1>5

\* The outcome for two sets of edits: a clash where two of them touch, otherwise
\* all of both in order.
Sorts(base, L, X, Y, r) ==
    IF r.clash THEN Touch(X, Y)
    ELSE InOrder(base, L, r.edits) /\ Range(r.edits) = X \cup Y /\ ~Touch(X, Y)

LEMMA FirstSorts ==
    ASSUME NEW L, NEW base \in Seq(L), NEW X, NEW Y, NEW r \in Combinations(EditsOver(base, L)),
           Sorts(base, L, X, Y, r), NEW e \in EditsOver(base, L), e.start <= e.end,
           \A x \in X \cup Y : e.end < x.start /\ x.start \in Nat /\ x.end \in Nat
    PROVE  /\ Sorts(base, L, {e} \cup X, Y, Before(e, r))
           /\ Sorts(base, L, X, {e} \cup Y, Before(e, r))
           /\ e.start # e.end => Sorts(base, L, {e} \cup X, {e} \cup Y, Before(e, r))
  <1>1. PICK b : b = Before(e, r) /\ b.clash = r.clash /\ b.edits = <<e>> \o r.edits
    BY BeforeFacts
  <1>2. e.start \in Nat /\ e.end \in Nat
    BY DEF EditsOver
  <1>3. \A x \in X \cup Y : ~(x.start <= e.end)
    BY <1>2
  <1>4. Touch({e} \cup X, Y) <=> Touch(X, Y)
    BY <1>3 DEF Touch
  <1>5. Touch(X, {e} \cup Y) <=> Touch(X, Y)
    BY <1>3 DEF Touch
  <1>6. ASSUME e.start # e.end PROVE Touch({e} \cup X, {e} \cup Y) <=> Touch(X, Y)
    <2>1. SameEdit(e, e)
      BY <1>6 DEF SameEdit
    <2> QED BY <1>3, <2>1 DEF Touch
  <1>7. CASE r.clash
    BY <1>1, <1>4, <1>5, <1>6, <1>7 DEF Sorts
  <1>8. CASE ~r.clash
    <2>1. InOrder(base, L, r.edits) /\ Range(r.edits) = X \cup Y /\ ~Touch(X, Y)
      BY <1>8 DEF Sorts
    <2>2. InOrder(base, L, b.edits) /\ Range(b.edits) = {e} \cup (X \cup Y)
      BY <1>1, <2>1, FirstInOrder
    <2> QED BY <1>1, <1>4, <1>5, <1>6, <1>8, <2>1, <2>2 DEF Sorts
  <1> QED BY <1>7, <1>8

\* Where one of the branches has no edit left, the rest is the other's.
LEMMA RestSorts ==
    ASSUME NEW L, NEW base \in Seq(L), NEW A, NEW B, InOrder(base, L, A), InOrder(base, L, B),
           NEW i \in 1 .. Len(A) + 1, NEW j \in 1 .. Len(B) + 1, i > Len(A) \/ j > Len(B)
    PROVE  Sorts(base, L, After(A, i), After(B, j),
                 [clash |-> FALSE, edits |-> From(A, i) \o From(B, j)])
  <1>1. PICK p \in Nat, q \in Nat : p = Len(A) /\ q = Len(B)
    BY InOrderFields
  <1>2. /\ InOrder(base, L, From(A, i)) /\ Range(From(A, i)) = After(A, i)
        /\ InOrder(base, L, From(B, j)) /\ Range(From(B, j)) = After(B, j)
    BY InOrderFrom
  <1>3. PICK E : E = EditsOver(base, L)
    OBVIOUS
  <1>4. From(A, i) \in Seq(E) /\ From(B, j) \in Seq(E)
    BY <1>2, <1>3 DEF InOrder
  <1>5. CASE i > p
    <2>1. After(A, i) = {}
      BY <1>1, <1>5 DEF After
    <2>2. From(A, i) = << >>
      <3>1. A \in Seq(E) /\ Len(From(A, i)) = p - i + 1 /\ p - i + 1 = 0
        BY <1>1, <1>3, <1>5, FromFacts DEF InOrder
      <3> QED BY <1>4, <3>1
    <2>3. From(A, i) \o From(B, j) = From(B, j)
      BY <1>4, <2>2, ConcatEmptySeq
    <2>4. ~Touch(After(A, i), After(B, j))
      BY <2>1 DEF Touch
    <2> QED BY <1>2, <2>1, <2>3, <2>4 DEF Sorts
  <1>6. CASE j > q
    <2>1. After(B, j) = {}
      BY <1>1, <1>6 DEF After
    <2>2. From(B, j) = << >>
      <3>1. B \in Seq(E) /\ Len(From(B, j)) = q - j + 1 /\ q - j + 1 = 0
        BY <1>1, <1>3, <1>6, FromFacts DEF InOrder
      <3> QED BY <1>4, <3>1
    <2>3. From(A, i) \o From(B, j) = From(A, i)
      BY <1>4, <2>2, ConcatEmptySeq
    <2>4. ~Touch(After(A, i), After(B, j))
      BY <2>1 DEF Touch
    <2> QED BY <1>2, <2>1, <2>3, <2>4 DEF Sorts
  <1> QED BY <1>1, <1>5, <1>6

\* One round of the loop of _combine.
LEMMA OutcomeSorts ==
    ASSUME NEW L, NEW base \in Seq(L), NEW A, NEW B, InOrder(base, L, A), InOrder(base, L, B),
           NEW h, Combines(EditsOver(base, L), A, B, h), NEW i \in 1 .. Len(A), NEW j \in 1 .. Len(B),
           Sorts(base, L, After(A, i + 1), After(B, j + 1), h[<<i + 1, j + 1>>]),
           Sorts(base, L, After(A, i + 1), After(B, j), h[<<i + 1, j>>]),
           Sorts(base, L, After(A, i), After(B, j + 1), h[<<i, j + 1>>])
    PROVE  Sorts(base, L, After(A, i), After(B, j), h[<<i, j>>])
  <1>1. PICK p \in Nat, q \in Nat : p = Len(A) /\ q = Len(B)
    BY InOrderFields
  <1>2. /\ h[<<i + 1, j + 1>>] \in Combinations(EditsOver(base, L))
        /\ h[<<i + 1, j>>] \in Combinations(EditsOver(base, L))
        /\ h[<<i, j + 1>>] \in Combinations(EditsOver(base, L))
    <2>1. <<i + 1, j + 1>> \in Pairs(A, B) /\ <<i + 1, j>> \in Pairs(A, B) /\ <<i, j + 1>> \in Pairs(A, B)
      BY <1>1 DEF Pairs
    <2> QED BY <2>1 DEF Combines
  <1>3. PICK o, t : o = A[i] /\ t = B[j]
    OBVIOUS
  <1>4. /\ After(A, i) = {o} \cup After(A, i + 1) /\ After(B, j) = {t} \cup After(B, j + 1)
        /\ \A x \in After(A, i + 1) : o.end < x.start
        /\ \A x \in After(B, j + 1) : t.end < x.start
    BY <1>3, AfterFacts
  <1>5. /\ \A x \in After(A, i) : /\ x \in EditsOver(base, L) /\ x.start \in Nat /\ x.end \in Nat
                                  /\ x.start <= x.end /\ o.start <= x.start
        /\ \A x \in After(B, j) : /\ x \in EditsOver(base, L) /\ x.start \in Nat /\ x.end \in Nat
                                  /\ x.start <= x.end /\ t.start <= x.start
    BY <1>3, AfterFacts
  <1>6. /\ o \in EditsOver(base, L) /\ o.start \in Nat /\ o.end \in Nat /\ o.start <= o.end
        /\ t \in EditsOver(base, L) /\ t.start \in Nat /\ t.end \in Nat /\ t.start <= t.end
    BY <1>4, <1>5
  <1>7. h[<<i, j>>] = IF SameEdit(o, t) THEN Before(o, h[<<i + 1, j + 1>>])
                      ELSE IF Separated(o, t) THEN Before(o, h[<<i + 1, j>>])
                      ELSE IF Separated(t, o) THEN Before(t, h[<<i, j + 1>>])
                      ELSE Clash
    <2>1. i \in 1 .. Len(A) + 1 /\ j \in 1 .. Len(B) + 1 /\ ~(i > Len(A) \/ j > Len(B))
      BY <1>1
    <2>2. h[<<i, j>>] = Outcome(A, B, h, i, j)
      BY <2>1 DEF Combines
    <2> QED BY <1>3, <2>1, <2>2 DEF Outcome
  <1>8. CASE SameEdit(o, t)
    <2>1. o = t /\ o.start # o.end
      BY <1>8 DEF SameEdit
    <2>2. \A x \in After(A, i + 1) \cup After(B, j + 1) : o.end < x.start /\ x.start \in Nat /\ x.end \in Nat
      BY <1>4, <1>5, <2>1
    <2>3. Sorts(base, L, {o} \cup After(A, i + 1), {o} \cup After(B, j + 1),
                Before(o, h[<<i + 1, j + 1>>]))
      BY <1>2, <1>6, <2>1, <2>2, FirstSorts
    <2> QED BY <1>4, <1>7, <1>8, <2>1, <2>3
  <1>9. CASE ~SameEdit(o, t) /\ Separated(o, t)
    <2>1. \A x \in After(A, i + 1) \cup After(B, j) : o.end < x.start /\ x.start \in Nat /\ x.end \in Nat
      <3>1. ASSUME NEW x \in After(B, j) PROVE o.end < x.start
        <4>1. t.start <= x.start /\ x.start \in Nat /\ o.end < t.start
          BY <1>5, <1>9 DEF Separated
        <4> QED BY <1>6, <4>1
      <3> QED BY <1>4, <1>5, <3>1
    <2>2. Sorts(base, L, {o} \cup After(A, i + 1), After(B, j), Before(o, h[<<i + 1, j>>]))
      BY <1>2, <1>6, <2>1, FirstSorts
    <2> QED BY <1>4, <1>7, <1>9, <2>2
  <1>10. CASE ~SameEdit(o, t) /\ ~Separated(o, t) /\ Separated(t, o)
    <2>1. \A x \in After(A, i) \cup After(B, j + 1) : t.end < x.start /\ x.start \in Nat /\ x.end \in Nat
      <3>1. ASSUME NEW x \in After(A, i) PROVE t.end < x.start
        <4>1. o.start <= x.start /\ x.start \in Nat /\ t.end < o.start
          BY <1>5, <1>10 DEF Separated
        <4> QED BY <1>6, <4>1
      <3> QED BY <1>4, <1>5, <3>1
    <2>2. Sorts(base, L, After(A, i), {t} \cup After(B, j + 1), Before(t, h[<<i, j + 1>>]))
      BY <1>2, <1>6, <2>1, FirstSorts
    <2> QED BY <1>4, <1>7, <1>10, <2>2
  <1>11. CASE ~SameEdit(o, t) /\ ~Separated(o, t) /\ ~Separated(t, o)
    <2>1. h[<<i, j>>].clash
      BY <1>7, <1>11 DEF Clash
    <2>2. o.start <= t.end /\ t.start <= o.end
      BY <1>6, <1>11 DEF Separated
    <2>3. Touch(After(A, i), After(B, j))
      BY <1>4, <1>11, <2>2 DEF Touch
    <2> QED BY <2>1, <2>3 DEF Sorts
  <1> QED BY <1>8, <1>9, <1>10, <1>11

\* Two branches clash where two of their edits touch, and are otherwise
\* combined in order, without loss.
LEMMA CombineSorts ==
    ASSUME NEW L, NEW base \in Seq(L), NEW A, NEW B, InOrder(base, L, A), InOrder(base, L, B)
    PROVE  /\ Combine(A, B) \in Combinations(EditsOver(base, L))
           /\ Sorts(base, L, Range(A), Range(B), Combine(A, B))
  <1>1. PICK p \in Nat, q \in Nat : p = Len(A) /\ q = Len(B)
    BY InOrderFields
  <1>2. PICK h : Combines(EditsOver(base, L), A, B, h)
    BY CombineUnfolded DEF InOrder
  <1> DEFINE Done(i, j) == Sorts(base, L, After(A, i), After(B, j), h[<<i, j>>])
             S == {k \in Nat : \A i \in 1 .. p + 1, j \in 1 .. q + 1 :
                                  (p + 1 - i) + (q + 1 - j) <= k => Done(i, j)}
  <1>3. ASSUME NEW i \in 1 .. p + 1, NEW j \in 1 .. q + 1, i > p \/ j > q PROVE Done(i, j)
    <2>1. h[<<i, j>>] = [clash |-> FALSE, edits |-> From(A, i) \o From(B, j)]
      <3>1. h[<<i, j>>] = Outcome(A, B, h, i, j)
        BY <1>1, <1>2 DEF Combines
      <3> QED BY <1>1, <1>3, <3>1 DEF Outcome
    <2> QED BY <1>1, <1>3, <2>1, RestSorts
  <1>4. ASSUME NEW i \in 1..p, NEW j \in 1..q, Done(i + 1, j + 1), Done(i + 1, j), Done(i, j + 1)
        PROVE  Done(i, j)
    BY <1>1, <1>2, <1>4, OutcomeSorts
  <1> HIDE DEF Done
  <1>5. 0 \in S
    <2>1. ASSUME NEW i \in 1 .. p + 1, NEW j \in 1 .. q + 1, (p + 1 - i) + (q + 1 - j) <= 0
          PROVE  Done(i, j)
      <3>1. i > p
        BY <2>1
      <3> QED BY <1>3, <3>1
    <2> QED BY <2>1
  <1>6. ASSUME NEW k \in Nat, k \in S PROVE k + 1 \in S
    <2>1. ASSUME NEW i \in 1 .. p + 1, NEW j \in 1 .. q + 1, (p + 1 - i) + (q + 1 - j) <= k + 1
          PROVE  Done(i, j)
      <3>1. CASE i > p \/ j > q
        BY <1>3, <3>1
      <3>2. CASE i \in 1..p /\ j \in 1..q
        <4>1. i + 1 \in 1 .. p + 1 /\ j + 1 \in 1 .. q + 1
          BY <3>2
        <4>2. /\ (p + 1 - (i + 1)) + (q + 1 - (j + 1)) <= k
              /\ (p + 1 - (i + 1)) + (q + 1 - j) <= k /\ (p + 1 - i) + (q + 1 - (j + 1)) <= k
          BY <2>1, <3>2
        <4>3. Done(i + 1, j + 1) /\ Done(i + 1, j) /\ Done(i, j + 1)
          BY <1>6, <4>1, <4>2
        <4> QED BY <1>4, <3>2, <4>3
      <3> QED BY <3>1, <3>2
    <2> QED BY <2>1
  <1>7. p + q \in S
    <2>1. p + q \in Nat
      OBVIOUS
    <2> HIDE DEF S
    <2> QED BY <1>5, <1>6, <2>1, AllNumbers
  <1>8. Done(1, 1)
    <2>1. (p + 1 - 1) + (q + 1 - 1) <= p + q
      OBVIOUS
    <2> QED BY <1>7, <2>1
  <1>9. Combine(A, B) = h[<<1, 1>>] /\ h[<<1, 1>>] \in Combinations(EditsOver(base, L))
    <2>1. <<1, 1>> \in Pairs(A, B)
      BY <1>1 DEF Pairs
    <2> QED BY <1>2, <2>1 DEF Combines
  <1>10. Range(A) = After(A, 1) /\ Range(B) = After(B, 1)
    BY InOrderFields
  <1> QED BY <1>8, <1>9, <1>10 DEF Done

-----------------------------------------------------------------------------
(* The unterminated last line.                                              *)

Closed(s) == \A i \in 1 .. Len(s) : s[i].end # "none"
OpenAtEnd(s) == \A i \in 1 .. Len(s) - 1 : s[i].end # "none"

\* What joins terminated lines with a text is one.
LEMMA ClosedJoin ==
    ASSUME NEW L, NEW a \in Seq(L), NEW b \in Seq(L), Closed(a)
    PROVE  /\ a \o b \in Seq(L)
           /\ OpenAtEnd(b) => OpenAtEnd(a \o b)
           /\ Closed(b) => Closed(a \o b)
  <1>1. PICK p \in Nat, q \in Nat : p = Len(a) /\ q = Len(b)
    OBVIOUS
  <1>2. PICK s : s = a \o b
    OBVIOUS
  <1>3. /\ s \in Seq(L) /\ Len(s) = p + q
        /\ \A i \in 1 .. p + q : s[i] = IF i <= p THEN a[i] ELSE b[i - p]
    BY <1>1, <1>2, ConcatProperties
  <1>4. ASSUME NEW i \in 1 .. p + q PROVE i <= p => s[i].end # "none"
    BY <1>1, <1>3 DEF Closed
  <1>5. ASSUME OpenAtEnd(b), NEW i \in 1 .. p + q - 1 PROVE s[i].end # "none"
    <2>1. CASE i <= p
      BY <1>1, <1>4, <2>1
    <2>2. CASE i > p
      <3>1. i - p \in 1 .. q - 1 /\ i \in 1 .. p + q
        BY <1>1, <2>2
      <3>2. b[i - p].end # "none"
        BY <1>1, <1>5, <3>1 DEF OpenAtEnd
      <3> QED BY <1>3, <2>2, <3>1, <3>2
    <2> QED BY <1>1, <2>1, <2>2
  <1>6. ASSUME Closed(b), NEW i \in 1 .. p + q PROVE s[i].end # "none"
    <2>1. CASE i <= p
      BY <1>4, <2>1
    <2>2. CASE i > p
      <3>1. i - p \in 1 .. q
        BY <1>1, <2>2
      <3>2. b[i - p].end # "none"
        BY <1>1, <1>6, <3>1 DEF Closed
      <3> QED BY <1>3, <2>2, <3>2
    <2> QED BY <1>1, <2>1, <2>2
  <1>7. OpenAtEnd(b) => OpenAtEnd(s)
    BY <1>3, <1>5 DEF OpenAtEnd
  <1>8. Closed(b) => Closed(s)
    BY <1>3, <1>6 DEF Closed
  <1> QED BY <1>2, <1>3, <1>7, <1>8

\* A part of a text that does not reach its end is terminated.
LEMMA PartOpen ==
    ASSUME NEW L, NEW s \in Seq(L), OpenAtEnd(s), NEW x \in Nat, NEW y \in Nat, y <= Len(s)
    PROVE  /\ SubSeq(s, x + 1, y) \in Seq(L)
           /\ OpenAtEnd(SubSeq(s, x + 1, y))
           /\ ~Closed(SubSeq(s, x + 1, y)) => y = Len(s) /\ x < y /\ s[y].end = "none" /\ ~Closed(s)
  <1>1. PICK n \in Nat : n = Len(s)
    OBVIOUS
  <1>2. PICK t : t = SubSeq(s, x + 1, y)
    OBVIOUS
  <1>3. \A i \in x + 1 .. y : s[i] \in L
    BY <1>1
  <1>4. /\ t \in Seq(L) /\ Len(t) = IF x + 1 <= y THEN y - (x + 1) + 1 ELSE 0
        /\ \A i \in 1 .. y - (x + 1) + 1 : t[i] = s[(x + 1) + i - 1]
    BY <1>2, <1>3, SubSeqProperties
  <1>5. CASE y <= x
    <2>1. Len(t) = 0
      BY <1>4, <1>5
    <2> QED BY <1>2, <1>4, <2>1 DEF OpenAtEnd, Closed
  <1>6. CASE x < y
    <2>1. Len(t) = y - x
      BY <1>4, <1>6
    <2>2. \A i \in 1 .. y - x : t[i] = s[x + i]
      <3> TAKE i \in 1 .. y - x
      <3>1. i \in 1 .. y - (x + 1) + 1 /\ (x + 1) + i - 1 = x + i
        BY <1>6
      <3> QED BY <1>4, <3>1
    <2>3. ASSUME NEW i \in 1 .. y - x, x + i # n PROVE t[i].end # "none"
      <3>1. x + i \in 1 .. n - 1
        BY <1>1, <1>6, <2>3
      <3> QED BY <1>1, <2>2, <3>1 DEF OpenAtEnd
    <2>4. OpenAtEnd(t)
      <3>1. ASSUME NEW i \in 1 .. (y - x) - 1 PROVE t[i].end # "none"
        <4>1. i \in 1 .. y - x /\ x + i # n
          BY <1>1, <1>6
        <4> QED BY <2>3, <4>1
      <3> QED BY <2>1, <3>1 DEF OpenAtEnd
    <2>5. ASSUME ~Closed(t) PROVE y = n /\ s[y].end = "none" /\ ~Closed(s)
      <3>1. PICK i \in 1 .. y - x : t[i].end = "none"
        BY <2>1, <2>5 DEF Closed
      <3>2. x + i = n
        BY <2>3, <3>1
      <3>3. y = n
        BY <1>1, <1>6, <3>2
      <3>4. s[n].end = "none" /\ n \in 1..n
        <4>1. t[i] = s[n]
          BY <2>2, <3>2
        <4>2. n # 0
          BY <1>1, <1>6, <3>3
        <4> QED BY <3>1, <4>1, <4>2
      <3> QED BY <1>1, <3>3, <3>4 DEF Closed
    <2> QED BY <1>1, <1>2, <1>4, <1>6, <2>4, <2>5
  <1> QED BY <1>5, <1>6

\* An edit leaves the unterminated line, its own or the base's, at the end.
EndsWell(base, e) ==
    /\ OpenAtEnd(e.replacement)
    /\ ~Closed(e.replacement) => e.end = Len(base)
    /\ e.start = Len(base) /\ e.start # 0 /\ ~Closed(base) => e.replacement = << >>

LEMMA EditsEndWell ==
    ASSUME NEW L, NEW base \in Seq(L), NEW branch \in Seq(L), OpenAtEnd(base), OpenAtEnd(branch)
    PROVE  \A e \in Range(Edits(base, branch)) : EndsWell(base, e)
  <1>1. PICK edits : edits = Edits(base, branch) /\ Traced(base, branch, WholeTexts(base, branch), edits)
    BY EditsTraced
  <1>2. PICK n \in Nat : \E tr : /\ Trace(base, branch, WholeTexts(base, branch), n, tr)
                                 /\ edits = [i \in 1..n |-> EditAt(branch, tr[i])]
    BY <1>1 DEF Traced
  <1>3. PICK tr : /\ Trace(base, branch, WholeTexts(base, branch), n, tr)
                  /\ edits = [i \in 1..n |-> EditAt(branch, tr[i])]
    BY <1>2
  <1>4. PICK m \in Nat, l \in Nat : m = Len(base) /\ l = Len(branch)
    OBVIOUS
  <1>5. ASSUME NEW k \in 1..n PROVE EndsWell(base, EditAt(branch, tr[k]))
    <2>1. PICK u, x, y : u = tr[k - 1] /\ x = tr[k] /\ y = tr[k + 1]
      OBVIOUS
    <2>2. k - 1 \in 0 .. n + 1 /\ k \in 0 .. n + 1 /\ k + 1 \in 0 .. n + 1 /\ k \in 0..n /\ k - 1 \in 0..n
          /\ (k - 1) + 1 = k
      OBVIOUS
    <2>3. /\ u \in Spans(base, branch) /\ x \in Spans(base, branch) /\ y \in Spans(base, branch)
          /\ Link(base, branch, u, x) /\ Link(base, branch, x, y)
      BY <1>3, <2>1, <2>2 DEF Trace
    <2>4. PICK ue \in Nat, uc \in Nat, xs \in Nat, xe \in Nat, xl \in Nat, xc \in Nat, ys \in Nat, yl \in Nat :
             /\ ue = u.end /\ uc = u.chi /\ xs = x.start /\ xe = x.end /\ xl = x.clo /\ xc = x.chi
             /\ ys = y.start /\ yl = y.clo
      BY <2>3, SpanFields
    <2>5. xs <= xe /\ xl <= xc /\ xe <= m /\ xc <= l /\ yl <= l
      <3>1. y.clo <= y.chi /\ y.chi <= Len(branch) /\ y.chi \in Nat
        BY <2>3, SpanFields
      <3>2. x.start <= x.end /\ x.clo <= x.chi /\ x.end <= Len(base) /\ x.chi <= Len(branch)
        BY <2>3, SpanFields
      <3> QED BY <1>4, <2>4, <3>1, <3>2
    <2>6. /\ ue <= xs /\ xs - ue = xl - uc /\ xe <= ys /\ ys - xe = yl - xc
          /\ Agree(base, branch, ue, uc, xs - ue)
      BY <2>3, <2>4 DEF Link
    <2>7. k = n => ys = m
      BY <1>3, <1>4, <2>1, <2>4 DEF Trace, WholeTexts
    <2>8. k # n => xe < ys
      <3>1. k # n => k \in 1 .. n - 1
        OBVIOUS
      <3> QED BY <1>3, <2>1, <2>4, <3>1 DEF Trace
    <2>9. ue < xs \/ xs = 0
      <3>1. CASE k = 1
        <4>1. k - 1 = 0
          BY <3>1
        <4>2. ue = 0
          BY <1>3, <2>1, <2>4, <4>1 DEF Trace, WholeTexts
        <4> QED BY <4>2
      <3>2. CASE k # 1
        <4>1. k - 1 \in 1 .. n - 1
          BY <3>2
        <4>2. ue < xs
          BY <1>3, <2>1, <2>2, <2>4, <4>1 DEF Trace
        <4> QED BY <4>2
      <3> QED BY <3>1, <3>2
    <2>10. PICK e : e = EditAt(branch, x)
      OBVIOUS
    <2>11. e.start = xs /\ e.end = xe /\ e.replacement = SubSeq(branch, xl + 1, xc)
      BY <2>4, <2>10 DEF EditAt
    <2>12. /\ OpenAtEnd(e.replacement)
           /\ ~Closed(e.replacement) => xc = l /\ branch[xc].end = "none"
      <3>1. xc <= Len(branch)
        BY <1>4, <2>5
      <3>2. /\ OpenAtEnd(SubSeq(branch, xl + 1, xc))
            /\ ~Closed(SubSeq(branch, xl + 1, xc)) => xc = Len(branch) /\ branch[xc].end = "none"
        BY <3>1, PartOpen
      <3> QED BY <1>4, <2>11, <3>2
    <2>13. ASSUME xc = l PROVE xe = m
      <3>1. ys = xe
        BY <2>5, <2>6, <2>13
      <3> QED BY <2>7, <2>8, <3>1
    <2>14. ASSUME xs = m, xs # 0, ~Closed(base) PROVE e.replacement = << >>
      <3>1. base[m].end = "none"
        <4>1. PICK i \in 1..m : base[i].end = "none"
          BY <1>4, <2>14 DEF Closed
        <4>2. ~(i \in 1 .. m - 1)
          BY <1>4, <4>1 DEF OpenAtEnd
        <4>3. i = m
          BY <4>2
        <4> QED BY <4>1, <4>3
      <3>2. ue < xs /\ xs - ue \in 1 .. xs - ue /\ ue + (xs - ue) = m /\ uc + (xs - ue) = xl
        BY <2>6, <2>9, <2>14
      <3>3. base[ue + (xs - ue)] = branch[uc + (xs - ue)]
        BY <2>6, <3>2 DEF Agree
      <3>4. branch[xl].end = "none" /\ xl >= 1 /\ xl <= l
        BY <2>5, <2>6, <3>1, <3>2, <3>3
      <3>5. xl = l
        <4>1. ~(xl \in 1 .. l - 1)
          BY <1>4, <3>4 DEF OpenAtEnd
        <4> QED BY <3>4, <4>1
      <3>6. xc < xl + 1
        BY <2>5, <3>5
      <3> QED BY <2>11, <3>6, SubSeqEmpty
    <2>15. EndsWell(base, e)
      BY <1>4, <2>11, <2>12, <2>13, <2>14 DEF EndsWell
    <2> QED BY <2>1, <2>10, <2>15
  <1>6. Range(edits) = {EditAt(branch, tr[k]) : k \in 1..n}
    BY <1>3 DEF Range
  <1> QED BY <1>1, <1>5, <1>6

\* Weaving such edits in order leaves no unterminated line before another one.
LEMMA WeaveEndsWell ==
    ASSUME NEW L, NEW base \in Seq(L), OpenAtEnd(base), NEW edits, InOrder(base, L, edits),
           \A e \in Range(edits) : EndsWell(base, e)
    PROVE  OpenAtEnd(Weave(base, edits)) /\ Weave(base, edits) \in Seq(L)
  <1>1. PICK n \in Nat, m \in Nat : n = Len(edits) /\ m = Len(base)
    BY InOrderFields
  <1>2. PICK w : Weaves(base, L, edits, w)
    BY WeaveUnfolded DEF InOrder
  <1>3. /\ \A i \in 0..n : w[i].lines \in Seq(L) /\ w[i].cursor \in 0..m
        /\ w[0].lines = << >> /\ w[0].cursor = 0
        /\ Weave(base, edits) = w[n].lines \o SubSeq(base, w[n].cursor + 1, m)
    BY <1>1, <1>2 DEF Weaves
  <1>4. ASSUME NEW i \in 1..n
         PROVE  /\ w[i].lines = w[i - 1].lines \o SubSeq(base, w[i - 1].cursor + 1, edits[i].start)
                                   \o edits[i].replacement
                /\ w[i].cursor = edits[i].end
    BY <1>1, <1>2 DEF Weaves
  <1> DEFINE Good(i) == OpenAtEnd(w[i].lines) /\ (~Closed(w[i].lines) => w[i].cursor = m)
             S == {i \in 0..n : Good(i)}
  <1>5. 0 \in S
    BY <1>3 DEF OpenAtEnd, Closed
  <1>6. ASSUME NEW i \in 1..n, Good(i - 1) PROVE Good(i)
    <2>1. PICK e : e = edits[i]
      OBVIOUS
    <2>2. PICK s \in Nat, d \in Nat : s = e.start /\ d = e.end /\ s <= d /\ d <= m
      BY <1>1, <2>1, InOrderFields
    <2>3. e.replacement \in Seq(L)
      <3>1. e \in EditsOver(base, L)
        BY <1>1, <2>1, InOrderFields
      <3> QED BY <3>1 DEF EditsOver
    <2>4. EndsWell(base, e)
      <3>1. e \in Range(edits)
        <4>1. edits \in Seq(EditsOver(base, L))
          BY DEF InOrder
        <4> QED BY <1>1, <2>1, <4>1 DEF Range
      <3> QED BY <3>1
    <2>5. PICK lines, c : lines = w[i - 1].lines /\ c = w[i - 1].cursor
      OBVIOUS
    <2>6. lines \in Seq(L) /\ c \in Nat /\ OpenAtEnd(lines) /\ (~Closed(lines) => c = m)
      BY <1>3, <1>6, <2>5
    <2>7. Closed(lines) /\ c <= s
      <3>1. CASE i = 1
        <4>1. i - 1 = 0
          BY <3>1
        <4>2. lines = << >> /\ c = 0
          BY <1>3, <2>5, <4>1
        <4> QED BY <4>2 DEF Closed
      <3>2. CASE i # 1
        <4>1. i - 1 \in 1..n /\ i - 1 < i
          BY <3>2
        <4>2. c = edits[i - 1].end
          BY <1>4, <2>5, <4>1
        <4>3. c < s
          BY <1>1, <2>1, <2>2, <4>1, <4>2, InOrderFields
        <4>4. c # m
          BY <2>2, <4>3
        <4> QED BY <2>6, <4>3, <4>4
      <3> QED BY <3>1, <3>2
    <2>8. PICK mid : mid = SubSeq(base, c + 1, s)
      OBVIOUS
    <2>9. /\ mid \in Seq(L) /\ OpenAtEnd(mid)
          /\ ~Closed(mid) => s = m /\ c < s /\ ~Closed(base)
      <3>1. s <= Len(base)
        BY <1>1, <2>2
      <3> QED BY <1>1, <2>6, <2>8, <3>1, PartOpen
    <2>10. w[i].lines = (lines \o mid) \o e.replacement /\ w[i].cursor = d
      BY <1>4, <2>1, <2>2, <2>5, <2>8
    <2>11. PICK done : done = lines \o mid
      OBVIOUS
    <2>12. done \in Seq(L) /\ OpenAtEnd(done) /\ (Closed(mid) => Closed(done))
      BY <2>6, <2>7, <2>9, <2>11, ClosedJoin
    <2>13. CASE Closed(mid)
      <3>1. OpenAtEnd(e.replacement) /\ (~Closed(e.replacement) => d = m)
        BY <1>1, <2>2, <2>4 DEF EndsWell
      <3>2. OpenAtEnd(done \o e.replacement)
            /\ (Closed(e.replacement) => Closed(done \o e.replacement))
        BY <2>3, <2>12, <2>13, <3>1, ClosedJoin
      <3> QED BY <2>10, <2>11, <3>1, <3>2
    <2>14. CASE ~Closed(mid)
      <3>1. s = m /\ s # 0 /\ ~Closed(base)
        BY <2>6, <2>9, <2>14
      <3>2. e.replacement = << >>
        BY <1>1, <2>2, <2>4, <3>1 DEF EndsWell
      <3>3. done \o e.replacement = done
        BY <2>12, <3>2, ConcatEmptySeq
      <3>4. d = m
        BY <2>2, <3>1
      <3> QED BY <2>10, <2>11, <2>12, <3>3, <3>4
    <2> QED BY <2>13, <2>14
  <1>7. Good(n)
    <2> HIDE DEF Good
    <2>1. \A i \in 1..n : i - 1 \in S => i \in S
      BY <1>6
    <2>2. 0..n \subseteq S
      <3> HIDE DEF S
      <3> QED BY <1>5, <2>1, Throughout
    <2>3. n \in 0..n
      OBVIOUS
    <2> QED BY <2>2, <2>3
  <1>8. PICK lines, c : lines = w[n].lines /\ c = w[n].cursor
    OBVIOUS
  <1>9. lines \in Seq(L) /\ c \in Nat /\ OpenAtEnd(lines) /\ (~Closed(lines) => c = m)
    BY <1>3, <1>7, <1>8
  <1>10. PICK tail : tail = SubSeq(base, c + 1, m)
    OBVIOUS
  <1>11. tail \in Seq(L) /\ OpenAtEnd(tail)
    BY <1>1, <1>9, <1>10, PartOpen
  <1>12. OpenAtEnd(lines \o tail) /\ lines \o tail \in Seq(L)
    <2>1. CASE Closed(lines)
      BY <1>9, <1>11, <2>1, ClosedJoin
    <2>2. CASE ~Closed(lines)
      <3>1. m < c + 1 /\ c + 1 \in Int
        BY <1>9, <2>2
      <3>2. tail = << >>
        BY <1>10, <3>1, SubSeqEmpty
      <3>3. lines \o tail = lines
        BY <1>9, <3>2, ConcatEmptySeq
      <3> QED BY <1>9, <3>3
    <2> QED BY <2>1, <2>2
  <1> QED BY <1>3, <1>8, <1>10, <1>12

-----------------------------------------------------------------------------
(* The materialization of one text.                                         *)

\* Why a composite is refused: the numbers of the checks that fail.
Reasons == <<"unsupported_newlines", "mixed_newlines", "newline_style_changed", "bom_changed",
             "diff_work_limit", "conflict", "candidate_line_limit">>

Styles(texts) == {Newline(d) : d \in texts}

Grounds(base, texts, clash, text) ==
    {i \in 1..7 :
        \/ i = 1 /\ "unsupported" \in Styles(texts)
        \/ i = 2 /\ "mixed" \in Styles(texts)
        \/ i = 3 /\ {"lf", "crlf"} \subseteq Styles(texts)
        \/ i = 4 /\ Cardinality({d.bom : d \in texts}) > 1
        \/ i = 5 /\ \E d \in texts : Cells(base.lines, d.lines) > MaxCells
        \/ i = 6 /\ clash
        \/ i = 7 /\ TooLong(text)}

Both(base, current, upstream) ==
    Combine(Edits(base.lines, current.lines), Edits(base.lines, upstream.lines))

MergedLines(base, current, upstream) ==
    [bom |-> base.bom, lines |-> Weave(base.lines, Both(base, current, upstream).edits)]

GroundsOf(base, current, upstream) ==
    Grounds(base, {base, current, upstream}, Both(base, current, upstream).clash,
            MergedLines(base, current, upstream))

LEMMA CompositeUnfolded ==
    ASSUME NEW base, NEW current, NEW upstream
    PROVE  Composite(base, current, upstream) =
              IF GroundsOf(base, current, upstream) = {}
              THEN Text("merged", MergedLines(base, current, upstream))
              ELSE Refused(Reasons[Min(GroundsOf(base, current, upstream))])
  <1> DEFINE texts  == {base, current, upstream}
             styles == {Newline(d) : d \in texts}
             merged == Both(base, current, upstream)
             text   == MergedLines(base, current, upstream)
             checks == <<
                <<"unsupported_newlines",  "unsupported" \in styles>>,
                <<"mixed_newlines",        "mixed" \in styles>>,
                <<"newline_style_changed", {"lf", "crlf"} \subseteq styles>>,
                <<"bom_changed",           Cardinality({d.bom : d \in texts}) > 1>>,
                <<"diff_work_limit",       \E d \in texts : Cells(base.lines, d.lines) > MaxCells>>,
                <<"conflict",              merged.clash>>,
                <<"candidate_line_limit",  TooLong(text)>> >>
             failed == {i \in DOMAIN checks : checks[i][2]}
  <1>1. Composite(base, current, upstream) =
           IF failed = {} THEN Text("merged", text) ELSE Refused(checks[Min(failed)][1])
    BY DEF Composite, Both, MergedLines
  <1>2. DOMAIN checks = 1..7
    OBVIOUS
  <1>3. ASSUME NEW i \in 1..7
        PROVE  /\ checks[i][2] <=> i \in GroundsOf(base, current, upstream)
               /\ checks[i][1] = Reasons[i]
    <2>1. CASE i = 1
      <3>1. checks[1][1] = "unsupported_newlines" /\ (checks[1][2] <=> "unsupported" \in styles)
        OBVIOUS
      <3>2. Reasons[1] = "unsupported_newlines"
        BY DEF Reasons
      <3>3. 1 \in GroundsOf(base, current, upstream) <=> "unsupported" \in styles
        <4> HIDE DEF checks
        <4> QED BY DEF GroundsOf, Grounds, Styles
      <3> HIDE DEF checks
      <3> QED BY <2>1, <3>1, <3>2, <3>3
    <2>2. CASE i = 2
      <3>1. checks[2][1] = "mixed_newlines" /\ (checks[2][2] <=> "mixed" \in styles)
        OBVIOUS
      <3>2. Reasons[2] = "mixed_newlines"
        BY DEF Reasons
      <3>3. 2 \in GroundsOf(base, current, upstream) <=> "mixed" \in styles
        <4> HIDE DEF checks
        <4> QED BY DEF GroundsOf, Grounds, Styles
      <3> HIDE DEF checks
      <3> QED BY <2>2, <3>1, <3>2, <3>3
    <2>3. CASE i = 3
      <3>1. checks[3][1] = "newline_style_changed" /\ (checks[3][2] <=> {"lf", "crlf"} \subseteq styles)
        OBVIOUS
      <3>2. Reasons[3] = "newline_style_changed"
        BY DEF Reasons
      <3>3. 3 \in GroundsOf(base, current, upstream) <=> {"lf", "crlf"} \subseteq styles
        <4> HIDE DEF checks
        <4> QED BY DEF GroundsOf, Grounds, Styles
      <3> HIDE DEF checks
      <3> QED BY <2>3, <3>1, <3>2, <3>3
    <2>4. CASE i = 4
      <3>1. checks[4][1] = "bom_changed" /\ (checks[4][2] <=> Cardinality({d.bom : d \in texts}) > 1)
        OBVIOUS
      <3>2. Reasons[4] = "bom_changed"
        BY DEF Reasons
      <3>3. 4 \in GroundsOf(base, current, upstream) <=> Cardinality({d.bom : d \in texts}) > 1
        <4> HIDE DEF checks
        <4> QED BY DEF GroundsOf, Grounds, Styles
      <3> HIDE DEF checks
      <3> QED BY <2>4, <3>1, <3>2, <3>3
    <2>5. CASE i = 5
      <3>1. checks[5][1] = "diff_work_limit" /\ (checks[5][2] <=> \E d \in texts : Cells(base.lines, d.lines) > MaxCells)
        OBVIOUS
      <3>2. Reasons[5] = "diff_work_limit"
        BY DEF Reasons
      <3>3. 5 \in GroundsOf(base, current, upstream) <=> \E d \in texts : Cells(base.lines, d.lines) > MaxCells
        <4> HIDE DEF checks
        <4> QED BY DEF GroundsOf, Grounds, Styles
      <3> HIDE DEF checks
      <3> QED BY <2>5, <3>1, <3>2, <3>3
    <2>6. CASE i = 6
      <3>1. checks[6][1] = "conflict" /\ (checks[6][2] <=> merged.clash)
        OBVIOUS
      <3>2. Reasons[6] = "conflict"
        BY DEF Reasons
      <3>3. 6 \in GroundsOf(base, current, upstream) <=> merged.clash
        <4> HIDE DEF checks
        <4> QED BY DEF GroundsOf, Grounds, Styles
      <3> HIDE DEF checks
      <3> QED BY <2>6, <3>1, <3>2, <3>3
    <2>7. CASE i = 7
      <3>1. checks[7][1] = "candidate_line_limit" /\ (checks[7][2] <=> TooLong(text))
        OBVIOUS
      <3>2. Reasons[7] = "candidate_line_limit"
        BY DEF Reasons
      <3>3. 7 \in GroundsOf(base, current, upstream) <=> TooLong(text)
        <4> HIDE DEF checks
        <4> QED BY DEF GroundsOf, Grounds, Styles
      <3> HIDE DEF checks
      <3> QED BY <2>7, <3>1, <3>2, <3>3
    <2> HIDE DEF checks
    <2> QED BY <2>1, <2>2, <2>3, <2>4, <2>5, <2>6, <2>7
  <1>4. GroundsOf(base, current, upstream) \subseteq 1..7
    BY DEF GroundsOf, Grounds
  <1> HIDE DEF checks, text, merged, styles, texts
  <1>5. failed = GroundsOf(base, current, upstream)
    BY <1>2, <1>3, <1>4
  <1>6. failed # {} => Min(failed) \in 1..7
    <2>1. failed \subseteq 1..7 /\ failed \subseteq Nat
      BY <1>2
    <2> HIDE DEF failed
    <2> QED BY <2>1, MinIn
  <1> HIDE DEF failed
  <1> QED BY <1>1, <1>3, <1>5, <1>6 DEF text

\* A composite is ready without a clash only, and "conflict" means one.
LEMMA CompositeFacts ==
    ASSUME NEW base, NEW current, NEW upstream
    PROVE  LET a == Composite(base, current, upstream)
           IN /\ a.status = "conflict" => Both(base, current, upstream).clash
              /\ a.status = "ready" => /\ ~Both(base, current, upstream).clash
                                       /\ a.mode = "merged"
                                       /\ a.candidate = MergedLines(base, current, upstream)
  <1>1. PICK a, g : a = Composite(base, current, upstream) /\ g = GroundsOf(base, current, upstream)
    OBVIOUS
  <1>2. a = IF g = {} THEN Text("merged", MergedLines(base, current, upstream))
            ELSE Refused(Reasons[Min(g)])
    BY <1>1, CompositeUnfolded
  <1>3. g \subseteq 1..7 /\ (6 \in g <=> Both(base, current, upstream).clash)
    BY <1>1 DEF GroundsOf, Grounds
  <1>4. CASE g = {}
    BY <1>1, <1>2, <1>3, <1>4 DEF Text
  <1>5. CASE g # {}
    <2>1. g \subseteq Nat
      BY <1>3
    <2>2. Min(g) \in g
      BY <1>5, <2>1, MinIn
    <2>3. PICK i \in 1..7 : i = Min(g) /\ i \in g
      BY <1>3, <2>2
    <2>4. a.status = Reasons[i]
      BY <1>2, <1>5, <2>3 DEF Refused
    <2>5. Reasons[i] # "ready" /\ (Reasons[i] = "conflict" => i = 6)
      <3>1. i = 1 \/ i = 2 \/ i = 3 \/ i = 4 \/ i = 5 \/ i = 6 \/ i = 7
        OBVIOUS
      <3> QED BY <3>1 DEF Reasons
    <2> QED BY <1>1, <1>3, <2>3, <2>4, <2>5
  <1> QED BY <1>4, <1>5

\* Where the combination does not depend on the order of the branches, neither
\* does the composite.
LEMMA CompositeSwapped ==
    ASSUME NEW base, NEW current, NEW upstream,
           Both(base, current, upstream).clash <=> Both(base, upstream, current).clash,
           ~Both(base, current, upstream).clash =>
              MergedLines(base, upstream, current) = MergedLines(base, current, upstream)
    PROVE  Composite(base, upstream, current) = Composite(base, current, upstream)
  <1>1. PICK g, h : g = GroundsOf(base, current, upstream) /\ h = GroundsOf(base, upstream, current)
    OBVIOUS
  <1>2. {base, current, upstream} = {base, upstream, current}
    OBVIOUS
  <1>3. /\ g \subseteq 1..7 /\ h \subseteq 1..7
        /\ \A i \in 1..6 : i \in g <=> i \in h
        /\ ~Both(base, current, upstream).clash => g = h
        /\ Both(base, current, upstream).clash => 6 \in g /\ 6 \in h
    <2>1. g \subseteq 1..7 /\ h \subseteq 1..7
      BY <1>1 DEF GroundsOf, Grounds
    <2>2. \A i \in 1..7 : i # 7 => (i \in g <=> i \in h)
      BY <1>1, <1>2 DEF GroundsOf, Grounds
    <2>3. ~Both(base, current, upstream).clash => (7 \in g <=> 7 \in h)
      BY <1>1, <1>2 DEF GroundsOf, Grounds
    <2>4. Both(base, current, upstream).clash => 6 \in g /\ 6 \in h
      BY <1>1 DEF GroundsOf, Grounds
    <2>5. ~Both(base, current, upstream).clash => g = h
      <3>1. ASSUME ~Both(base, current, upstream).clash, NEW i \in 1..7 PROVE i \in g <=> i \in h
        BY <2>2, <2>3, <3>1
      <3> QED BY <2>1, <3>1
    <2>6. \A i \in 1..6 : i \in g <=> i \in h
      BY <2>2
    <2> QED BY <2>1, <2>4, <2>5, <2>6
  <1>4. CASE ~Both(base, current, upstream).clash
    BY <1>1, <1>3, <1>4, CompositeUnfolded
  <1>5. CASE Both(base, current, upstream).clash
    <2>1. /\ g # {} /\ Min(g) \in g /\ \A j \in g : Min(g) <= j
          /\ h # {} /\ Min(h) \in h /\ \A j \in h : Min(h) <= j
      <3>1. g \subseteq Nat /\ h \subseteq Nat
        BY <1>3
      <3>2. g # {} /\ h # {}
        BY <1>3, <1>5
      <3> QED BY <3>1, <3>2, MinIn
    <2>2. PICK x \in 1..7, y \in 1..7 : x = Min(g) /\ y = Min(h)
      BY <1>3, <2>1
    <2>3. x \in 1..6 /\ y \in 1..6
      BY <1>3, <1>5, <2>1, <2>2
    <2>4. x \in h /\ y \in g
      BY <1>3, <2>1, <2>2, <2>3
    <2>5. x = y
      BY <2>1, <2>2, <2>4
    <2> QED BY <1>1, <2>1, <2>2, <2>5, CompositeUnfolded
  <1> QED BY <1>4, <1>5

\* A text against itself has no edits.
LEMMA NoEdits ==
    ASSUME NEW L, NEW base \in Seq(L)
    PROVE  Edits(base, base) = << >>
  <1>1. PICK n \in Nat : n = Len(base)
    OBVIOUS
  <1>2. Min({n, n}) = n
    <2>1. {n, n} \subseteq Nat /\ {n, n} # {}
      OBVIOUS
    <2>2. Min({n, n}) \in {n, n}
      BY <2>1, MinIn
    <2> QED BY <2>2
  <1> DEFINE S == {k \in 0..n : \A i \in 1..k : base[i] = base[i]}
             T == {k \in 0 .. n - n : \A i \in 0 .. k - 1 : base[n - i] = base[n - i]}
  <1>3. Max(S) = n
    <2>1. S = 0..n
      OBVIOUS
    <2>2. \A x \in S : (\A y \in S : x >= y) => x = n
      BY <2>1
    <2>3. n \in S /\ \A y \in S : n >= y
      BY <2>1
    <2> HIDE DEF S
    <2>4. Max(S) \in S /\ \A y \in S : Max(S) >= y
      BY <2>3 DEF Max
    <2> QED BY <2>2, <2>4
  <1>4. Max(T) = 0
    <2>1. T = 0..0
      OBVIOUS
    <2>2. T \subseteq 0..0 /\ T # {}
      BY <2>1
    <2> HIDE DEF T
    <2>3. Max(T) \in T
      BY <2>2, MaxIn
    <2> QED BY <2>1, <2>3
  <1>5. Window(base, base) = [blo |-> n, bhi |-> n, clo |-> n, chi |-> n]
    <2>1. PICK s, t : s = Max(S) /\ t = Max(T)
      OBVIOUS
    <2>2. Window(base, base) = [blo |-> n, bhi |-> n - 0, clo |-> n, chi |-> n - 0]
      BY <1>1, <1>2, <1>3, <1>4 DEF Window
    <2> QED BY <2>2
  <1>6. PICK w : w = Window(base, base)
    OBVIOUS
  <1>7. w \in Windows(base, base) /\ w.blo = w.bhi /\ w.clo = w.chi
    BY <1>1, <1>5, <1>6 DEF Windows
  <1> QED BY <1>6, <1>7, GapsUnfolded DEF Edits

EditsOf(base, text) == Range(Edits(base.lines, text.lines))

LEMMA CommonLines ==
    ASSUME NEW base, NEW current, NEW upstream,
           Document(base), Document(current), Document(upstream)
    PROVE  \E L : /\ base.lines \in Seq(L) /\ current.lines \in Seq(L) /\ upstream.lines \in Seq(L)
                  /\ OpenAtEnd(base.lines) /\ OpenAtEnd(current.lines) /\ OpenAtEnd(upstream.lines)
  <1>1. PICK b, c, u : b = base.lines /\ c = current.lines /\ u = upstream.lines
    OBVIOUS
  <1>2. b \in Seq(Range(b)) /\ c \in Seq(Range(c)) /\ u \in Seq(Range(u))
    BY <1>1 DEF Document
  <1>3. OpenAtEnd(b) /\ OpenAtEnd(c) /\ OpenAtEnd(u)
    BY <1>1 DEF Document, OpenAtEnd
  <1>4. PICK L : L = Range(b) \cup Range(c) \cup Range(u)
    OBVIOUS
  <1>5. Range(b) \subseteq L /\ Range(c) \subseteq L /\ Range(u) \subseteq L
    BY <1>4
  <1>6. b \in Seq(L) /\ c \in Seq(L) /\ u \in Seq(L)
    BY <1>2, <1>5
  <1> QED BY <1>1, <1>3, <1>6

\* Both branches against their base: they clash where their edits touch, and
\* otherwise all of their edits are made to it, once each.
LEMMA BranchesWoven ==
    ASSUME NEW base, NEW current, NEW upstream,
           Document(base), Document(current), Document(upstream)
    PROVE  /\ Woven(base.lines, EditsOf(base, current)) = current.lines
           /\ Woven(base.lines, EditsOf(base, upstream)) = upstream.lines
           /\ Both(base, current, upstream).clash
                 <=> Touch(EditsOf(base, current), EditsOf(base, upstream))
           /\ ~Both(base, current, upstream).clash =>
                 /\ MergedLines(base, current, upstream).lines
                       = Woven(base.lines, EditsOf(base, current) \cup EditsOf(base, upstream))
                 /\ OpenAtEnd(MergedLines(base, current, upstream).lines)
  <1>1. PICK L : /\ base.lines \in Seq(L) /\ current.lines \in Seq(L) /\ upstream.lines \in Seq(L)
                 /\ OpenAtEnd(base.lines) /\ OpenAtEnd(current.lines) /\ OpenAtEnd(upstream.lines)
    BY CommonLines
  <1>2. PICK b, c, u : b = base.lines /\ c = current.lines /\ u = upstream.lines
    OBVIOUS
  <1>3. b \in Seq(L) /\ c \in Seq(L) /\ u \in Seq(L) /\ OpenAtEnd(b) /\ OpenAtEnd(c) /\ OpenAtEnd(u)
    BY <1>1, <1>2
  <1>4. PICK A, B, r : A = Edits(b, c) /\ B = Edits(b, u) /\ r = Combine(A, B)
    OBVIOUS
  <1>5. /\ InOrder(b, L, A) /\ Woven(b, Range(A)) = c
        /\ InOrder(b, L, B) /\ Woven(b, Range(B)) = u
    BY <1>3, <1>4, EditsWoven
  <1>6. Sorts(b, L, Range(A), Range(B), r)
    BY <1>3, <1>4, <1>5, CombineSorts
  <1>7. r.clash <=> Touch(Range(A), Range(B))
    BY <1>6 DEF Sorts
  <1>8. ASSUME ~r.clash
        PROVE  Weave(b, r.edits) = Woven(b, Range(A) \cup Range(B)) /\ OpenAtEnd(Weave(b, r.edits))
    <2>1. InOrder(b, L, r.edits) /\ Range(r.edits) = Range(A) \cup Range(B)
      BY <1>6, <1>8 DEF Sorts
    <2>2. \A e \in Range(A) \cup Range(B) : EndsWell(b, e)
      BY <1>3, <1>4, EditsEndWell
    <2>3. Weave(b, r.edits) = Woven(b, Range(r.edits))
      BY <1>3, <2>1, WeaveIsWoven
    <2>4. OpenAtEnd(Weave(b, r.edits))
      BY <1>3, <2>1, <2>2, WeaveEndsWell
    <2> QED BY <2>1, <2>3, <2>4
  <1>9. /\ EditsOf(base, current) = Range(A) /\ EditsOf(base, upstream) = Range(B)
        /\ Both(base, current, upstream) = r
        /\ MergedLines(base, current, upstream).lines = Weave(b, r.edits)
    BY <1>2, <1>4 DEF EditsOf, Both, MergedLines
  <1> QED BY <1>2, <1>5, <1>7, <1>8, <1>9

LEMMA TouchEitherWay ==
    ASSUME NEW X, NEW Y
    PROVE  Touch(X, Y) <=> Touch(Y, X)
  BY DEF Touch, SameEdit

\* The composite of two branches.
LEMMA CompositeWoven ==
    ASSUME NEW base, NEW current, NEW upstream, NEW a,
           Document(base), Document(current), Document(upstream),
           a = Composite(base, current, upstream)
    PROVE  /\ Composite(base, upstream, current) = a
           /\ a.status = "conflict" => Touch(EditsOf(base, current), EditsOf(base, upstream))
           /\ a.status = "ready" =>
                 /\ a.mode = "merged"
                 /\ ~Touch(EditsOf(base, current), EditsOf(base, upstream))
                 /\ a.candidate.lines
                       = Woven(base.lines, EditsOf(base, current) \cup EditsOf(base, upstream))
                 /\ OpenAtEnd(a.candidate.lines)
  <1>1. PICK ours, theirs : ours = EditsOf(base, current) /\ theirs = EditsOf(base, upstream)
    OBVIOUS
  <1>2. PICK r, s : r = Both(base, current, upstream) /\ s = Both(base, upstream, current)
    OBVIOUS
  <1>3. /\ r.clash <=> Touch(ours, theirs)
        /\ ~r.clash => /\ MergedLines(base, current, upstream).lines = Woven(base.lines, ours \cup theirs)
                       /\ OpenAtEnd(MergedLines(base, current, upstream).lines)
    BY <1>1, <1>2, BranchesWoven
  <1>4. /\ s.clash <=> Touch(theirs, ours)
        /\ ~s.clash => MergedLines(base, upstream, current).lines = Woven(base.lines, theirs \cup ours)
    BY <1>1, <1>2, BranchesWoven
  <1>5. s.clash <=> r.clash
    BY <1>3, <1>4, TouchEitherWay
  <1>6. theirs \cup ours = ours \cup theirs
    OBVIOUS
  <1>7. ASSUME ~r.clash
        PROVE  MergedLines(base, upstream, current) = MergedLines(base, current, upstream)
    BY <1>3, <1>4, <1>5, <1>6, <1>7 DEF MergedLines
  <1>8. Composite(base, upstream, current) = a
    BY <1>2, <1>5, <1>7, CompositeSwapped
  <1> QED BY <1>1, <1>2, <1>3, <1>8, CompositeFacts

\* What TextIsWoven says of one call.
WovenText(base, current, upstream, a) ==
    LET ours   == EditsOf(base, current)
        theirs == EditsOf(base, upstream)
        b      == MaterializeBsl(base, upstream, current)
    IN /\ b.status = a.status
       /\ a.status = "conflict" => Touch(ours, theirs)
       /\ a.status = "ready" =>
             /\ b.candidate = a.candidate
             /\ a.candidate.lines = Woven(base.lines, ours \cup theirs)
             /\ a.mode = "merged" => ~Touch(ours, theirs)
             /\ OpenAtEnd(a.candidate.lines)

LEMMA MaterializedWoven ==
    ASSUME NEW base, NEW current, NEW upstream,
           Document(base), Document(current), Document(upstream)
    PROVE  WovenText(base, current, upstream, MaterializeBsl(base, current, upstream))
  <1>1. PICK a, b : a = MaterializeBsl(base, current, upstream) /\ b = MaterializeBsl(base, upstream, current)
    OBVIOUS
  <1>2. PICK ours, theirs : ours = EditsOf(base, current) /\ theirs = EditsOf(base, upstream)
    OBVIOUS
  <1>3. Woven(base.lines, ours) = current.lines /\ Woven(base.lines, theirs) = upstream.lines
    BY <1>2, BranchesWoven
  <1>4. /\ OpenAtEnd(base.lines) /\ OpenAtEnd(current.lines) /\ OpenAtEnd(upstream.lines)
        /\ EditsOf(base, base) = {}
    <2>1. PICK L : base.lines \in Seq(L)
      BY CommonLines
    <2>2. EditsOf(base, base) = {}
      BY <2>1, NoEdits DEF EditsOf, Range
    <2> QED BY <2>2 DEF Document, OpenAtEnd
  <1>5. {base, current, upstream} = {base, upstream, current}
    OBVIOUS
  <1>6. CASE \E d \in {base, current, upstream} : TooLong(d)
    BY <1>1, <1>5, <1>6 DEF MaterializeBsl, Refused, WovenText
  <1> DEFINE short == ~ \E d \in {base, current, upstream} : TooLong(d)
  <1>7. CASE short /\ current = upstream
    <2>1. /\ a.status = "ready" /\ a.mode # "merged" /\ a.candidate = current /\ b = a
      BY <1>1, <1>7 DEF MaterializeBsl, Text
    <2>2. ours \cup theirs = ours
      BY <1>2, <1>7
    <2> QED BY <1>1, <1>2, <1>3, <1>4, <2>1, <2>2 DEF WovenText
  <1>8. CASE short /\ current # upstream /\ current = base
    <2>1. /\ a.status = "ready" /\ a.mode # "merged" /\ a.candidate = upstream
          /\ b.status = "ready" /\ b.candidate = upstream
      BY <1>1, <1>5, <1>8 DEF MaterializeBsl, Text
    <2>2. ours \cup theirs = theirs
      BY <1>2, <1>4, <1>8
    <2> QED BY <1>1, <1>2, <1>3, <1>4, <2>1, <2>2 DEF WovenText
  <1>9. CASE short /\ current # upstream /\ upstream = base
    <2>1. /\ a.status = "ready" /\ a.mode # "merged" /\ a.candidate = current
          /\ b.status = "ready" /\ b.candidate = current
      BY <1>1, <1>5, <1>9 DEF MaterializeBsl, Text
    <2>2. ours \cup theirs = ours
      BY <1>2, <1>4, <1>9
    <2> QED BY <1>1, <1>2, <1>3, <1>4, <2>1, <2>2 DEF WovenText
  <1>10. CASE short /\ current # upstream /\ current # base /\ upstream # base
    <2>1. a = Composite(base, current, upstream) /\ b = Composite(base, upstream, current)
      BY <1>1, <1>5, <1>10 DEF MaterializeBsl
    <2>2. /\ b = a
          /\ a.status = "conflict" => Touch(ours, theirs)
          /\ a.status = "ready" =>
                /\ a.mode = "merged" /\ ~Touch(ours, theirs)
                /\ a.candidate.lines = Woven(base.lines, ours \cup theirs)
                /\ OpenAtEnd(a.candidate.lines)
      BY <1>2, <2>1, CompositeWoven
    <2> QED BY <1>1, <1>2, <2>2 DEF WovenText
  <1> QED BY <1>6, <1>7, <1>8, <1>9, <1>10

\* For all texts: a merged text has every edit of both branches once and no
\* other, branches whose edits meet are refused and others are not for that, no
\* unterminated line fuses with the next, and the branches may be exchanged
\* (materialize_bsl_three_way, _edits and _combine).
THEOREM TextsAreWoven == MergeSpec => []TextIsWoven
  <1>1. ASSUME Answered PROVE TextIsWoven
    <2>1. SUFFICES ASSUME call.scope = "bsl-text-v1", answer # NoAnswer PROVE TextIsWoven
      BY DEF TextIsWoven
    <2>2. call.base \in Texts /\ call.current \in Texts /\ call.upstream \in Texts
      BY <1>1, <2>1 DEF Answered, Calls
    <2>3. answer = MaterializeBsl(call.base, call.current, call.upstream)
      BY <1>1, <2>1 DEF Answered, Materialization
    <2>4. Document(call.base) /\ Document(call.current) /\ Document(call.upstream)
      BY <2>2, TextAssumption
    <2>5. WovenText(call.base, call.current, call.upstream, answer)
      BY <2>3, <2>4, MaterializedWoven
    <2>6. /\ Woven(call.base.lines, EditsOf(call.base, call.current)) = call.current.lines
          /\ Woven(call.base.lines, EditsOf(call.base, call.upstream)) = call.upstream.lines
      BY <2>4, BranchesWoven
    <2> QED BY <2>5, <2>6 DEF TextIsWoven, WovenText, EditsOf, OpenAtEnd
  <1> QED BY <1>1, AlwaysAnswered, PTL

USE OperationAssumption, NullAssumption, BoundAssumption

-----------------------------------------------------------------------------
(* The inductive invariant.                                                *)

\* The stored histories: one receipt for each revision and operation.
Receipts ==
    /\ \A r, q \in receipts : r.operation = q.operation => r = q
    /\ \A r \in receipts : r.operation \notin Foreign
    /\ \A r \in receipts : r.request.expected < heads[r.request.draft]
Stored == Receipts /\ HistoryIsBound /\ HistoryIsOneDraft

\* What the text and the status of a draft say to a request from its head.
Kind(request) == IF request.action = "draft.saved" THEN Save(request) ELSE StatusChange(request)

\* An operation that can never change anything any more.
Doomed(o, request) ==
    \/ o \in Foreign
    \/ \E r \in receipts : r.operation = o /\ r.request # request
    \/ heads[request.draft] > request.expected
    \/ heads[request.draft] = request.expected /\ Kind(request) # "change"

Own(c) == [operation |-> c.operation, request |-> c.request]
CallOK(c) ==
    /\ c.pc # "idle" =>
         /\ c.operation \in Operations /\ c.request \in Request
         /\ c.request.expected <= heads[c.request.draft]
    /\ c.pc # "done" => c.outcome = "none"
    /\ c.pc \in {"require", "parse", "transaction"} => ~c.applied
    /\ c.pc \in {"parse", "transaction"} => c.request.expected # MaxRevision
    /\ c.applied => Own(c) \in receipts
    /\ c.outcome = "committed" => Own(c) \in receipts
    /\ c.outcome \in Errors => ~c.applied
    /\ c.outcome \in Verdicts => Own(c) \notin receipts /\ Doomed(c.operation, c.request)

\* A reader has the revisions from top down to low.
Low(read) == IF read.before = 0 THEN 1 ELSE read.before
ReadOK(read) ==
    IF read.draft = NoDraft THEN read.before = 0
    ELSE /\ read.top \in 1..heads[read.draft] /\ read.before <= read.top
         /\ Len(read.items) = read.top - Low(read) + 1
         /\ \A i \in 1..Len(read.items) :
              read.items[i] = revisions[read.draft][read.top - i + 1].operation

IInv == TypeOK /\ Stored /\ (\A w \in Callers : CallOK(calls[w]))
        /\ \A r \in Readers : ReadOK(readers[r])

-----------------------------------------------------------------------------
(* Types.                                                                  *)

LEMMA RequestFields ==
    ASSUME NEW request \in Request
    PROVE  /\ request.draft \in Drafts /\ request.expected \in 0..MaxRevision
           /\ request.action \in Actions
           /\ request.action = "draft.saved" => request.content \in Contents
  BY DEF Request, Actions

LEMMA CallFields ==
    ASSUME NEW c \in Call
    PROVE  /\ c.pc \in {"idle", "require", "parse", "transaction", "reconcile", "done"}
           /\ c.operation \in Operations \union {NoOperation}
           /\ c.request \in Request \union {NoRequest}
           /\ c.applied \in BOOLEAN /\ c.outcome \in Outcomes
  BY DEF Call

LEMMA RevisionFields ==
    ASSUME NEW v \in Revision
    PROVE  v.content \in Contents /\ v.status \in {"active", "archived"} /\ v.operation \in Operations
  BY DEF Revision

LEMMA StoreFacts ==
    ASSUME IInv, NEW d \in Drafts
    PROVE  /\ heads[d] \in 0..MaxRevision /\ heads[d] = Len(revisions[d])
           /\ revisions[d] \in Seq(Revision) /\ DOMAIN revisions[d] = 1..heads[d]
           /\ \A i \in 1..heads[d] : revisions[d][i] \in Revision
  <1>1. heads[d] \in 0..MaxRevision /\ revisions[d] \in Seq(Revision)
    BY DEF IInv, TypeOK
  <1>2. heads[d] = Len(revisions[d])
    BY DEF IInv, Stored, HistoryIsBound
  <1> QED BY <1>1, <1>2

LEMMA ReceiptFields ==
    ASSUME IInv, NEW r \in receipts
    PROVE  /\ r.operation \in Operations /\ r.request \in Request
           /\ r = [operation |-> r.operation, request |-> r.request]
           /\ r.request.draft \in Drafts /\ r.request.expected \in 0..MaxRevision
           /\ r.request.expected < heads[r.request.draft]
  <1>1. r \in Receipt
    BY DEF IInv, TypeOK
  <1>2. r.operation \in Operations /\ r.request \in Request
        /\ r = [operation |-> r.operation, request |-> r.request]
    BY <1>1 DEF Receipt
  <1>3. r.request.expected < heads[r.request.draft]
    BY DEF IInv, Stored, Receipts
  <1> QED BY <1>2, <1>3, RequestFields

\* A call that goes on, or ends.
LEMMA GotoFields ==
    ASSUME NEW c \in Call, NEW l \in {"idle", "require", "parse", "transaction", "reconcile", "done"}
    PROVE  LET e == [c EXCEPT !.pc = l]
           IN /\ e \in Call /\ e.pc = l /\ e.operation = c.operation /\ e.request = c.request
              /\ e.applied = c.applied /\ e.outcome = c.outcome
  BY DEF Call

LEMMA FinishFields ==
    ASSUME NEW c \in Call, NEW x \in Outcomes
    PROVE  LET e == [c EXCEPT !.pc = "done", !.outcome = x]
           IN /\ e \in Call /\ e.pc = "done" /\ e.operation = c.operation /\ e.request = c.request
              /\ e.applied = c.applied /\ e.outcome = x
  BY DEF Call

-----------------------------------------------------------------------------
(* Steps of a caller that leave the store alone.                           *)

LEMMA CallStep ==
    ASSUME IInv, NEW w \in Callers, NEW c \in Call, Put(w, c), CallOK(c),
           UNCHANGED <<store, grants, readers>>
    PROVE  IInv'
  <1>1. /\ heads' = heads /\ revisions' = revisions /\ receipts' = receipts /\ stored' = stored
        /\ grants' = grants /\ readers' = readers
    BY DEF store
  <1>2. calls' = [calls EXCEPT ![w] = c] /\ calls \in [Callers -> Call]
    BY DEF Put, IInv, TypeOK
  <1>3. TypeOK'
    BY <1>1, <1>2 DEF IInv, TypeOK
  <1>4. Stored'
    BY <1>1 DEF IInv, Stored, Receipts, HistoryIsBound, HistoryIsOneDraft
  <1>5. \A e : CallOK(e)' <=> CallOK(e)
    BY <1>1 DEF CallOK, Doomed, Kind, Save, StatusChange, Previous
  <1>6. ASSUME NEW v \in Callers PROVE CallOK(calls[v])'
    <2>1. PICK e : e = calls'[v]
      OBVIOUS
    <2>2. CallOK(e)
      BY <1>2, <2>1 DEF IInv
    <2> QED BY <1>5, <2>1, <2>2
  <1>7. ASSUME NEW r \in Readers PROVE ReadOK(readers[r])'
    BY <1>1 DEF IInv, ReadOK
  <1> QED BY <1>3, <1>4, <1>6, <1>7 DEF IInv

\* The answer of an operation id that is taken says whether the change is its own.
LEMMA AnswerFacts ==
    ASSUME IInv, NEW o \in Operations, NEW request \in Request, Taken(o)
    PROVE  LET own == [operation |-> o, request |-> request]
           IN /\ Answer(o, request) \in {"committed", "OPERATION_CONFLICT"}
              /\ Answer(o, request) = "committed" => own \in receipts
              /\ Answer(o, request) = "OPERATION_CONFLICT" =>
                   own \notin receipts /\ Doomed(o, request)
  <1> DEFINE own == [operation |-> o, request |-> request]
  <1>1. own.operation = o /\ own.request = request
    OBVIOUS
  <1>2. Answer(o, request) \in {"committed", "OPERATION_CONFLICT"}
    BY DEF Answer
  <1>3. ASSUME Answer(o, request) = "committed" PROVE own \in receipts
    <2>1. o \notin Foreign /\ \A r \in FindOperation(o) : r.request = request
      BY <1>3 DEF Answer
    <2>2. PICK r \in receipts : r.operation = o
      BY <2>1 DEF Taken, FindOperation
    <2>3. r.request = request
      BY <2>1, <2>2 DEF FindOperation
    <2> QED BY <2>2, <2>3, ReceiptFields
  <1>4. ASSUME Answer(o, request) = "OPERATION_CONFLICT"
        PROVE  own \notin receipts /\ Doomed(o, request)
    <2>1. o \in Foreign \/ \E r \in receipts : r.operation = o /\ r.request # request
      BY <1>4 DEF Answer, FindOperation
    <2>2. own \notin receipts
      <3> HIDE DEF own
      <3> QED BY <1>1, <2>1 DEF IInv, Stored, Receipts
    <2> QED BY <2>1, <2>2 DEF Doomed
  <1> HIDE DEF own
  <1>5. own = [operation |-> o, request |-> request]
    BY DEF own
  <1> QED BY <1>2, <1>3, <1>4, <1>5

\* What a transaction may answer, and what each answer says.
LEMMA VerdictFacts ==
    ASSUME IInv, NEW w \in Callers, calls[w].pc = "transaction"
    PROVE  LET c == calls[w]
           IN /\ Verdict(w) \in Verdicts \union {"PROJECT_FORBIDDEN", "committed", "change"}
              /\ Verdict(w) = "committed" => Own(c) \in receipts
              /\ Verdict(w) \in Verdicts =>
                   Own(c) \notin receipts /\ Doomed(c.operation, c.request)
              /\ Verdict(w) = "change" =>
                   /\ ~Taken(c.operation) /\ heads[c.request.draft] = c.request.expected
                   /\ Kind(c.request) = "change"
  <1> DEFINE c == calls[w]
  <1>1. /\ c.operation \in Operations /\ c.request \in Request
        /\ c.request.expected <= heads[c.request.draft]
    BY DEF IInv, CallOK
  <1>2. c.request.draft \in Drafts /\ c.request.expected \in 0..MaxRevision
    BY <1>1, RequestFields
  <1>3. heads[c.request.draft] \in 0..MaxRevision
    BY <1>2, StoreFacts
  <1>4. Kind(c.request) \in (Verdicts \union {"change"}) \ {"OPERATION_CONFLICT"}
    BY DEF Kind, Save, StatusChange, Verdicts
  <1>5. CASE ~Require(w)
    BY <1>5 DEF Verdict, Verdicts
  <1>6. CASE Require(w) /\ Taken(c.operation)
    <2>1. Verdict(w) = Answer(c.operation, c.request)
      BY <1>6 DEF Verdict
    <2> QED BY <1>1, <1>6, <2>1, AnswerFacts DEF Own, Verdicts
  <1>7. CASE Require(w) /\ ~Taken(c.operation)
    <2>1. Own(c) \notin receipts
      BY <1>7 DEF Own, Taken, FindOperation
    <2>2. CASE Stale(c.request)
      <3>1. Verdict(w) = "DRAFT_CONFLICT"
        BY <1>7, <2>2 DEF Verdict
      <3>2. heads[c.request.draft] > c.request.expected
        BY <1>1, <1>2, <1>3, <2>2 DEF Stale
      <3> QED BY <2>1, <3>1, <3>2 DEF Doomed, Verdicts
    <2>3. CASE ~Stale(c.request)
      <3>1. Verdict(w) = Kind(c.request)
        BY <1>7, <2>3 DEF Verdict, Kind
      <3>2. heads[c.request.draft] = c.request.expected
        BY <2>3 DEF Stale
      <3>3. "committed" \notin Verdicts /\ "change" \notin Verdicts
        BY DEF Verdicts
      <3>4. Verdict(w) \in Verdicts => Doomed(c.operation, c.request)
        BY <3>1, <3>2, <3>3 DEF Doomed
      <3> QED BY <1>4, <1>7, <2>1, <3>1, <3>2, <3>3, <3>4
    <2> QED BY <2>2, <2>3
  <1> QED BY <1>5, <1>6, <1>7

-----------------------------------------------------------------------------
(* The calls, apart from the commit.                                       *)

\* A call that ends with an answer which says nothing of the store.
LEMMA FinishStep ==
    ASSUME IInv, NEW w \in Callers, calls[w].pc \notin {"idle", "done"},
           NEW x \in Outcomes, Finish(w, x), UNCHANGED <<store, grants, readers>>,
           x = "committed" => Own(calls[w]) \in receipts,
           x \in Errors => ~calls[w].applied,
           x \in Verdicts =>
             Own(calls[w]) \notin receipts /\ Doomed(calls[w].operation, calls[w].request)
    PROVE  IInv'
  <1>1. calls[w] \in Call /\ CallOK(calls[w])
    BY DEF IInv, TypeOK
  <1>2. PICK e : e = [calls[w] EXCEPT !.pc = "done", !.outcome = x]
    OBVIOUS
  <1>3. /\ e \in Call /\ e.pc = "done" /\ e.operation = calls[w].operation
        /\ e.request = calls[w].request /\ e.applied = calls[w].applied /\ e.outcome = x
    BY <1>1, <1>2, FinishFields
  <1>4. Own(e) = Own(calls[w])
    BY <1>3 DEF Own
  <1>5. CallOK(e)
    BY <1>1, <1>3, <1>4 DEF CallOK
  <1>6. Put(w, e)
    BY <1>2 DEF Finish
  <1> QED BY <1>3, <1>5, <1>6, CallStep

\* A call that goes on.
LEMMA GotoStep ==
    ASSUME IInv, NEW w \in Callers, NEW l \in {"parse", "transaction", "reconcile"}, Goto(w, l),
           calls[w].pc \in {"require", "parse", "transaction"},
           l \in {"parse", "transaction"} => calls[w].request.expected # MaxRevision,
           UNCHANGED <<store, grants, readers>>
    PROVE  IInv'
  <1>1. calls[w] \in Call /\ CallOK(calls[w])
    BY DEF IInv, TypeOK
  <1>2. PICK e : e = [calls[w] EXCEPT !.pc = l]
    OBVIOUS
  <1> l \in {"idle", "require", "parse", "transaction", "reconcile", "done"}
    OBVIOUS
  <1>3. /\ e \in Call /\ e.pc = l /\ e.operation = calls[w].operation
        /\ e.request = calls[w].request /\ e.applied = calls[w].applied
        /\ e.outcome = calls[w].outcome
    BY <1>1, <1>2, GotoFields
  <1>4. Own(e) = Own(calls[w])
    BY <1>3 DEF Own
  <1>5. CallOK(e)
    BY <1>1, <1>3, <1>4 DEF CallOK
  <1>6. Put(w, e)
    BY <1>2 DEF Goto
  <1> QED BY <1>3, <1>5, <1>6, CallStep

LEMMA StartStep ==
    ASSUME IInv, NEW w \in Callers, NEW o \in Operations, NEW request \in Request,
           request.expected <= heads[request.draft], Start(w, o, request),
           UNCHANGED <<store, grants, readers>>
    PROVE  IInv'
  <1>1. PICK e : e = [pc |-> "require", operation |-> o, request |-> request,
                      applied |-> FALSE, outcome |-> "none"]
    OBVIOUS
  <1>2. e \in Call
    BY <1>1 DEF Call, Outcomes
  <1>3. CallOK(e)
    BY <1>1 DEF CallOK, Errors, Verdicts
  <1>4. Put(w, e)
    BY <1>1 DEF Start
  <1> QED BY <1>2, <1>3, <1>4, CallStep

-----------------------------------------------------------------------------
(* The commit of a change.                                                 *)

\* One change of the head of a draft, as the transaction writes it.
Change(o, request, next) ==
    /\ ~Taken(o) /\ heads[request.draft] = request.expected /\ request.expected # MaxRevision
    /\ Kind(request) = "change" /\ next = NextRevision(request, o)
    /\ heads' = [heads EXCEPT ![request.draft] = request.expected + 1]
    /\ revisions' = [revisions EXCEPT ![request.draft] = Append(@, next)]
    /\ receipts' = receipts \union {[operation |-> o, request |-> request]}
    /\ stored' = stored \union {next.content}

\* The draft gets one revision more; the others keep theirs.
LEMMA ChangeFacts ==
    ASSUME IInv, NEW o \in Operations, NEW request \in Request, NEW next, Change(o, request, next)
    PROVE  /\ next \in Revision /\ heads' \in [Drafts -> 0..MaxRevision]
           /\ revisions' \in [Drafts -> Seq(Revision)]
           /\ heads'[request.draft] = heads[request.draft] + 1
           /\ Len(revisions'[request.draft]) = heads[request.draft] + 1
           /\ revisions'[request.draft][heads[request.draft] + 1] = next
           /\ \A d \in Drafts :
                /\ heads[d] <= heads'[d]
                /\ \A i \in 1..heads[d] : revisions'[d][i] = revisions[d][i]
                /\ d # request.draft => heads'[d] = heads[d] /\ revisions'[d] = revisions[d]
  <1>1. request.draft \in Drafts /\ request.expected \in 0..MaxRevision
        /\ (request.action = "draft.saved" => request.content \in Contents)
    BY RequestFields
  <1>2. /\ heads[request.draft] \in 0..MaxRevision
        /\ revisions[request.draft] \in Seq(Revision)
        /\ Len(revisions[request.draft]) = heads[request.draft]
        /\ \A i \in 1..heads[request.draft] : revisions[request.draft][i] \in Revision
    BY <1>1, StoreFacts
  <1>3. request.action # "draft.saved" => Previous(request.draft) \in Revision
    <2> SUFFICES ASSUME request.action # "draft.saved" PROVE Previous(request.draft) \in Revision
      OBVIOUS
    <2>1. heads[request.draft] # 0
      BY DEF Change, Kind, StatusChange
    <2> QED BY <1>2, <2>1 DEF Previous
  <1>4. next \in Revision
    <2>1. PICK content : content = (IF request.action = "draft.saved" THEN request.content
                                    ELSE Previous(request.draft).content)
      OBVIOUS
    <2>2. content \in Contents
      BY <1>1, <1>3, <2>1, RevisionFields
    <2> QED BY <2>1, <2>2 DEF Change, NextRevision, Revision
  <1>5. heads \in [Drafts -> 0..MaxRevision] /\ revisions \in [Drafts -> Seq(Revision)]
    BY DEF IInv, TypeOK
  <1>6. /\ heads'[request.draft] = heads[request.draft] + 1
        /\ revisions'[request.draft] = Append(revisions[request.draft], next)
        /\ \A d \in Drafts : d # request.draft =>
             heads'[d] = heads[d] /\ revisions'[d] = revisions[d]
    BY <1>1, <1>5 DEF Change
  <1>7. /\ Append(revisions[request.draft], next) \in Seq(Revision)
        /\ Len(Append(revisions[request.draft], next)) = heads[request.draft] + 1
        /\ Append(revisions[request.draft], next)[heads[request.draft] + 1] = next
        /\ \A i \in 1..heads[request.draft] :
             Append(revisions[request.draft], next)[i] = revisions[request.draft][i]
    BY <1>2, <1>4
  <1>8. heads' \in [Drafts -> 0..MaxRevision] /\ revisions' \in [Drafts -> Seq(Revision)]
    BY <1>1, <1>2, <1>5, <1>7 DEF Change
  <1>9. ASSUME NEW d \in Drafts
        PROVE  /\ heads[d] <= heads'[d]
               /\ \A i \in 1..heads[d] : revisions'[d][i] = revisions[d][i]
               /\ d # request.draft => heads'[d] = heads[d] /\ revisions'[d] = revisions[d]
    <2>1. heads[d] \in 0..MaxRevision
      BY StoreFacts
    <2>2. CASE d = request.draft
      BY <1>6, <1>7, <2>1, <2>2
    <2>3. CASE d # request.draft
      BY <1>6, <2>1, <2>3
    <2> QED BY <2>2, <2>3
  <1>10. Len(revisions'[request.draft]) = heads[request.draft] + 1
         /\ revisions'[request.draft][heads[request.draft] + 1] = next
    BY <1>6, <1>7
  <1> QED BY <1>4, <1>6, <1>8, <1>9, <1>10

\* The change keeps the histories bound to their receipts.
LEMMA ChangeKeepsStored ==
    ASSUME IInv, NEW o \in Operations, NEW request \in Request, NEW next, Change(o, request, next)
    PROVE  Stored'
  <1> DEFINE new == [operation |-> o, request |-> request]
  <1> DEFINE n == request.expected
  <1>1. request.draft \in Drafts /\ n \in 0..MaxRevision /\ heads[request.draft] = n
        /\ request.action \in Actions
    BY RequestFields DEF Change
  <1>2. receipts' = receipts \union {new} /\ stored' = stored \union {next.content}
        /\ new.operation = o /\ new.request = request
    BY DEF Change
  <1> HIDE DEF new
  <1>3. o \notin Foreign /\ \A r \in receipts : r.operation # o
    BY DEF Change, Taken, FindOperation
  <1>4. next.operation = o /\ (next.status = "archived" <=> request.action = "draft.archived")
    BY DEF Change, NextRevision
  <1>5. Receipts'
    <2>1. \A r \in receipts : /\ r.operation \notin Foreign
                              /\ \A q \in receipts : r.operation = q.operation => r = q
      BY DEF IInv, Stored, Receipts
    <2>2. ASSUME NEW r \in receipts PROVE r.request.expected < heads'[r.request.draft]
      <3>1. r.request.draft \in Drafts /\ r.request.expected \in 0..MaxRevision
            /\ r.request.expected < heads[r.request.draft]
        BY ReceiptFields
      <3>2. heads[r.request.draft] <= heads'[r.request.draft]
            /\ heads[r.request.draft] \in 0..MaxRevision /\ heads'[r.request.draft] \in 0..MaxRevision
        BY <3>1, StoreFacts, ChangeFacts
      <3> QED BY <3>1, <3>2
    <2>3. request.expected < heads'[request.draft]
      BY <1>1, ChangeFacts
    <2> QED BY <1>2, <1>3, <2>1, <2>2, <2>3 DEF Receipts
  <1>6. HistoryIsBound'
    <2>1. ASSUME NEW d \in Drafts PROVE heads'[d] = Len(revisions'[d])
      BY <1>1, <2>1, StoreFacts, ChangeFacts
    <2>2. ASSUME NEW d \in Drafts, NEW i \in 1..heads'[d]
          PROVE  /\ revisions'[d][i].content \in stored'
                 /\ \E r \in receipts' :
                      /\ r.operation = revisions'[d][i].operation
                      /\ r.request.draft = d /\ r.request.expected = i - 1
                      /\ revisions'[d][i].status = "archived" <=>
                           r.request.action = "draft.archived"
      <3>1. CASE i \in 1..heads[d]
        <4>1. revisions'[d][i] = revisions[d][i]
          BY <3>1, ChangeFacts
        <4>2. /\ revisions[d][i].content \in stored
              /\ \E r \in receipts :
                   /\ r.operation = revisions[d][i].operation
                   /\ r.request.draft = d /\ r.request.expected = i - 1
                   /\ revisions[d][i].status = "archived" <=> r.request.action = "draft.archived"
          <5>1. i \in DOMAIN revisions[d]
            BY <3>1, StoreFacts
          <5> QED BY <5>1 DEF IInv, Stored, HistoryIsBound
        <4> QED BY <1>2, <4>1, <4>2
      <3>2. CASE i \notin 1..heads[d]
        <4>1. heads[d] \in Nat /\ heads'[d] \in Nat
          BY StoreFacts, ChangeFacts
        <4>2. d = request.draft /\ i = n + 1
          BY <1>1, <3>2, <4>1, ChangeFacts
        <4>3. revisions'[d][i] = next
          BY <1>1, <4>2, ChangeFacts
        <4>4. n = i - 1
          BY <1>1, <4>2
        <4> QED BY <1>2, <1>4, <4>2, <4>3, <4>4
      <3> QED BY <3>1, <3>2
    <2>3. ASSUME NEW r \in receipts'
          PROVE  revisions'[r.request.draft][r.request.expected + 1].operation = r.operation
      <3>1. CASE r \in receipts
        <4>1. /\ r.request.draft \in Drafts /\ r.request.expected \in 0..MaxRevision
              /\ r.request.expected < heads[r.request.draft]
          BY <3>1, ReceiptFields
        <4>2. heads[r.request.draft] \in Nat
          BY <4>1, StoreFacts
        <4>3. r.request.expected + 1 \in 1..heads[r.request.draft]
          BY <4>1, <4>2
        <4>4. revisions[r.request.draft][r.request.expected + 1].operation = r.operation
          BY <3>1 DEF IInv, Stored, HistoryIsBound
        <4> QED BY <4>1, <4>3, <4>4, ChangeFacts
      <3>2. CASE r = new
        BY <1>1, <1>2, <1>4, <3>2, ChangeFacts
      <3> QED BY <1>2, <3>1, <3>2
    <2>4. \A d \in Drafts : DOMAIN revisions'[d] = 1..heads'[d]
      <3> TAKE d \in Drafts
      <3>1. revisions'[d] \in Seq(Revision)
        BY ChangeFacts
      <3> QED BY <2>1, <3>1
    <2> QED BY <2>1, <2>2, <2>3, <2>4 DEF HistoryIsBound
  <1>7. HistoryIsOneDraft'
    <2> SUFFICES ASSUME NEW d \in Drafts, NEW i \in 1..(Len(revisions'[d]) - 1)
                 PROVE  LET before == revisions'[d][i]  after == revisions'[d][i + 1]
                        IN /\ SourceOf[before.content] = SourceOf[after.content]
                           /\ \E r \in receipts' :
                                /\ r.operation = after.operation
                                /\ r.request.action # "draft.saved" =>
                                     before.content = after.content
                                /\ r.request.action = "draft.restored" <=>
                                     before.status = "archived"
      BY DEF HistoryIsOneDraft
    <2>1. heads[d] \in Nat /\ Len(revisions[d]) = heads[d]
      BY StoreFacts
    <2>2. CASE i + 1 \in 1..heads[d]
      <3>1. i \in 1..heads[d] /\ i \in 1..(Len(revisions[d]) - 1)
        BY <2>1, <2>2
      <3>2. revisions'[d][i] = revisions[d][i] /\ revisions'[d][i + 1] = revisions[d][i + 1]
        BY <2>2, <3>1, ChangeFacts
      <3> QED BY <1>2, <3>1, <3>2 DEF IInv, Stored, HistoryIsOneDraft
    <2>3. CASE i + 1 \notin 1..heads[d]
      <3>1. Len(revisions'[d]) \in Nat
        <4>1. revisions'[d] \in Seq(Revision)
          BY ChangeFacts
        <4> QED BY <4>1
      <3>2. d = request.draft /\ i = n /\ n \in 1..heads[d]
        BY <1>1, <2>1, <2>3, <3>1, ChangeFacts
      <3>3. revisions'[d][i] = Previous(d) /\ revisions'[d][i + 1] = next
        BY <1>1, <3>2, ChangeFacts DEF Previous
      <3>4. CASE request.action = "draft.saved"
        <4>1. Previous(d).status # "archived"
              /\ SourceOf[request.content] = SourceOf[Previous(d).content]
          BY <1>1, <3>2, <3>4 DEF Change, Kind, Save
        <4>2. next.content = request.content
          BY <3>4 DEF Change, NextRevision
        <4>3. new \in receipts' /\ new.operation = next.operation
          BY <1>2, <1>4
        <4> QED BY <1>2, <3>3, <3>4, <4>1, <4>2, <4>3
      <3>5. CASE request.action # "draft.saved"
        <4>1. next.content = Previous(d).content
          BY <3>2, <3>5 DEF Change, NextRevision
        <4>2. Previous(d).status
                = (IF request.action = "draft.archived" THEN "active" ELSE "archived")
          BY <1>1, <3>2, <3>5 DEF Change, Kind, StatusChange
        <4>3. request.action \in {"draft.archived", "draft.restored"}
          BY <1>1, <3>5 DEF Actions
        <4>4. new \in receipts' /\ new.operation = next.operation
          BY <1>2, <1>4
        <4> QED BY <1>2, <3>3, <3>5, <4>1, <4>2, <4>3, <4>4
      <3> QED BY <3>4, <3>5
    <2> QED BY <2>2, <2>3
  <1> QED BY <1>5, <1>6, <1>7 DEF Stored

\* What a call knows of the store survives the change of another one.
LEMMA ChangeKeepsCalls ==
    ASSUME IInv, NEW o \in Operations, NEW request \in Request, NEW next,
           Change(o, request, next), NEW e, CallOK(e)
    PROVE  CallOK(e)'
  <1> DEFINE new == [operation |-> o, request |-> request]
  <1>1. receipts' = receipts \union {new} /\ new.operation = o /\ new.request = request
    BY DEF Change
  <1> HIDE DEF new
  <1>2. o \notin Foreign /\ (\A r \in receipts : r.operation # o)
        /\ heads[request.draft] = request.expected /\ Kind(request) = "change"
    BY DEF Change, Taken, FindOperation
  <1>3. request.draft \in Drafts /\ request.expected \in 0..MaxRevision
    BY RequestFields
  <1>4. ASSUME e.pc # "idle"
        PROVE  /\ e.request.expected <= heads'[e.request.draft]
               /\ Doomed(e.operation, e.request) => Doomed(e.operation, e.request)'
                                                    /\ Own(e) # new
    <2>1. e.request \in Request /\ e.operation \in Operations
          /\ e.request.expected <= heads[e.request.draft]
      BY <1>4 DEF CallOK
    <2>2. e.request.draft \in Drafts /\ e.request.expected \in 0..MaxRevision
      BY <2>1, RequestFields
    <2>3. heads[e.request.draft] \in 0..MaxRevision /\ heads'[e.request.draft] \in 0..MaxRevision
          /\ heads[e.request.draft] <= heads'[e.request.draft]
      BY <2>2, StoreFacts, ChangeFacts
    <2>4. ASSUME Doomed(e.operation, e.request) PROVE Doomed(e.operation, e.request)' /\ Own(e) # new
      <3>1. Own(e) # new
        <4> SUFFICES ASSUME e.operation = o, e.request = request PROVE FALSE
          BY <1>1 DEF Own
        <4> QED BY <1>2, <1>3, <2>4 DEF Doomed
      <3>2. CASE e.operation \in Foreign \/ \E r \in receipts : r.operation = e.operation /\ r.request # e.request
        BY <1>1, <3>1, <3>2 DEF Doomed
      <3>3. CASE heads[e.request.draft] > e.request.expected
        BY <2>2, <2>3, <3>1, <3>3 DEF Doomed
      <3>4. CASE heads[e.request.draft] = e.request.expected /\ Kind(e.request) # "change"
        <4>1. CASE e.request.draft = request.draft
          <5>1. heads'[e.request.draft] = e.request.expected + 1
            BY <3>4, <4>1, ChangeFacts
          <5> QED BY <2>2, <3>1, <5>1 DEF Doomed
        <4>2. CASE e.request.draft # request.draft
          <5>1. heads'[e.request.draft] = heads[e.request.draft]
                /\ revisions'[e.request.draft] = revisions[e.request.draft]
            BY <2>2, <4>2, ChangeFacts
          <5>2. Kind(e.request)' = Kind(e.request)
            BY <5>1 DEF Kind, Save, StatusChange, Previous
          <5> QED BY <3>1, <3>4, <5>1, <5>2 DEF Doomed
        <4> QED BY <4>1, <4>2
      <3> QED BY <2>4, <3>1, <3>2, <3>3, <3>4 DEF Doomed
    <2> QED BY <2>1, <2>2, <2>3, <2>4
  <1>5. Own(e)' = Own(e)
    BY DEF Own
  <1>6. e.outcome \in Verdicts => e.pc # "idle"
    BY DEF CallOK, Verdicts
  <1>7. /\ e.pc # "idle" =>
             /\ e.operation \in Operations /\ e.request \in Request
             /\ e.request.expected <= heads'[e.request.draft]
        /\ e.pc # "done" => e.outcome = "none"
        /\ e.pc \in {"require", "parse", "transaction"} => ~e.applied
        /\ e.pc \in {"parse", "transaction"} => e.request.expected # MaxRevision
        /\ e.applied => Own(e) \in receipts'
        /\ e.outcome = "committed" => Own(e) \in receipts'
        /\ e.outcome \in Errors => ~e.applied
    BY <1>1, <1>4 DEF CallOK
  <1>8. e.outcome \in Verdicts => Own(e) \notin receipts' /\ Doomed(e.operation, e.request)'
    BY <1>1, <1>4, <1>6 DEF CallOK
  <1> QED BY <1>5, <1>7, <1>8 DEF CallOK

\* A reader that has begun is not disturbed by a change.
LEMMA ChangeKeepsReaders ==
    ASSUME IInv, NEW o \in Operations, NEW request \in Request, NEW next,
           Change(o, request, next), NEW r \in Readers, readers' = readers
    PROVE  ReadOK(readers[r])'
  <1>1. PICK read : read = readers[r]
    OBVIOUS
  <1>2. /\ read.draft \in Drafts \union {NoDraft} /\ read.top \in 0..MaxRevision
        /\ read.before \in 0..MaxRevision /\ read.items \in Seq(Operations)
    BY <1>1 DEF IInv, TypeOK
  <1>3. ReadOK(read)
    BY <1>1 DEF IInv
  <1>4. CASE read.draft = NoDraft
    BY <1>1, <1>3, <1>4 DEF ReadOK
  <1>5. CASE read.draft # NoDraft
    <2>1. read.draft \in Drafts
      BY <1>2, <1>5
    <2>2. heads[read.draft] \in 0..MaxRevision /\ heads'[read.draft] \in 0..MaxRevision
          /\ heads[read.draft] <= heads'[read.draft]
      BY <2>1, StoreFacts, ChangeFacts
    <2>3. /\ read.top \in 1..heads[read.draft] /\ read.before <= read.top
          /\ Len(read.items) = read.top - Low(read) + 1
      BY <1>3, <1>5 DEF ReadOK
    <2>4. ASSUME NEW i \in 1..Len(read.items)
          PROVE  read.items[i] = revisions'[read.draft][read.top - i + 1].operation
      <3>1. read.items[i] = revisions[read.draft][read.top - i + 1].operation
        BY <1>3, <1>5 DEF ReadOK
      <3>2. Low(read) >= 1 /\ Low(read) \in Nat
        BY <1>2 DEF Low
      <3>3. read.top - i + 1 \in 1..heads[read.draft]
        BY <1>2, <2>2, <2>3, <3>2
      <3>4. revisions'[read.draft][read.top - i + 1] = revisions[read.draft][read.top - i + 1]
        BY <2>1, <3>3, ChangeFacts
      <3> QED BY <3>1, <3>4
    <2>5. Low(read)' = Low(read)
      BY DEF Low
    <2>6. read.top \in 1..heads'[read.draft]
      BY <2>2, <2>3
    <2> QED BY <1>1, <1>5, <2>3, <2>4, <2>5, <2>6 DEF ReadOK
  <1> QED BY <1>4, <1>5

LEMMA CommitStep == ASSUME IInv, NEW w \in Callers, Commit(w) PROVE IInv'
  <1>1. PICK c : c = calls[w]
    OBVIOUS
  <1>2. c \in Call /\ CallOK(c) /\ c.pc = "transaction" /\ Verdict(w) = "change"
    BY <1>1 DEF IInv, TypeOK, Commit
  <1>3. c.operation \in Operations /\ c.request \in Request /\ c.request.expected # MaxRevision
    BY <1>2 DEF CallOK
  <1>4. PICK next : next = NextRevision(c.request, c.operation)
    OBVIOUS
  <1>5. Change(c.operation, c.request, next) /\ UNCHANGED <<grants, readers>>
    <2>1. ~Taken(c.operation) /\ heads[c.request.draft] = c.request.expected
          /\ Kind(c.request) = "change"
      BY <1>1, <1>2, VerdictFacts
    <2>2. /\ heads' = [heads EXCEPT ![c.request.draft] = c.request.expected + 1]
          /\ revisions' = [revisions EXCEPT ![c.request.draft] = Append(@, next)]
          /\ receipts' = receipts \union {[operation |-> c.operation, request |-> c.request]}
          /\ stored' = stored \union {next.content}
          /\ UNCHANGED <<grants, readers>>
      BY <1>1, <1>4 DEF Commit
    <2> QED BY <1>3, <1>4, <2>1, <2>2 DEF Change
  <1>6. PICK e : Put(w, e) /\ e \in {[c EXCEPT !.applied = TRUE, !.pc = "done", !.outcome = "committed"],
                                     [c EXCEPT !.applied = TRUE, !.pc = "reconcile"]}
    BY <1>1 DEF Commit
  <1>7. /\ e \in Call /\ e.pc \in {"done", "reconcile"} /\ e.operation = c.operation
        /\ e.request = c.request /\ e.outcome \in {"none", "committed"}
        /\ e.pc = "reconcile" => e.outcome = "none"
    BY <1>2, <1>6 DEF Call, Outcomes, CallOK
  <1>8. CallOK(e)'
    <2>1. Own(e) = [operation |-> c.operation, request |-> c.request]
      BY <1>7 DEF Own
    <2>2. Own(e)' \in receipts'
      BY <1>5, <2>1 DEF Change, Own
    <2>3. c.request.draft \in Drafts /\ c.request.expected \in 0..MaxRevision
      BY <1>3, RequestFields
    <2>4. heads'[c.request.draft] = c.request.expected + 1
      <3>1. heads'[c.request.draft] = heads[c.request.draft] + 1
        BY <1>3, <1>5, ChangeFacts
      <3>2. heads[c.request.draft] = c.request.expected
        BY <1>5 DEF Change
      <3> QED BY <3>1, <3>2
    <2>5. e.outcome \notin Errors /\ e.outcome \notin Verdicts
      BY <1>7 DEF Errors, Verdicts
    <2> QED BY <1>3, <1>7, <2>2, <2>3, <2>4, <2>5 DEF CallOK
  <1>9. calls' = [calls EXCEPT ![w] = e] /\ calls \in [Callers -> Call]
    BY <1>6 DEF Put, IInv, TypeOK
  <1>10. ASSUME NEW v \in Callers PROVE CallOK(calls[v])'
    <2>1. PICK f : f = calls[v]
      OBVIOUS
    <2>2. CallOK(f)'
      BY <1>3, <1>5, <2>1, ChangeKeepsCalls DEF IInv
    <2>3. CASE v = w
      <3>1. calls'[v] = e
        BY <1>9, <2>3
      <3> QED BY <1>8, <3>1
    <2>4. CASE v # w
      <3>1. calls'[v] = f
        BY <1>9, <2>1, <2>4
      <3> QED BY <2>2, <3>1
    <2> QED BY <2>3, <2>4
  <1>11. TypeOK'
    <2>1. /\ next \in Revision /\ heads' \in [Drafts -> 0..MaxRevision]
          /\ revisions' \in [Drafts -> Seq(Revision)]
      BY <1>3, <1>5, ChangeFacts
    <2>2. receipts' \subseteq Receipt
      BY <1>3, <1>5 DEF Change, Receipt, IInv, TypeOK
    <2>3. stored' \subseteq Contents
      BY <1>5, <2>1, RevisionFields DEF Change, IInv, TypeOK
    <2> QED BY <1>5, <1>7, <1>9, <2>1, <2>2, <2>3 DEF IInv, TypeOK
  <1>12. Stored'
    BY <1>3, <1>5, ChangeKeepsStored
  <1>13. ASSUME NEW r \in Readers PROVE ReadOK(readers[r])'
    BY <1>3, <1>5, ChangeKeepsReaders
  <1> QED BY <1>10, <1>11, <1>12, <1>13 DEF IInv

-----------------------------------------------------------------------------
(* The readers.                                                            *)

LEMMA Joined ==
    ASSUME NEW S, NEW s \in Seq(S), NEW t \in Seq(S)
    PROVE  /\ s \o t \in Seq(S) /\ Len(s \o t) = Len(s) + Len(t)
           /\ \A i \in 1..Len(s) : (s \o t)[i] = s[i]
           /\ \A i \in (Len(s) + 1)..(Len(s) + Len(t)) : (s \o t)[i] = t[i - Len(s)]
  OBVIOUS

\* One page continues exactly where the pages before it end.
LEMMA PageStep ==
    ASSUME IInv, NEW r \in Readers, NEW d \in Drafts, NEW top \in 1..heads[d],
           NEW before \in 1..(top + 1), NEW items \in Seq(Operations),
           Len(items) = top - before + 1,
           \A i \in 1..Len(items) : items[i] = revisions[d][top - i + 1].operation,
           Page(r, d, before, items, top), UNCHANGED <<store, grants, calls>>
    PROVE  IInv'
  <1>1. heads[d] \in 0..MaxRevision /\ DOMAIN revisions[d] = 1..heads[d]
        /\ \A i \in 1..heads[d] : revisions[d][i] \in Revision
    BY StoreFacts
  <1>2. PICK last : last = (IF before - 1 < heads[d] THEN before - 1 ELSE heads[d])
    OBVIOUS
  <1>3. PICK first : first = (IF last > PageSize THEN last - PageSize + 1 ELSE 1)
    OBVIOUS
  <1>4. PICK size : size = last - first + 1
    OBVIOUS
  <1>5. PICK more : more = [i \in 1..size |-> OperationsOf(d)[last - i + 1]]
    OBVIOUS
  <1>6. PICK read : read = [draft |-> d, top |-> top,
                            before |-> IF first > 1 THEN first ELSE 0,
                            items |-> items \o more]
    OBVIOUS
  <1>7. last = before - 1 /\ last \in 0..heads[d] /\ top \in Nat /\ before \in Nat
    BY <1>1, <1>2
  <1>8. first \in Nat \ {0} /\ size \in Nat /\ (first > 1 => first <= last)
    BY <1>3, <1>4, <1>7
  <1>9. \A i \in 1..size : last - i + 1 \in 1..heads[d]
    BY <1>1, <1>4, <1>7, <1>8
  <1>10. \A i \in 1..size : more[i] = revisions[d][last - i + 1].operation
    BY <1>1, <1>5, <1>9 DEF OperationsOf
  <1>11. more \in Seq(Operations) /\ Len(more) = size
    <2>1. \A i \in 1..size : OperationsOf(d)[last - i + 1] \in Operations
      BY <1>1, <1>9, RevisionFields DEF OperationsOf
    <2> QED BY <1>5, <1>8, <2>1
  <1>12. readers' = [readers EXCEPT ![r] = read]
    BY <1>2, <1>3, <1>4, <1>5, <1>6 DEF Page, Paged
  <1>13. items \o more \in Seq(Operations) /\ Len(items \o more) = top - first + 1
    <2>1. items \o more \in Seq(Operations) /\ Len(items \o more) = Len(items) + Len(more)
      BY <1>11, Joined
    <2>2. first \in Int /\ top \in Int /\ before \in Int
      BY <1>7, <1>8
    <2>3. (top - before + 1) + (before - 1 - first + 1) = top - first + 1
      BY <2>2
    <2> QED BY <1>4, <1>7, <1>11, <2>1, <2>3
  <1>14. /\ read.draft = d /\ read.top = top /\ read.items = items \o more
         /\ read.before = (IF first > 1 THEN first ELSE 0)
    BY <1>6
  <1>15. read.before \in 0..top /\ Low(read) = first
    BY <1>7, <1>8, <1>14 DEF Low
  <1>16. \A i \in 1..Len(read.items) : read.items[i] = revisions[d][top - i + 1].operation
    <2> TAKE i \in 1..Len(read.items)
    <2>1. CASE i <= Len(items)
      BY <1>11, <1>14, <2>1
    <2>2. CASE i > Len(items)
      <3>1. i - Len(items) \in 1..size /\ i \in Int
        <4>1. Len(read.items) = top - first + 1 /\ Len(items) = top - before + 1
          BY <1>13, <1>14
        <4>2. i \in 1..(top - first + 1) /\ i > top - before + 1
          BY <2>2, <4>1
        <4>3. size = before - first
          BY <1>4, <1>7, <1>8
        <4>4. i - (top - before + 1) \in 1..(before - first) /\ i \in Int
          BY <1>7, <1>8, <4>2
        <4> QED BY <4>1, <4>3, <4>4
      <3>2. read.items[i] = more[i - Len(items)]
        <4>1. i \in (Len(items) + 1)..(Len(items) + Len(more))
          BY <1>11, <2>2, <3>1
        <4> QED BY <1>11, <1>14, <4>1, Joined
      <3>3. last - (i - Len(items)) + 1 = top - i + 1
        BY <1>7, <3>1
      <3> QED BY <1>10, <3>1, <3>2, <3>3
    <2> QED BY <1>11, <2>1, <2>2
  <1>17. ReadOK(read)
    <2>1. d # NoDraft
      OBVIOUS
    <2> QED BY <1>13, <1>14, <1>15, <1>16, <2>1 DEF ReadOK
  <1>18. /\ heads' = heads /\ revisions' = revisions /\ receipts' = receipts /\ stored' = stored
         /\ grants' = grants /\ calls' = calls
    BY DEF store
  <1>19. TypeOK'
    <2>1. read \in [draft: Drafts \union {NoDraft}, top: 0..MaxRevision,
                    before: 0..MaxRevision, items: Seq(Operations)]
      <3>1. top \in 0..MaxRevision /\ read.before \in 0..MaxRevision
        BY <1>1, <1>7, <1>15
      <3> QED BY <1>6, <1>13, <1>14, <3>1
    <2> QED BY <1>12, <1>18, <2>1 DEF IInv, TypeOK
  <1>20. Stored'
    BY <1>18 DEF IInv, Stored, Receipts, HistoryIsBound, HistoryIsOneDraft
  <1>21. ASSUME NEW w \in Callers PROVE CallOK(calls[w])'
    BY <1>18 DEF IInv, CallOK, Own, Doomed, Kind, Save, StatusChange, Previous
  <1>22. ASSUME NEW q \in Readers PROVE ReadOK(readers[q])'
    <2>1. PICK f : f = readers'[q]
      OBVIOUS
    <2>2. f = read \/ f = readers[q]
      BY <1>12, <2>1 DEF IInv, TypeOK
    <2>3. ReadOK(f)
      BY <1>17, <2>2 DEF IInv
    <2> QED BY <1>18, <2>1, <2>3 DEF ReadOK, Low
  <1> QED BY <1>19, <1>20, <1>21, <1>22 DEF IInv

LEMMA ReaderStep ==
    ASSUME IInv, NEW r \in Readers, OpenHistory(r) \/ NextPage(r)
    PROVE  IInv'
  <1>1. CASE OpenHistory(r)
    <2>1. PICK d \in Drafts : heads[d] # 0 /\ Page(r, d, heads[d] + 1, << >>, heads[d])
      BY <1>1 DEF OpenHistory
    <2>2. heads[d] \in 0..MaxRevision
      BY StoreFacts
    <2>3. /\ heads[d] \in 1..heads[d] /\ heads[d] + 1 \in 1..(heads[d] + 1)
          /\ << >> \in Seq(Operations) /\ Len(<< >>) = heads[d] - (heads[d] + 1) + 1
          /\ \A i \in 1..Len(<< >>) : << >>[i] = revisions[d][heads[d] - i + 1].operation
      BY <2>1, <2>2
    <2>4. UNCHANGED <<store, grants, calls>>
      BY <1>1 DEF OpenHistory
    <2> QED BY <2>1, <2>3, <2>4, PageStep
  <1>2. CASE NextPage(r)
    <2>1. PICK read : read = readers[r]
      OBVIOUS
    <2>2. /\ read.draft \in Drafts \union {NoDraft} /\ read.top \in 0..MaxRevision
          /\ read.before \in 0..MaxRevision /\ read.items \in Seq(Operations) /\ ReadOK(read)
      BY <2>1 DEF IInv, TypeOK
    <2>3. read.before > 0 /\ Page(r, read.draft, read.before, read.items, read.top)
          /\ UNCHANGED <<store, grants, calls>>
      BY <1>2, <2>1 DEF NextPage
    <2>4. /\ read.draft \in Drafts /\ read.top \in 1..heads[read.draft]
          /\ read.before \in 1..(read.top + 1) /\ Len(read.items) = read.top - read.before + 1
          /\ \A i \in 1..Len(read.items) :
               read.items[i] = revisions[read.draft][read.top - i + 1].operation
      BY <2>2, <2>3 DEF ReadOK, Low
    <2> QED BY <2>2, <2>3, <2>4, PageStep
  <1> QED BY <1>1, <1>2

-----------------------------------------------------------------------------
(* Every step.                                                             *)

LEMMA CallerStep ==
    ASSUME IInv, NEW w \in Callers,
           Edit(w) \/ Retry(w) \/ CheckRequest(w) \/ ParseProposal(w) \/ Refuse(w)
             \/ LoseTransaction(w) \/ Reconcile(w) \/ Crash(w)
    PROVE  IInv'
  <1>0. calls[w] \in Call /\ CallOK(calls[w])
    BY DEF IInv, TypeOK
  <1>1. CASE Edit(w)
    <2>1. PICK o \in Operations, request \in Request :
            request.expected = heads[request.draft] /\ Start(w, o, request)
      BY <1>1 DEF Edit
    <2>2. request.expected \in 0..MaxRevision
      BY RequestFields
    <2>3. UNCHANGED <<store, grants, readers>> /\ request.expected <= heads[request.draft]
      BY <1>1, <2>1, <2>2 DEF Edit
    <2> QED BY <2>1, <2>3, StartStep
  <1>2. CASE Retry(w)
    <2>1. PICK v \in Callers : calls[v].pc # "idle" /\ Start(w, calls[v].operation, calls[v].request)
      BY <1>2 DEF Retry
    <2>2. /\ calls[v].operation \in Operations /\ calls[v].request \in Request
          /\ calls[v].request.expected <= heads[calls[v].request.draft]
      BY <2>1 DEF IInv, CallOK
    <2>3. UNCHANGED <<store, grants, readers>>
      BY <1>2 DEF Retry
    <2> QED BY <2>1, <2>2, <2>3, StartStep
  <1>3. CASE CheckRequest(w)
    <2>1. calls[w].pc = "require" /\ ~calls[w].applied /\ UNCHANGED <<store, grants, readers>>
      BY <1>0, <1>3 DEF CheckRequest, CallOK
    <2>2. \/ Finish(w, "PROJECT_FORBIDDEN") \/ Finish(w, "DRAFT_INVALID")
          \/ (Goto(w, "parse") \/ Goto(w, "transaction"))
               /\ calls[w].request.expected # MaxRevision
      BY <1>3 DEF CheckRequest
    <2>3. CASE Finish(w, "PROJECT_FORBIDDEN") \/ Finish(w, "DRAFT_INVALID")
      BY <2>1, <2>3, FinishStep DEF Outcomes, Errors, Verdicts
    <2> QED BY <2>1, <2>2, <2>3, GotoStep
  <1>4. CASE ParseProposal(w)
    <2>1. /\ calls[w].pc = "parse" /\ ~calls[w].applied /\ UNCHANGED <<store, grants, readers>>
          /\ calls[w].request.expected # MaxRevision
      BY <1>0, <1>4 DEF ParseProposal, CallOK
    <2>2. CASE Goto(w, "transaction")
      BY <2>1, <2>2, GotoStep
    <2>3. CASE Finish(w, "PROPOSAL_INVALID")
      BY <2>1, <2>3, FinishStep DEF Outcomes, Errors, Verdicts
    <2> QED BY <1>4, <2>2, <2>3 DEF ParseProposal
  <1>5. CASE Refuse(w)
    <2>1. PICK x : x = Verdict(w)
      OBVIOUS
    <2>2. /\ calls[w].pc = "transaction" /\ ~calls[w].applied /\ x # "change" /\ Finish(w, x)
          /\ UNCHANGED <<store, grants, readers>>
      BY <1>0, <1>5, <2>1 DEF Refuse, CallOK
    <2>3. /\ x \in Verdicts \union {"PROJECT_FORBIDDEN", "committed"}
          /\ x = "committed" => Own(calls[w]) \in receipts
          /\ x \in Verdicts =>
               Own(calls[w]) \notin receipts /\ Doomed(calls[w].operation, calls[w].request)
      BY <2>1, <2>2, VerdictFacts
    <2>4. x \in Outcomes
      BY <2>3 DEF Outcomes, Errors
    <2> QED BY <2>2, <2>3, <2>4, FinishStep
  <1>6. CASE LoseTransaction(w)
    BY <1>6, GotoStep DEF LoseTransaction
  <1>7. CASE Reconcile(w)
    <2>1. PICK o, request : o = calls[w].operation /\ request = calls[w].request
      OBVIOUS
    <2>2. /\ calls[w].pc = "reconcile" /\ o \in Operations /\ request \in Request
          /\ UNCHANGED <<store, grants, readers>>
          /\ calls[w].applied => Own(calls[w]) \in receipts
      BY <1>0, <1>7, <2>1 DEF Reconcile, CallOK
    <2>3. Own(calls[w]) = [operation |-> o, request |-> request]
      BY <2>1 DEF Own
    <2>4. CASE Finish(w, "DRAFT_OUTCOME_UNKNOWN") \/ Finish(w, "PROJECT_FORBIDDEN")
      BY <2>2, <2>4, FinishStep DEF Outcomes, Errors, Verdicts
    <2>5. CASE ~Taken(o) /\ Finish(w, "STATE_UNAVAILABLE")
      <3>1. Own(calls[w]) \notin receipts
        BY <2>3, <2>5 DEF Taken, FindOperation
      <3> QED BY <2>2, <2>5, <3>1, FinishStep DEF Outcomes, Errors, Verdicts
    <2>6. CASE Taken(o) /\ Finish(w, Answer(o, request))
      <3>1. PICK x : x = Answer(o, request)
        OBVIOUS
      <3>2. /\ x \in {"committed", "OPERATION_CONFLICT"}
            /\ x = "committed" => Own(calls[w]) \in receipts
            /\ x = "OPERATION_CONFLICT" =>
                 Own(calls[w]) \notin receipts /\ Doomed(o, request)
        BY <2>2, <2>3, <2>6, <3>1, AnswerFacts
      <3>3. /\ x \in Outcomes /\ (x \in Errors => x = "OPERATION_CONFLICT")
            /\ (x \in Verdicts => x = "OPERATION_CONFLICT")
        BY <3>2 DEF Outcomes, Errors, Verdicts
      <3>4. x \in Errors => ~calls[w].applied
        BY <1>0, <2>2, <3>2, <3>3 DEF Call
      <3> QED BY <2>1, <2>2, <2>6, <3>1, <3>2, <3>3, <3>4, FinishStep
    <2> QED BY <1>7, <2>1, <2>4, <2>5, <2>6 DEF Reconcile
  <1>8. CASE Crash(w)
    BY <1>8, FinishStep DEF Crash, Outcomes, Errors, Verdicts
  <1> QED BY <1>1, <1>2, <1>3, <1>4, <1>5, <1>6, <1>7, <1>8

LEMMA Invariance == IInv /\ [Next]_vars => IInv'
  <1> SUFFICES ASSUME IInv, [Next]_vars PROVE IInv'
    OBVIOUS
  <1>1. CASE UNCHANGED <<store, calls, readers>> /\ grants' \in [Principals -> Grants]
    <2>1. /\ heads' = heads /\ revisions' = revisions /\ receipts' = receipts /\ stored' = stored
          /\ calls' = calls /\ readers' = readers
      BY <1>1 DEF store
    <2>2. TypeOK' /\ Stored'
      <3>1. TypeOK'
        BY <1>1, <2>1 DEF IInv, TypeOK
      <3>2. Stored' <=> Stored
        BY <2>1 DEF Stored, Receipts, HistoryIsBound, HistoryIsOneDraft
      <3> QED BY <3>1, <3>2 DEF IInv
    <2>3. ASSUME NEW w \in Callers PROVE CallOK(calls[w])'
      BY <2>1 DEF IInv, CallOK, Own, Doomed, Kind, Save, StatusChange, Previous
    <2>4. ASSUME NEW r \in Readers PROVE ReadOK(readers[r])'
      BY <2>1 DEF IInv, ReadOK, Low
    <2> QED BY <2>2, <2>3, <2>4 DEF IInv
  <1>2. CASE UNCHANGED vars
    BY <1>1, <1>2 DEF vars, store, IInv, TypeOK
  <1>3. CASE SetMembership
    BY <1>1, <1>3 DEF SetMembership, IInv, TypeOK
  <1>4. ASSUME NEW w \in Callers,
               Edit(w) \/ Retry(w) \/ CheckRequest(w) \/ ParseProposal(w) \/ Refuse(w)
                 \/ Commit(w) \/ LoseTransaction(w) \/ Reconcile(w) \/ Crash(w)
        PROVE  IInv'
    BY <1>4, CallerStep, CommitStep
  <1>5. ASSUME NEW r \in Readers, OpenHistory(r) \/ NextPage(r) PROVE IInv'
    BY <1>5, ReaderStep
  <1> QED BY <1>2, <1>3, <1>4, <1>5 DEF Next

LEMMA Initial == Init => IInv
  <1> SUFFICES ASSUME Init PROVE IInv
    OBVIOUS
  <1>1. TypeOK
    BY DEF Init, TypeOK, Receipt, Grants, Call, Outcomes
  <1>2. Stored
    BY DEF Init, Stored, Receipts, HistoryIsBound, HistoryIsOneDraft
  <1>3. \A w \in Callers : CallOK(calls[w])
    BY DEF Init, CallOK, Errors, Verdicts
  <1>4. \A r \in Readers : ReadOK(readers[r])
    BY DEF Init, ReadOK
  <1> QED BY <1>1, <1>2, <1>3, <1>4 DEF IInv

LEMMA Inductive == Spec => []IInv
  BY Initial, Invariance, PTL DEF Spec

-----------------------------------------------------------------------------
(* The results.                                                            *)

\* No draft outgrows the largest revision, and no call leaves its phases.
THEOREM TypeCorrect == Spec => []TypeOK
  <1>1. IInv => TypeOK
    BY DEF IInv
  <1> QED BY <1>1, Inductive, PTL

\* However calls and their retries interleave, are lost or crash, the readers find
\* every history bound to its receipts: none is answered with STATE_CORRUPT.
THEOREM HistoriesAreBound == Spec => []HistoryIsBound
  <1>1. IInv => HistoryIsBound
    BY DEF IInv, Stored
  <1> QED BY <1>1, Inductive, PTL

\* A draft keeps to its source, and leaves the archive only by being restored.
THEOREM HistoriesAreOfOneDraft == Spec => []HistoryIsOneDraft
  <1>1. IInv => HistoryIsOneDraft
    BY DEF IInv, Stored
  <1> QED BY <1>1, Inductive, PTL

\* Receipts are the caller's own, errors hide no change, and a refusal is final.
THEOREM AnswersOfCallsAreTrue == Spec => []AnswersAreTrue
  <1>1. ASSUME IInv PROVE AnswersAreTrue
    <2> SUFFICES ASSUME NEW w \in Callers
                 PROVE  /\ calls[w].outcome = "committed" => Own(calls[w]) \in receipts
                        /\ calls[w].outcome \in Errors => ~calls[w].applied
                        /\ calls[w].outcome \in Verdicts => Own(calls[w]) \notin receipts
      BY DEF AnswersAreTrue, Own
    <2> QED BY <1>1 DEF IInv, CallOK
  <1> QED BY <1>1, Inductive, PTL

\* Pages join without a gap or an overlap while others change the draft.
THEOREM HistoriesArePagedWhole == Spec => []HistoryIsPagedWhole
  <1>1. ASSUME IInv PROVE HistoryIsPagedWhole
    <2> SUFFICES ASSUME NEW r \in Readers, readers[r].draft # NoDraft, readers[r].before = 0
                 PROVE  readers[r].items = [i \in 1..readers[r].top |->
                          OperationsOf(readers[r].draft)[readers[r].top - i + 1]]
      BY DEF HistoryIsPagedWhole
    <2>0. PICK read : read = readers[r]
      OBVIOUS
    <2>1. /\ read.draft \in Drafts /\ read.items \in Seq(Operations) /\ ReadOK(read)
          /\ read.top \in 0..MaxRevision
      BY <1>1, <2>0 DEF IInv, TypeOK
    <2>2. /\ read.top \in 1..heads[read.draft] /\ Len(read.items) = read.top
          /\ \A i \in 1..read.top :
               read.items[i] = revisions[read.draft][read.top - i + 1].operation
      BY <2>0, <2>1 DEF ReadOK, Low
    <2>3. DOMAIN revisions[read.draft] = 1..heads[read.draft]
          /\ heads[read.draft] \in 0..MaxRevision
      BY <1>1, <2>1, StoreFacts
    <2>4. \A i \in 1..read.top :
            read.items[i] = OperationsOf(read.draft)[read.top - i + 1]
      <3> TAKE i \in 1..read.top
      <3>1. read.top - i + 1 \in 1..heads[read.draft]
        BY <2>2, <2>3
      <3>2. OperationsOf(read.draft)[read.top - i + 1]
              = revisions[read.draft][read.top - i + 1].operation
        BY <2>3, <3>1 DEF OperationsOf
      <3> QED BY <2>2, <3>2
    <2>5. read.items = [i \in 1..read.top |-> OperationsOf(read.draft)[read.top - i + 1]]
      <3>1. read.items = [i \in 1..Len(read.items) |-> read.items[i]]
        BY <2>1
      <3> QED BY <2>2, <2>4, <3>1
    <2> QED BY <2>0, <2>5
  <1> QED BY <1>1, Inductive, PTL

-----------------------------------------------------------------------------
(* The drafts implement append-only logs.                                  *)

LEMMA Appended ==
    ASSUME NEW S, NEW s \in Seq(S), NEW x \in S
    PROVE  Append(s, x) = [i \in 1..(Len(s) + 1) |-> IF i = Len(s) + 1 THEN x ELSE s[i]]
  <1>1. PICK t : t = Append(s, x)
    OBVIOUS
  <1>2. /\ t \in Seq(S) /\ Len(t) = Len(s) + 1 /\ t[Len(s) + 1] = x
        /\ \A i \in 1..Len(s) : t[i] = s[i]
    BY <1>1
  <1>3. t = [i \in 1..Len(t) |-> t[i]]
    BY <1>2
  <1>4. \A i \in 1..(Len(s) + 1) : t[i] = IF i = Len(s) + 1 THEN x ELSE s[i]
    BY <1>2
  <1> QED BY <1>1, <1>2, <1>3, <1>4

\* The receipt of a revision is the only one of its operation.
LEMMA LogEntry ==
    ASSUME IInv, NEW d \in Drafts, NEW i \in 1..heads[d]
    PROVE  /\ DOMAIN LogOf(d) = 1..heads[d] /\ LogOf(d)[i] \in receipts
           /\ LogOf(d)[i].operation = revisions[d][i].operation
  <1>1. DOMAIN revisions[d] = 1..heads[d]
    BY StoreFacts
  <1>2. \E r \in receipts : r.operation = revisions[d][i].operation
    BY <1>1 DEF IInv, Stored, HistoryIsBound
  <1>3. LogOf(d)[i] = CHOOSE r \in receipts : r.operation = revisions[d][i].operation
    BY <1>1 DEF LogOf
  <1>4. DOMAIN LogOf(d) = 1..heads[d]
    BY <1>1 DEF LogOf
  <1> QED BY <1>2, <1>3, <1>4

\* A change appends its receipt to the log of its draft.
LEMMA LogOfChange ==
    ASSUME IInv, IInv', NEW o \in Operations, NEW request \in Request, NEW next,
           Change(o, request, next), NEW d \in Drafts
    PROVE  LogOf(d)' = IF d = request.draft
                       THEN Append(LogOf(d), [operation |-> o, request |-> request])
                       ELSE LogOf(d)
  <1> DEFINE new == [operation |-> o, request |-> request]
  <1>1. receipts' = receipts \union {new} /\ new.operation = o
    BY DEF Change
  <1> HIDE DEF new
  <1>2. /\ heads[d] \in 0..MaxRevision /\ DOMAIN revisions[d] = 1..heads[d]
        /\ heads[request.draft] = request.expected
    BY StoreFacts DEF Change
  <1>3. \A r, q \in receipts' : r.operation = q.operation => r = q
    BY DEF IInv, Stored, Receipts
  <1>4. LogOf(d)' = [i \in DOMAIN revisions'[d] |->
                       CHOOSE r \in receipts' : r.operation = revisions'[d][i].operation]
    BY DEF LogOf
  <1>5. \A i \in 1..heads[d] : revisions'[d][i] = revisions[d][i]
    BY ChangeFacts
  <1>6. ASSUME NEW i \in 1..heads[d]
        PROVE  (CHOOSE r \in receipts' : r.operation = revisions'[d][i].operation) = LogOf(d)[i]
    <2>1. LogOf(d)[i] \in receipts' /\ LogOf(d)[i].operation = revisions'[d][i].operation
      BY <1>1, <1>5, LogEntry
    <2> QED BY <1>3, <2>1
  <1>7. LogOf(d) \in Seq(Receipt) /\ Len(LogOf(d)) = heads[d]
    <2>1. LogOf(d) = [i \in 1..heads[d] |-> LogOf(d)[i]]
      BY <1>2 DEF LogOf
    <2>2. \A i \in 1..heads[d] : LogOf(d)[i] \in Receipt
      BY LogEntry DEF IInv, TypeOK
    <2> QED BY <1>2, <2>1, <2>2
  <1>8. CASE d # request.draft
    <2>1. revisions'[d] = revisions[d]
      BY <1>8, ChangeFacts
    <2>2. LogOf(d)' = [i \in 1..heads[d] |-> LogOf(d)[i]]
      BY <1>2, <1>4, <1>6, <2>1
    <2>3. LogOf(d) = [i \in 1..heads[d] |-> LogOf(d)[i]]
      BY <1>2 DEF LogOf
    <2> QED BY <1>8, <2>2, <2>3
  <1>9. CASE d = request.draft
    <2>1. DOMAIN revisions'[d] = 1..(heads[d] + 1) /\ revisions'[d][heads[d] + 1] = next
      <3>1. revisions'[d] \in Seq(Revision) /\ Len(revisions'[d]) = heads[d] + 1
            /\ revisions'[d][heads[d] + 1] = next
        BY <1>9, ChangeFacts
      <3> QED BY <1>2, <3>1
    <2>2. next.operation = o
      BY DEF Change, NextRevision
    <2>3. (CHOOSE r \in receipts' : r.operation = revisions'[d][heads[d] + 1].operation) = new
      BY <1>1, <1>3, <2>1, <2>2
    <2>4. new \in Receipt
      <3> USE DEF new
      <3> QED BY DEF Receipt
    <2>5. Append(LogOf(d), new) = [i \in 1..(heads[d] + 1) |->
                                     IF i = heads[d] + 1 THEN new ELSE LogOf(d)[i]]
      BY <1>7, <2>4, Appended
    <2>6. \A i \in 1..(heads[d] + 1) : i # heads[d] + 1 => i \in 1..heads[d]
      BY <1>2
    <2>7. LogOf(d)' = Append(LogOf(d), new)
      BY <1>4, <1>6, <2>1, <2>3, <2>5, <2>6
    <2> QED BY <1>9, <2>7 DEF new
  <1> QED BY <1>8, <1>9

LEMMA LogInitial == Init => Log!Init
  <1> SUFFICES ASSUME Init PROVE Log!Init
    OBVIOUS
  <1>1. \A d \in Drafts : LogOf(d) = << >>
    BY DEF Init, LogOf
  <1> QED BY <1>1 DEF Log!Init

LEMMA LogStep == IInv /\ IInv' /\ [Next]_vars => [Log!Next]_([d \in Drafts |-> LogOf(d)])
  <1> SUFFICES ASSUME IInv, IInv', [Next]_vars PROVE [Log!Next]_([d \in Drafts |-> LogOf(d)])
    OBVIOUS
  <1>1. ASSUME UNCHANGED <<revisions, receipts>>
        PROVE  UNCHANGED [d \in Drafts |-> LogOf(d)]
    BY <1>1 DEF LogOf
  <1>2. ASSUME NEW w \in Callers, Commit(w) PROVE Log!Next
    <2>1. PICK c : c = calls[w]
      OBVIOUS
    <2>2. CallOK(c) /\ c.pc = "transaction" /\ Verdict(w) = "change"
      BY <1>2, <2>1 DEF IInv, Commit
    <2>3. PICK o, request : o = c.operation /\ request = c.request
      OBVIOUS
    <2>4. o \in Operations /\ request \in Request /\ request.expected # MaxRevision
      BY <2>2, <2>3 DEF CallOK
    <2>5. PICK next : next = NextRevision(request, o)
      OBVIOUS
    <2>6. Change(o, request, next)
      <3>1. ~Taken(o) /\ heads[request.draft] = request.expected /\ Kind(request) = "change"
        BY <2>1, <2>2, <2>3, VerdictFacts
      <3>2. /\ heads' = [heads EXCEPT ![request.draft] = request.expected + 1]
            /\ revisions' = [revisions EXCEPT ![request.draft] = Append(@, next)]
            /\ receipts' = receipts \union {[operation |-> o, request |-> request]}
            /\ stored' = stored \union {next.content}
        BY <1>2, <2>1, <2>3, <2>5 DEF Commit
      <3> QED BY <2>4, <2>5, <3>1, <3>2 DEF Change
    <2>7. request.draft \in Drafts
      BY <2>4, RequestFields
    <2>8. \A d \in Drafts : LogOf(d)' = IF d = request.draft
                              THEN Append(LogOf(d), [operation |-> o, request |-> request])
                              ELSE LogOf(d)
      BY <2>4, <2>6, LogOfChange
    <2>9. ~Log!Used(o)
      <3> SUFFICES ASSUME NEW d \in Drafts, NEW i \in DOMAIN LogOf(d),
                          LogOf(d)[i].operation = o
                   PROVE  FALSE
        BY DEF Log!Used
      <3>1. i \in 1..heads[d]
        BY StoreFacts DEF LogOf
      <3>2. LogOf(d)[i] \in receipts
        BY <3>1, LogEntry
      <3> QED BY <2>6, <3>2 DEF Change, Taken, FindOperation
    <2>10. request.expected = Len([d \in Drafts |-> LogOf(d)][request.draft])
      <3>1. heads[request.draft] = request.expected /\ heads[request.draft] \in Nat
            /\ DOMAIN revisions[request.draft] = 1..heads[request.draft]
        BY <2>6, <2>7, StoreFacts DEF Change
      <3>2. LogOf(request.draft) = [i \in 1..heads[request.draft] |-> LogOf(request.draft)[i]]
        BY <3>1 DEF LogOf
      <3>3. Len(LogOf(request.draft)) = heads[request.draft]
        BY <3>1, <3>2
      <3> QED BY <2>7, <3>1, <3>3
    <2>11. [d \in Drafts |-> LogOf(d)]'
             = [[d \in Drafts |-> LogOf(d)] EXCEPT
                  ![request.draft] = Append(@, [operation |-> o, request |-> request])]
      BY <2>7, <2>8
    <2>12. [d \in Drafts |-> LogOf(d)]' # [d \in Drafts |-> LogOf(d)]
      <3>1. heads[request.draft] \in Nat /\ DOMAIN revisions[request.draft] = 1..heads[request.draft]
        BY <2>7, StoreFacts
      <3>2. DOMAIN revisions'[request.draft] = 1..(heads[request.draft] + 1)
        <4>1. revisions'[request.draft] \in Seq(Revision)
              /\ Len(revisions'[request.draft]) = heads[request.draft] + 1
          BY <2>4, <2>6, <2>7, ChangeFacts
        <4> QED BY <3>1, <4>1
      <3>3. heads[request.draft] + 1 \in DOMAIN revisions'[request.draft]
            /\ heads[request.draft] + 1 \notin DOMAIN revisions[request.draft]
        BY <3>1, <3>2
      <3>4. DOMAIN LogOf(request.draft)' = DOMAIN revisions'[request.draft]
            /\ DOMAIN LogOf(request.draft) = DOMAIN revisions[request.draft]
        BY DEF LogOf
      <3>5. LogOf(request.draft)' # LogOf(request.draft)
        BY <3>3, <3>4
      <3>6. PICK f, g : f = [d \in Drafts |-> LogOf(d)]' /\ g = [d \in Drafts |-> LogOf(d)]
        OBVIOUS
      <3>7. f[request.draft] = LogOf(request.draft)' /\ g[request.draft] = LogOf(request.draft)
        BY <2>7, <3>6
      <3>8. f # g
        BY <3>5, <3>7
      <3> QED BY <3>6, <3>8
    <2>13. Log!Add(request.draft, o, request)
      BY <2>9, <2>10, <2>11 DEF Log!Add
    <2> QED BY <2>4, <2>7, <2>12, <2>13 DEF Log!Next
  <1>3. ASSUME NEW w \in Callers,
               Edit(w) \/ Retry(w) \/ CheckRequest(w) \/ ParseProposal(w) \/ Refuse(w)
                 \/ LoseTransaction(w) \/ Reconcile(w) \/ Crash(w)
        PROVE  UNCHANGED <<revisions, receipts>>
    BY <1>3 DEF Edit, Retry, CheckRequest, ParseProposal, Refuse, LoseTransaction, Reconcile,
                Crash, store
  <1>4. ASSUME SetMembership \/ (\E r \in Readers : OpenHistory(r) \/ NextPage(r)) \/ UNCHANGED vars
        PROVE  UNCHANGED <<revisions, receipts>>
    BY <1>4 DEF SetMembership, OpenHistory, NextPage, vars, store
  <1>5. UNCHANGED <<revisions, receipts>> \/ Log!Next
    BY <1>2, <1>3, <1>4 DEF Next
  <1> QED BY <1>1, <1>5

\* Through crashes, lost answers and retries each draft remains an append-only log
\* to which an operation is appended once, at the revision it was made from.
THEOREM DraftsImplementLog == Spec => ImplementsLog
  <1>1. Spec => Log!Init
    BY LogInitial DEF Spec
  <1>2. Spec => [][Log!Next]_([d \in Drafts |-> LogOf(d)])
    BY Inductive, LogStep, PTL DEF Spec
  <1> QED BY <1>1, <1>2, PTL DEF ImplementsLog, Log!Spec
=============================================================================
