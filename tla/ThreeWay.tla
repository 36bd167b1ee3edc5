------------------------------ MODULE ThreeWay ------------------------------
(***************************************************************************)
(* Three-way materialization: a base, the current source and its upstream  *)
(* give one whole candidate or a refusal, never a part of one.  The three  *)
(* scopes are the calls of three_way.py (path-bytes-v1), bsl_three_way.py  *)
(* (bsl-text-v1, module TextMerge) and metadata_three_way.py               *)
(* (metadata-properties-v1).                                               *)
(*                                                                         *)
(* A tree maps paths to files.  A path is <<place, kind>>: "xml" is the    *)
(* descriptor place.xml, "bsl" and "form" are the module and the           *)
(* structured companion under place/Ext, "resource" is any other           *)
(* structured file there, and "bin" is an opaque file.  A descriptor is    *)
(* [type, object, outer, properties]: outer is every byte of it outside    *)
(* the direct properties, which are a sequence of [name, value].           *)
(* Left out: byte and file limits, case folding of paths, XML and text     *)
(* decoding, and lexical differences that leave the meaning equal.         *)
(***************************************************************************)
EXTENDS TextMerge, Functions, SequencesExt

CONSTANTS
    Inputs,         \* the trees a call may be given
    Texts,          \* the texts a call for one module may be given
    Owned,          \* Owned[type]: the kinds of companion a descriptor of it may own
    Unqualified,    \* the outer shapes that are not a plain Designer object
    ExtensionNames, \* the properties that declare a configuration extension
    Absent          \* no file, no place, no value

VARIABLES
    call,    \* the arguments of the call
    answer   \* what it returned, NoAnswer before

mergeVars == <<call, answer>>

Conflict(reasons) == [status |-> "THREE_WAY_CONFLICT", reasons |-> reasons]
NoAnswer == [status |-> "none"]
Get(f, x) == IF x \in DOMAIN f THEN f[x] ELSE Absent
Trees(c) == {c.base, c.current, c.upstream}
Sides(c, F(_)) == <<F(c.base), F(c.current), F(c.upstream)>>

-----------------------------------------------------------------------------
(* The decision about one value of three versions (_action), and whose     *)
(* value it selects (_SOURCE_BY_ACTION).                                   *)

Action(v) ==
    CASE v[2] = v[3]                  -> IF v[2] = v[1] THEN "unchanged" ELSE "same_change"
      [] v[2] # v[3] /\ v[2] = v[1]   -> "take_upstream"
      [] v[2] # v[3] /\ v[3] = v[1]   -> "keep_current"
      [] OTHER                        -> "conflict"

Selected(v) == IF Action(v) = "take_upstream" THEN v[3] ELSE v[2]

\* materialize_three_way: every path by itself, all or nothing.
Paths(c) == UNION {DOMAIN t : t \in Trees(c)}
Versions(c, path) == Sides(c, LAMBDA t : Get(t, path))
PathConflicts(c) == {p \in Paths(c) : Action(Versions(c, p)) = "conflict"}

Chosen(c, paths) ==
    [p \in {q \in paths : Selected(Versions(c, q)) # Absent} |-> Selected(Versions(c, p))]

MaterializedPaths(c) ==
    IF PathConflicts(c) # {} THEN Conflict({"path_conflict"})
    ELSE [status |-> "ready", candidate |-> Chosen(c, Paths(c))]

-----------------------------------------------------------------------------
(* The objects of a tree (_records): identified by type and UUID. *)

Descriptors(t) == {p \in DOMAIN t : p[2] = "xml"}
Key(d) == <<d.type, d.object>>
Nobody == <<"", "">>
KeyAt(t, path) == IF path \in Descriptors(t) THEN Key(t[path]) ELSE Nobody
Keys(t) == {Key(t[p]) : p \in Descriptors(t)}
Ambiguous(t) == \E p, q \in Descriptors(t) : p # q /\ t[p].object = t[q].object

PathOf(t, key) ==
    IF key \in Keys(t) THEN CHOOSE p \in Descriptors(t) : Key(t[p]) = key ELSE Absent
RecordOf(t, key) == IF key \in Keys(t) THEN t[PathOf(t, key)] ELSE Absent

ObjectKeys(c) == UNION {Keys(t) : t \in Trees(c)}
PathsOf(c, key) == Sides(c, LAMBDA t : PathOf(t, key))
RecordsOf(c, key) == Sides(c, LAMBDA t : RecordOf(t, key))
InAll(c, key) == \A t \in Trees(c) : key \in Keys(t)
OutersOf(c, key) == Sides(c, LAMBDA t : RecordOf(t, key).outer)

\* _merge_action: one action for a file's bytes and its path together.
MergeAction(contents, paths) ==
    LET both    == {Action(contents), Action(paths)}
        changes == both \ {"unchanged"}
    IN IF "conflict" \in both THEN "conflict"
       ELSE IF "same_change" \in both THEN "same_change"
       ELSE IF changes = {} THEN "unchanged"
       ELSE IF Cardinality(changes) > 1 THEN "conflict"
       ELSE CHOOSE action \in changes : TRUE

-----------------------------------------------------------------------------
(* The direct properties of an object (_property_changes and               *)
(* _merge_properties).                                                     *)

Names(record) == {record.properties[i].name : i \in DOMAIN record.properties}
Property(record, name) ==
    IF name \in Names(record)
    THEN (CHOOSE p \in Range(record.properties) : p.name = name).value
    ELSE Absent

PropertyNames(records) == UNION {Names(records[i]) : i \in 1..3}
PropertyVersions(records, name) == [i \in 1..3 |-> Property(records[i], name)]
PropertyActions(records) ==
    {Action(PropertyVersions(records, n)) : n \in PropertyNames(records)}

DisjointChanges(records) ==
    /\ {"keep_current", "take_upstream"} \subseteq PropertyActions(records)
    /\ "conflict" \notin PropertyActions(records)

\* What _object admits as a descriptor: a UUID, and no property twice.
Described(d) ==
    /\ d = [type |-> d.type, object |-> d.object, outer |-> d.outer,
            properties |-> d.properties]
    /\ Key(d) # Nobody
    /\ d.properties \in Seq(Range(d.properties))
    /\ \A i, j \in DOMAIN d.properties :
          /\ d.properties[i].value # Absent
          /\ d.properties[i].name = d.properties[j].name => i = j

ASSUME TreeAssumption ==
    \A t \in Inputs :
        /\ t = [p \in DOMAIN t |-> t[p]]
        /\ \A p \in DOMAIN t : p = <<p[1], p[2]>> /\ p # Absent /\ t[p] # Absent
        /\ \A p \in Descriptors(t) : Described(t[p])

\* What _document reads: only the last line may lack its terminator.
Document(d) ==
    /\ d = [bom |-> d.bom, lines |-> d.lines]
    /\ d.lines \in Seq(Range(d.lines))
    /\ \A i \in 1 .. Len(d.lines) - 1 : d.lines[i].end # "none"

ASSUME TextAssumption == \A d \in Texts : Document(d)

\* Each property from the side that changed it; one that side deleted is gone.
SelectedValue_StillPresent(records, name) ==
    LET v == PropertyVersions(records, name)
    IN IF Selected(v) # Absent THEN Selected(v) ELSE v[2]
SelectedValue(records, name) == Selected(PropertyVersions(records, name))

OrderOf(record) == [i \in DOMAIN record.properties |-> record.properties[i].name]
Kept(order, names) ==
    LET kept[i \in 0 .. Len(order)] ==
          IF i = 0 THEN << >>
          ELSE IF order[i] \in names THEN Append(kept[i - 1], order[i]) ELSE kept[i - 1]
    IN kept[Len(order)]

\* Upstream's additions go before the property they precede upstream; what
\* no property of the current order follows goes last.
InsertBefore(name, added, order) ==
    LET at == CHOOSE i \in DOMAIN order : order[i] = name
    IN SubSeq(order, 1, at - 1) \o added \o SubSeq(order, at, Len(order))

Inserted(theirs, ours) ==
    LET merge[i \in 0 .. Len(theirs)] ==
          IF i = 0 THEN [order |-> ours, pending |-> << >>]
          ELSE LET done == merge[i - 1]
               IN IF theirs[i] \in Range(done.order)
                  THEN [order   |-> InsertBefore(theirs[i], done.pending, done.order),
                        pending |-> << >>]
                  ELSE [done EXCEPT !.pending = Append(@, theirs[i])]
        last == merge[Len(theirs)]
    IN last.order \o last.pending

MergedOrder(records) ==
    LET names == {n \in PropertyNames(records) : SelectedValue(records, n) # Absent}
    IN Inserted(Kept(OrderOf(records[3]), names), Kept(OrderOf(records[2]), names))

OrderConflict(records) ==
    \E i \in 2..3 :
        Kept(OrderOf(records[i]), Range(MergedOrder(records)))
            # Kept(MergedOrder(records), Names(records[i]))

MergedRecord(records) ==
    LET order == MergedOrder(records)
    IN [records[2] EXCEPT !.properties =
           [i \in DOMAIN order |-> [name |-> order[i],
                                    value |-> SelectedValue(records, order[i])]]]

-----------------------------------------------------------------------------
(* The companions of the objects (_semantic_records and _semantic_plan): a *)
(* structured file belongs to the descriptor at its place.  A scope is an  *)
(* owner with a kind, or nobody with a path.                               *)

Companions(t) == {p \in DOMAIN t : p[2] \in {"bsl", "form", "resource"}}
OwnerOf(t, path) == KeyAt(t, <<path[1], "xml">>)

ScopeOf(t, path) ==
    LET owner == OwnerOf(t, path)
    IN IF owner = Nobody THEN <<Nobody, path>> ELSE <<owner, path[2]>>

CompanionReasons(t, path) ==
    LET owner == OwnerOf(t, path)
    IN IF owner = Nobody THEN {"owner_not_found"}
       ELSE IF path[2] = "resource" THEN {"resource_kind_unsupported"}
       ELSE IF path[2] \notin Owned[owner[1]] THEN {"owner_type_unsupported"}
       ELSE {}

Scopes(c) == UNION {{ScopeOf(t, p) : p \in Companions(t)} : t \in Trees(c)}

ScopePath(t, scope) ==
    LET found == {p \in Companions(t) : ScopeOf(t, p) = scope}
    IN IF found = {} THEN Absent ELSE CHOOSE p \in found : TRUE

ScopePaths(c, scope) == Sides(c, LAMBDA t : ScopePath(t, scope))
ScopeFiles(c, scope) == Sides(c, LAMBDA t : Get(t, ScopePath(t, scope)))
Overlap(c, scope) == MergeAction(ScopeFiles(c, scope), ScopePaths(c, scope)) = "conflict"

\* Every owner a path of the scope has in any of the trees.
Bindings(c, scope) ==
    UNION {{OwnerOf(t, p) : p \in Companions(t) \cap Range(ScopePaths(c, scope))} :
              t \in Trees(c)}

\* _bsl_merge_reason: two changed texts are merged under a steady owner only.
BslReasons(c, scope) ==
    LET owner == scope[1]
        moved(paths) == Absent \in Range(paths) \/ Cardinality(Range(paths)) > 1
    IN IF moved(ScopePaths(c, scope)) THEN {"bsl_scope_path_changed"}
       ELSE IF ~InAll(c, owner) THEN {"bsl_owner_binding_incomplete"}
       ELSE IF moved(PathsOf(c, owner)) THEN {"bsl_owner_path_changed"}
       ELSE IF Action(OutersOf(c, owner)) # "unchanged" THEN {"bsl_owner_unscoped_content"}
       ELSE {}

ScopeReasons(c, scope) ==
    LET reasons == UNION {CompanionReasons(t, ScopePath(t, scope)) :
                             t \in {v \in Trees(c) : ScopePath(v, scope) # Absent}}
        owned   == scope[1] # Nobody
    IN IF owned /\ Cardinality(Bindings(c, scope) \ {Nobody}) > 1
       THEN {"owner_identity_changed"}
       ELSE IF owned /\ Nobody \in Bindings(c, scope) THEN {"owner_binding_incomplete"}
       ELSE IF reasons # {} THEN reasons
       ELSE IF ~Overlap(c, scope) THEN {}
       ELSE IF scope[2] = "bsl" THEN BslReasons(c, scope)
       ELSE {"atomic_overlap"}

-----------------------------------------------------------------------------
(* materialize_metadata_three_way. *)

Contested(c, key) == MergeAction(RecordsOf(c, key), PathsOf(c, key)) = "conflict"

Splicable(c, key) ==
    /\ InAll(c, key)
    /\ DisjointChanges(RecordsOf(c, key))
    /\ Action(OutersOf(c, key)) = "unchanged"
    /\ Action(PathsOf(c, key)) # "conflict"

ObjectReasons(c, key) ==
    IF ~Contested(c, key) THEN {}
    ELSE IF ~Splicable(c, key) THEN {"object_conflict"}
    ELSE IF OrderConflict(RecordsOf(c, key)) THEN {"property_order_conflict"}
    ELSE {}

MergedObjects(c) == {k \in ObjectKeys(c) : Contested(c, k) /\ ObjectReasons(c, k) = {}}
MergedScopes(c) == {s \in Scopes(c) : Overlap(c, s) /\ ScopeReasons(c, s) = {}}

Covered(c) == (UNION {Range(PathsOf(c, k)) : k \in MergedObjects(c)})
              \cup {ScopePath(c.base, s) : s \in MergedScopes(c)}

Unshaped(t, path) == t[path].outer \in Unqualified
Extends(t, path) == Names(t[path]) \cap ExtensionNames # {}
KeysAt(c, path) == {KeyAt(t, path) : t \in {v \in Trees(c) : path \in DOMAIN v}}

If(condition, reason) == IF condition THEN {reason} ELSE {}

Blockers(c) ==
    If(\E t \in Trees(c) : \E p \in Descriptors(t) : Unshaped(t, p), "object_shape_unsupported")
    \cup If(\E p \in Paths(c) : Cardinality(KeysAt(c, p)) > 1, "object_identity_changed")
    \cup If(\E k, l \in ObjectKeys(c) : k[2] = l[2] /\ k[1] # l[1], "object_type_changed")
    \cup If(\E t \in Trees(c) : \E p \in Descriptors(t) : Extends(t, p),
            "extension_ownership_unverified")
    \cup (UNION {ScopeReasons(c, s) : s \in Scopes(c)})
    \cup (UNION {ObjectReasons(c, k) : k \in ObjectKeys(c)})
    \cup If(PathConflicts(c) \ Covered(c) # {}, "path_conflict")

MergedText(c, scope) ==
    LET files == ScopeFiles(c, scope) IN MaterializeBsl(files[1], files[2], files[3])

TextReasons(c) ==
    {MergedText(c, s).status : s \in MergedScopes(c)} \ {"ready"}

Over(f, g) == [x \in DOMAIN f \cup DOMAIN g |-> IF x \in DOMAIN f THEN f[x] ELSE g[x]]

\* The chosen files, then the spliced objects at their chosen paths, then the texts.
Candidate(c) ==
    LET objects == [p \in {Selected(PathsOf(c, k)) : k \in MergedObjects(c)} |->
                       MergedRecord(RecordsOf(c, CHOOSE k \in MergedObjects(c) :
                                                    Selected(PathsOf(c, k)) = p))]
        texts   == [p \in {ScopePath(c.base, s) : s \in MergedScopes(c)} |->
                       MergedText(c, ScopeOf(c.base, p)).candidate]
    IN Over(texts, Over(objects, Chosen(c, Paths(c) \ Covered(c))))

CandidateReasons(t) == UNION {CompanionReasons(t, p) : p \in Companions(t)}

Invalid == [status |-> "THREE_WAY_METADATA_INVALID"]

MaterializedMetadata(c) ==
    IF \E t \in Trees(c) : Ambiguous(t) THEN Invalid
    ELSE IF Blockers(c) # {} THEN Conflict(Blockers(c))
    ELSE IF TextReasons(c) # {} THEN Conflict(TextReasons(c))
    ELSE IF Ambiguous(Candidate(c)) THEN Invalid
    ELSE IF CandidateReasons(Candidate(c)) # {} THEN Conflict(CandidateReasons(Candidate(c)))
    ELSE [status |-> "ready", candidate |-> Candidate(c)]

-----------------------------------------------------------------------------
MergeInit ==
    /\ call \in [scope : {"bsl-text-v1"}, base : Texts, current : Texts, upstream : Texts]
          \cup [scope : {"path-bytes-v1", "metadata-properties-v1"},
                base : Inputs, current : Inputs, upstream : Inputs]
    /\ answer = NoAnswer

Returns(result) == answer = NoAnswer /\ answer' = result /\ UNCHANGED call

MaterializeText ==
    /\ call.scope = "bsl-text-v1"
    /\ Returns(MaterializeBsl(call.base, call.current, call.upstream))

MaterializePaths == call.scope = "path-bytes-v1" /\ Returns(MaterializedPaths(call))

MaterializeMetadata ==
    call.scope = "metadata-properties-v1" /\ Returns(MaterializedMetadata(call))

MergeNext == MaterializeText \/ MaterializePaths \/ MaterializeMetadata

MergeSpec == MergeInit /\ [][MergeNext]_mergeVars

-----------------------------------------------------------------------------
(* Properties. *)

\* The base with a set of edits made to it, gap by gap: each edit's lines
\* stand where it starts, and a line no edit covers stays.
Woven(base, edits) ==
    FlattenSeq([g \in 1 .. Len(base) + 1 |->
        FlattenSeq(SetToSeq({e.replacement : e \in {x \in edits : x.start = g - 1}}))
        \o IF g > Len(base) \/ \E e \in edits : e.start < g /\ g <= e.end
           THEN << >> ELSE <<base[g]>>])

Touch(ours, theirs) ==
    \E o \in ours, t \in theirs :
        ~SameEdit(o, t) /\ o.start <= t.end /\ t.start <= o.end

\* Every line edit of both branches reaches a merged text exactly once and
\* nothing else changes; branches whose edits overlap or meet are refused,
\* others are not refused as a conflict; no unterminated line ends up before
\* another one, where it would fuse with it; and the two branches may be
\* exchanged (materialize_bsl_three_way, _edits and _combine).
TextIsWoven ==
    call.scope = "bsl-text-v1" /\ answer # NoAnswer =>
        LET base    == call.base.lines
            ours    == Range(Edits(base, call.current.lines))
            theirs  == Range(Edits(base, call.upstream.lines))
            swapped == MaterializeBsl(call.base, call.upstream, call.current)
            merged  == answer.candidate.lines
        IN /\ Woven(base, ours) = call.current.lines
           /\ Woven(base, theirs) = call.upstream.lines
           /\ swapped.status = answer.status
           /\ answer.status = "conflict" => Touch(ours, theirs)
           /\ answer.status = "ready" =>
                 /\ swapped.candidate = answer.candidate
                 /\ merged = Woven(base, ours \cup theirs)
                 /\ answer.mode = "merged" => ~Touch(ours, theirs)
                 /\ \A i \in 1 .. Len(merged) - 1 : merged[i].end # "none"

Decided(v) == Action(v) # "conflict"

\* An object all three trees have: its place, its outer bytes and every one of
\* its properties are each decided by themselves, and no property is doubled.
WovenObject(m, key) ==
    LET records == RecordsOf(call, key)
        merged  == RecordOf(m, key)
    IN /\ Decided(PathsOf(call, key)) /\ PathOf(m, key) = Selected(PathsOf(call, key))
       /\ Decided(OutersOf(call, key)) /\ merged.outer = Selected(OutersOf(call, key))
       /\ Len(merged.properties) = Cardinality(Names(merged))
       /\ \A n \in PropertyNames(records) \cup Names(merged) :
             /\ Decided(PropertyVersions(records, n))
             /\ Property(merged, n) = Selected(PropertyVersions(records, n))

\* One added or deleted: the whole of it is decided, with its place.
ChosenObject(m, key) ==
    /\ Decided(PathsOf(call, key)) /\ PathOf(m, key) = Selected(PathsOf(call, key))
    /\ Decided(RecordsOf(call, key)) /\ RecordOf(m, key) = Selected(RecordsOf(call, key))

\* A metadata candidate loses no one's change and invents none: objects are
\* decided by identity wherever they were moved to, never a clash decided for
\* one side; a companion stays with the object it had in every tree that has
\* it; other files are decided by path, a module both sides changed only as
\* the merged text; and where whole files could all be decided, the result is
\* the path merge's (materialize_metadata_three_way, whose path choices,
\* object splices and texts are selected by three separate passes).
ObjectsAreWoven ==
    call.scope = "metadata-properties-v1" /\ answer.status = "ready" =>
        LET m == answer.candidate
        IN /\ \A k \in ObjectKeys(call) \cup Keys(m) :
                 IF InAll(call, k) THEN WovenObject(m, k) ELSE ChosenObject(m, k)
           /\ \A p \in Companions(m), t \in Trees(call) :
                 p \in DOMAIN t => OwnerOf(t, p) = OwnerOf(m, p)
           /\ \A p \in {q \in Paths(call) \cup DOMAIN m : q[2] # "xml"} :
                 IF Decided(Versions(call, p))
                 THEN Get(m, p) = Selected(Versions(call, p))
                 ELSE /\ p[2] = "bsl"
                      /\ m[p] = MaterializeBsl(call.base[p], call.current[p],
                                               call.upstream[p]).candidate
           /\ PathConflicts(call) = {} => m = Chosen(call, Paths(call))
=============================================================================
