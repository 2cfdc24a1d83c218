------------------------------ MODULE JsonPatch ------------------------------
(***************************************************************************)
(* JSON Patch (RFC 6902): a list of operations applied in turn to a        *)
(* document, all of them or none, and batches of documents and patches.    *)
(* A value is <<kind, payload>>; an array holds values, an object a        *)
(* sequence of <<name, value>> pairs.  The size of a value counts its      *)
(* scalars and containers; None stands for bytes that are not JSON.        *)
(***************************************************************************)
EXTENDS Calls, FiniteSetsExt, SequencesExt

CONSTANTS PatchDocuments,             \* values
          Patches, BatchPatches,      \* sequences of operations [op, path, from, value]
          MaxInput, MaxOutput         \* sizes

IsObject(v) == v[1] = "object"
IsArray(v) == v[1] = "array"

\* usize::from_str: a leading zero is read, "-" and names are not.
Parsed(seg) == LET digits == <<"0", "1", "2", "3">>
               IN  IF seg \in ToSet(digits) THEN Some((CHOOSE i \in 1 .. 4 : digits[i] = seg) - 1)
                   ELSE IF seg = "01" THEN Some(1) ELSE None

PlaceOf(pairs, name) == {i \in DOMAIN pairs : pairs[i][1] = name}

RECURSIVE SizeOf(_)
SizeOf(v) == IF IsObject(v) THEN 1 + FoldLeft(LAMBDA n, pair : n + SizeOf(pair[2]), 0, v[2])
             ELSE IF IsArray(v) THEN 1 + FoldLeft(LAMBDA n, w : n + SizeOf(w), 0, v[2])
             ELSE 1
-----------------------------------------------------------------------------
(* Navigation.                                                             *)
\* The place of a child: its index in the pairs or in the array.
FirstOf(at) == IF at = {} THEN None ELSE Some(Min(at))
Within(n, length) == IF n = None THEN None ELSE IF n[1] >= length THEN None ELSE Some(n[1] + 1)
ChildPlace(v, seg) ==
    IF IsObject(v) THEN FirstOf(PlaceOf(v[2], seg))
    ELSE IF IsArray(v) THEN Within(Parsed(seg), Len(v[2]))
    ELSE None
ChildAt(v, at) == IF at = None THEN None ELSE Some(IF IsObject(v) THEN v[2][at[1]][2] ELSE v[2][at[1]])
child(v, seg) == ChildAt(v, ChildPlace(v, seg))

RECURSIVE resolve(_, _)
resolve(v, segs) ==
    LET From(next) == IF next = None THEN None ELSE resolve(next[1], Tail(segs))
    IN  IF segs = <<>> THEN Some(v) ELSE From(child(v, Head(segs)))

\* The document with another value at a place that exists.
RECURSIVE put(_, _, _)
put(v, segs, value) ==
    LET Into(at, next) == <<v[1], [v[2] EXCEPT ![at] = IF IsObject(v) THEN <<Head(segs), next>> ELSE next]>>
        Below(at) == Into(at, put(ChildAt(v, Some(at))[1], Tail(segs), value))
    IN  IF segs = <<>> THEN value ELSE Below(ChildPlace(v, Head(segs))[1])

\* resolve_mut: the value at segs becomes the one of `new`, if there is one.
resolve_mut(doc, segs, new) == IF new = None THEN None ELSE Some(put(doc, segs, new[1]))

\* sonic_rs: the order of the members of an object does not matter.
RECURSIVE Equal(_, _)
Equal(v, w) ==
    LET SameAt(value, at) == IF at = None THEN FALSE ELSE Equal(value, at[1])
    IN  IF v[1] # w[1] THEN FALSE
        ELSE IF IsObject(v) THEN /\ Len(v[2]) = Len(w[2])
                                 /\ \A i \in DOMAIN v[2] : SameAt(v[2][i][2], child(w, v[2][i][1]))
        ELSE IF IsArray(v) THEN Len(v[2]) = Len(w[2]) /\ \A i \in DOMAIN v[2] : Equal(v[2][i], w[2][i])
        ELSE v = w
-----------------------------------------------------------------------------
(* Operations: the new document, or None.                                  *)
WithMember(pairs, at, pair) == Some(<<"object", IF at = {} THEN Append(pairs, pair) ELSE [pairs EXCEPT ![Min(at)] = pair]>>)
WithElement(list, n, last, value) ==
    IF n = None THEN None
    ELSE IF n[1] > last THEN None
    ELSE Some(<<"array", InsertAt(list, n[1] + 1, value)>>)
AppendMissed(v, seg, value) ==
    IF IsObject(v) THEN WithMember(v[2], PlaceOf(v[2], seg), <<seg, value>>)
    ELSE IF ~IsArray(v) THEN None
    ELSE IF seg = "-" THEN Some(<<"array", Append(v[2], value)>>)
    ELSE WithElement(v[2], Parsed(seg), Len(v[2]) - 1, value)

\* A member is put in its place or at the end, an element before the index.
inserted(v, seg, value) ==
    IF IsObject(v) THEN WithMember(v[2], PlaceOf(v[2], seg), <<seg, value>>)
    ELSE IF ~IsArray(v) THEN None
    ELSE IF seg = "-" THEN Some(<<"array", Append(v[2], value)>>)
    ELSE WithElement(v[2], Parsed(seg), Len(v[2]), value)

Without(v, at) == IF at = None THEN None ELSE Some(<<v[1], RemoveAt(v[2], at[1])>>)
removed(v, seg) == Without(v, ChildPlace(v, seg))

AddUnder(doc, path, parent, value) ==
    IF parent = None THEN None
    ELSE resolve_mut(doc, Front(path), inserted(parent[1], Last(path), value))
apply_add(doc, path, value) ==
    IF path = <<>> THEN Some(value) ELSE AddUnder(doc, path, resolve(doc, Front(path)), value)
RemoveUnder(doc, path, parent) ==
    IF parent = None THEN None ELSE resolve_mut(doc, Front(path), removed(parent[1], Last(path)))
apply_remove(doc, path) == IF path = <<>> THEN None ELSE RemoveUnder(doc, path, resolve(doc, Front(path)))
apply_replace(doc, path, value) == IF resolve(doc, path) = None THEN None ELSE resolve_mut(doc, path, Some(value))

\* Out of its old place first; never into itself.
AddFound(rest, path, value) == IF rest = None \/ value = None THEN None ELSE apply_add(rest[1], path, value[1])
apply_move(doc, from, path) ==
    IF IsStrictPrefix(from, path) THEN None
    ELSE AddFound(apply_remove(doc, from), path, resolve(doc, from))

apply_copy(doc, from, path) == AddFound(Some(doc), path, resolve(doc, from))
TestAt(doc, at, value) == IF at = None THEN None ELSE IF Equal(at[1], value) THEN Some(doc) ELSE None
apply_test(doc, path, value) == TestAt(doc, resolve(doc, path), value)

apply_op(doc, o) ==
    CASE o.op = "add" -> apply_add(doc, o.path, o.value)
      [] o.op = "remove" -> apply_remove(doc, o.path)
      [] o.op = "replace" -> apply_replace(doc, o.path, o.value)
      [] o.op = "move" -> apply_move(doc, o.from, o.path)
      [] o.op = "copy" -> apply_copy(doc, o.from, o.path)
      [] OTHER -> apply_test(doc, o.path, o.value)

apply_patch(doc, ops) == FoldLeft(LAMBDA d, o : IF d = None THEN None ELSE apply_op(d[1], o), Some(doc), ops)

\* An operation that does not parse is "bad"; the patch is parsed as a whole.
parse_patch(patch) == IF \E i \in DOMAIN patch : patch[i].op = "bad" THEN None ELSE Some(patch)

Fault(what) == [error |-> what, doc |-> None]
Limited(result) ==
    IF result = None THEN Fault("apply")
    ELSE IF SizeOf(result[1]) > MaxOutput THEN Fault("size")
    ELSE [error |-> "", doc |-> result]
apply_json_patch_bytes_limited(doc, patch) ==
    IF doc = None THEN Fault("document")
    ELSE IF SizeOf(doc[1]) > MaxInput \/ Len(patch) > MaxInput THEN Fault("size")
    ELSE IF parse_patch(patch) = None THEN Fault("patch")
    ELSE Limited(apply_patch(doc[1], patch))
-----------------------------------------------------------------------------
ApplyPatch ==
    \E doc \in {Some(v) : v \in PatchDocuments} \cup {None}, patch \in Patches :
        call' = [op |-> "patch", doc |-> doc, patch |-> patch, result |-> apply_json_patch_bytes_limited(doc, patch)]

\* Serial: the first failing pair is named.  In parallel: any of them.
FirstBad(parallel, bad) == IF bad = {} THEN {0} ELSE IF parallel THEN bad ELSE {Min(bad)}
BatchAnswer(results, index) ==
    [index |-> index, results |-> IF index = 0 THEN [i \in DOMAIN results |-> results[i].doc[1]] ELSE <<>>]
run_json_patch_batch(results, parallel) ==
    {BatchAnswer(results, index) : index \in FirstBad(parallel, {i \in DOMAIN results : results[i].error # ""})}
PatchBatch ==
    \E docs \in [1 .. 2 -> {Some(v) : v \in PatchDocuments}], patches \in [1 .. 2 -> BatchPatches], parallel \in BOOLEAN :
        \E result \in run_json_patch_batch([i \in DOMAIN docs |-> apply_json_patch_bytes_limited(docs[i], patches[i])], parallel) :
            call' = [op |-> "patch batch", docs |-> docs, patches |-> patches, result |-> result]
JsonPatchNext == call = Ready /\ (ApplyPatch \/ PatchBatch)
-----------------------------------------------------------------------------
\* Where a value added at path ends up: "-" is the last element.
LandedIn(parent, path) ==
    IF Last(path) # "-" \/ ~IsArray(parent) THEN path ELSE Front(path) \o <<<<"0", "1", "2", "3">>[Len(parent[2])]>>
Landed(new, path) == IF path = <<>> THEN path ELSE LandedIn(resolve(new, Front(path))[1], path)

\* doc with value added at path is new: the value is there, and taking it away
\* again, or putting back the member it took the place of, gives doc.
IsAdded(doc, path, value, new) ==
    LET Undone(at, old) ==
            /\ Equal(resolve(new, at)[1], value)
            /\ path # <<>> => IF old # None /\ IsObject(resolve(doc, Front(path))[1])
                                THEN apply_replace(new, path, old[1]) = Some(doc) ELSE apply_remove(new, at) = Some(doc)
    IN  Undone(Landed(new, path), resolve(doc, path))

Same(o, doc) == o # None /\ Equal(o[1], doc)

\* new is doc after o, where old is what was at its path.
AsAsked(doc, new, o, old) ==
    CASE o.op = "add" -> IsAdded(doc, o.path, o.value, new)
      [] o.op = "copy" -> IsAdded(doc, o.path, resolve(doc, o.from)[1], new)
      [] o.op = "move" -> /\ IsAdded(apply_remove(doc, o.from)[1], o.path, resolve(doc, o.from)[1], new)
                          /\ o.from = o.path => Equal(new, doc)
      [] o.op = "remove" -> Same(apply_add(new, o.path, old[1]), doc)
      [] o.op = "replace" -> Equal(resolve(new, o.path)[1], o.value) /\ apply_replace(new, o.path, old[1]) = Some(doc)
      [] OTHER -> new = doc /\ Equal(old[1], o.value)

RightlyRefused(o, parent, old) ==
    /\ o.op = "add" => \/ parent = None
                       \/ parent[1][1] \notin {"array", "object"}
                       \/ IsArray(parent[1]) /\ ~\E n \in 0 .. Len(parent[1][2]) : Parsed(Last(o.path)) = Some(n)
    /\ o.op \in {"remove", "replace"} => o.path = <<>> \/ old = None
    /\ o.op = "test" => old = None \/ ~Equal(old[1], o.value)

(* RFC 6902, operation by operation, for a patch of one: what was added is *)
(* where it was asked for and everything else is where it was, which       *)
(* undoing the operation shows; an index up to the length of the array is  *)
(* accepted, the length meaning the end; a move keeps the value it moves;  *)
(* a test changes nothing.  A batch either returns every document, in      *)
(* order, or names a pair that fails.                                      *)
PatchesAsAsked ==
    /\ call.op = "patch" /\ Len(call.patch) = 1 /\ call.result.error = "" =>
         AsAsked(call.doc[1], call.result.doc[1], call.patch[1], resolve(call.doc[1], call.patch[1].path))
    /\ call.op = "patch" /\ Len(call.patch) = 1 /\ call.result.error = "apply" =>
         RightlyRefused(call.patch[1], resolve(call.doc[1], Front(call.patch[1].path)), resolve(call.doc[1], call.patch[1].path))
    /\ call.op = "patch batch" =>
         LET One(i) == apply_json_patch_bytes_limited(call.docs[i], call.patches[i])
         IN  IF call.result.index = 0 THEN \A i \in 1 .. 2 : Some(call.result.results[i]) = One(i).doc
             ELSE One(call.result.index).error # "" /\ call.result.results = <<>>
=============================================================================
