--------------------------- MODULE LearningBundle ---------------------------
(***************************************************************************)
(* learning_bundle_build of src/modules/learning/learning_bundle.c: the    *)
(* stored evidence nearest to a query, over the vectors that the embedding *)
(* worker of module EvidenceCapture has stored.  Vectors have small        *)
(* integer components and cosines are compared as exact fractions; the     *)
(* text of a vector and the rounding of floats are left out.               *)
(***************************************************************************)
EXTENDS EvidenceCapture, SequencesExt

CONSTANTS
    VectorOf,               \* [Artifacts -> Seq(Int)]: the vector stored for each
    Queries,                \* the vectors of queries considered
    BUNDLE_SCAN_MAX,        \* bound on the vectors scanned
    LEARNING_BUNDLE_MAX     \* bound on the items returned

ASSUME BundleAssumption ==
    /\ VectorOf \in [Artifacts -> Seq(Int)] /\ Queries \subseteq Seq(Int)
    /\ BUNDLE_SCAN_MAX \in Nat \ {0} /\ LEARNING_BUNDLE_MAX \in Nat \ {0}

Dot(u, v) ==
    LET sum[n \in 0 .. Len(u)] == IF n = 0 THEN 0 ELSE sum[n - 1] + u[n] * v[n]
    IN  sum[Len(u)]

(* bundle_cosine, up to the norm of the query and squared with its sign: the *)
(* fraction score[1] / score[2].                                             *)
bundle_cosine(u, v) ==
    LET dot == Dot(u, v)
    IN  IF Dot(v, v) = 0 THEN <<0, 1>>
        ELSE <<IF dot < 0 THEN 0 - dot * dot ELSE dot * dot, Dot(v, v)>>

Below(s, t) == s[1] * t[2] < t[1] * s[2]

(* db2_evidence_vectors_list: as many rows as there is room for, in any order. *)
Embedded == {a \in Artifacts : queue["embed"][a] = "done"}
Scans == LET n == IF Cardinality(Embedded) < BUNDLE_SCAN_MAX
                  THEN Cardinality(Embedded) ELSE BUNDLE_SCAN_MAX
         IN  UNION {SetToSeqs(S) : S \in kSubset(n, Embedded)}

(* Two bugs: a vector of another model is scored too, as far as it goes, and *)
(* the number of items is not bounded above.                                 *)
ComparableAny(query, a) == Len(VectorOf[a]) >= Len(query)
ClampedBelow(k) == IF k < 1 THEN 1 ELSE k

Comparable(query, a) == Len(VectorOf[a]) = Len(query)

Clamped(k) == IF k < 1 THEN 1 ELSE IF k > LEARNING_BUNDLE_MAX THEN LEARNING_BUNDLE_MAX ELSE k

(* bundle_cmp_desc with qsort, which leaves the order of equal scores open. *)
Ranked(query, scan) ==
    LET scored == {a \in ToSet(scan) : Comparable(query, a)}
    IN  {s \in SetToSeqs(scored) : \A i, j \in DOMAIN s : i < j =>
            ~Below(bundle_cosine(query, VectorOf[s[i]]), bundle_cosine(query, VectorOf[s[j]]))}

(* The bundles that may be returned; distinct_kinds counts the kinds in one. *)
learning_bundle_build(query, k, scan) ==
    {LET take == IF Len(s) < Clamped(k) THEN Len(s) ELSE Clamped(k)
         items == SubSeq(s, 1, take)
     IN  [items |-> items, count |-> take, scanned |-> Len(scan),
          distinct_kinds |-> Cardinality({items[i][1] : i \in 1 .. take})]
        : s \in Ranked(query, scan)}
-----------------------------------------------------------------------------
(* A bundle is the nearest evidence there is to choose from: whatever was      *)
(* scanned, there is one; it has as many items as asked for, at least one and  *)
(* never more than its array holds, or all that are comparable; they are       *)
(* distinct and nearest first; nothing that was scanned and left out is        *)
(* nearer; and no vector of another model is in.                               *)
NearestOf(query, k, scan) ==
    LET bundles == learning_bundle_build(query, k, scan)
        fit == {a \in ToSet(scan) : Len(VectorOf[a]) = Len(query)}
        nearer(a, c) == Below(bundle_cosine(query, VectorOf[c]),
                              bundle_cosine(query, VectorOf[a]))
    IN  /\ bundles # {}
        /\ \A b \in bundles :
            LET in == ToSet(b.items) IN
            /\ b.count = Min({Max({k, 1}), LEARNING_BUNDLE_MAX, Cardinality(fit)})
            /\ in \subseteq fit /\ Cardinality(in) = b.count
            /\ \A i, j \in 1 .. b.count : i < j => ~nearer(b.items[j], b.items[i])
            /\ \A a \in fit \ in, c \in in : ~nearer(a, c)

(* Nothing but Embed changes a corpus: each is looked at once it is reached,   *)
(* before synthesis and the judge set in.                                      *)
BundleIsBest ==
    calls = 0 /\ (\A a \in Artifacts : queue["embed"][a] # "queued" /\ queue["synth"][a] # "done")
    => \A query \in Queries, k \in -1 .. LEARNING_BUNDLE_MAX + 1, scan \in Scans :
            NearestOf(query, k, scan)
=============================================================================
