------------------------ MODULE SequenceDecoderProofs ------------------------
(***************************************************************************)
(* The sequence decoder for recordings of any length, any configuration    *)
(* and any distances: its tracklets tile the speech, its labels are a      *)
(* cheapest labelling, nobody is forced on a tracklet, and the timeline    *)
(* says what the labels say.                                               *)
(***************************************************************************)
EXTENDS SequenceDecoder, FiniteSetTheorems, SequenceTheorems, FunctionTheorems,
        WellFoundedInduction, TLAPS

-----------------------------------------------------------------------------
(* Numbers *)

\* Every set of natural numbers has a least one.
LEMMA LeastNumber ==
    ASSUME NEW T, T \subseteq Nat, T # {}
    PROVE  \E n \in T : \A m \in T : n <= m
  <1> DEFINE R == {ss \in Nat \X Nat : ss[1] < ss[2]}
  <1>1. IsWellFoundedOn(R, Nat)
    BY NatLessThanWellFounded DEF OpToRel
  <1>2. PICK n \in T : \A m \in T : << m, n >> \notin R
    <2> HIDE DEF R
    <2> QED
      BY <1>1, WFMin
  <1>3. ASSUME NEW m \in T
        PROVE  n <= m
    <2>1. << m, n >> \in Nat \X Nat
      OBVIOUS
    <2>2. ~(m < n)
      BY <2>1, <1>2
    <2> QED
      BY <2>2
  <1> QED
    BY <1>3

\* And every bounded one a greatest.
LEMMA GreatestNumber ==
    ASSUME NEW T, T \subseteq Nat, T # {}, NEW bound \in Nat, \A n \in T : n <= bound
    PROVE  \E n \in T : \A m \in T : m <= n
  <1> DEFINE U == {k \in Nat : bound - k \in T}
  <1>1. U # {}
    <2>1. PICK n \in T : TRUE
      OBVIOUS
    <2>2. bound - n \in Nat /\ bound - (bound - n) = n
      OBVIOUS
    <2> QED
      BY <2>1, <2>2
  <1>2. PICK k \in U : \A l \in U : k <= l
    <2>1. U \subseteq Nat
      OBVIOUS
    <2> HIDE DEF U
    <2> QED
      BY <1>1, <2>1, LeastNumber
  <1>3. ASSUME NEW m \in T
        PROVE  m <= bound - k
    <2>1. bound - m \in U
      OBVIOUS
    <2>2. k <= bound - m
      BY <2>1, <1>2
    <2> QED
      BY <2>2
  <1> QED
    BY <1>3

\* Induction, stated of a set of numbers.
LEMMA Induction ==
    ASSUME NEW a \in Nat, NEW b \in Nat, NEW T,
           a <= b => a \in T,
           \A n \in a..b : n < b /\ n \in T => n + 1 \in T
    PROVE  \A n \in a..b : n \in T
  <1> DEFINE U == {n \in a..b : n \notin T}
  <1> SUFFICES ASSUME U # {}
               PROVE  FALSE
    OBVIOUS
  <1>1. PICK n \in U : \A m \in U : n <= m
    <2>1. U \subseteq Nat
      OBVIOUS
    <2> HIDE DEF U
    <2> QED
      BY <2>1, LeastNumber
  <1>2. n # a /\ n - 1 \in a..b /\ n - 1 < b
    OBVIOUS
  <1>3. n - 1 \in T
    BY <1>1, <1>2
  <1> QED
    BY <1>2, <1>3

\* A number lies between the multiples below and above it.
LEMMA Division ==
    ASSUME NEW a \in Nat, NEW m \in Nat \ {0}
    PROVE  /\ a \div m \in Nat
           /\ (a \div m) * m <= a
           /\ a < (a \div m) * m + m
  OBVIOUS

-----------------------------------------------------------------------------
(* The order of time *)

Earlier(set, x) == {y \in set : y.start < x.start}

\* A finite set of things that start at different times, in their order: every one
\* of them once.
LEMMA InOrderFacts ==
    ASSUME NEW set, IsFiniteSet(set),
           \A x \in set : x.start \in Nat,
           \A x, y \in set : x.start = y.start => x = y
    PROVE  /\ Cardinality(set) \in Nat
           /\ InOrder(set) \in [1..Cardinality(set) -> set]
           /\ \A x \in set : \E i \in 1..Cardinality(set) : InOrder(set)[i] = x
           /\ \A i, j \in 1..Cardinality(set) :
                i < j => InOrder(set)[i].start < InOrder(set)[j].start
  <1> DEFINE n == Cardinality(set)
             place == [x \in set |-> Cardinality(Earlier(set, x)) + 1]
  <1>1. n \in Nat
    BY FS_CardinalityType
  <1>2. ASSUME NEW x \in set
        PROVE  /\ IsFiniteSet(Earlier(set, x)) /\ Cardinality(Earlier(set, x)) \in Nat
               /\ Cardinality(Earlier(set, x)) < n
    <2>1. Earlier(set, x) \in SUBSET set
      BY DEF Earlier
    <2>2. IsFiniteSet(Earlier(set, x)) /\ Cardinality(Earlier(set, x)) <= n
          /\ (n = Cardinality(Earlier(set, x)) => set = Earlier(set, x))
      BY <2>1, FS_Subset
    <2>3. x \notin Earlier(set, x)
      BY DEF Earlier
    <2>4. Cardinality(Earlier(set, x)) \in Nat
      BY <2>2, FS_CardinalityType
    <2> QED
      BY <2>2, <2>3, <2>4, <1>1
  <1>3. ASSUME NEW x \in set, NEW y \in set, x.start < y.start
        PROVE  Cardinality(Earlier(set, x)) < Cardinality(Earlier(set, y))
    <2>1. Earlier(set, x) \cup {x} \in SUBSET Earlier(set, y)
      BY <1>3 DEF Earlier
    <2>2. x \notin Earlier(set, x)
      BY DEF Earlier
    <2>3. Cardinality(Earlier(set, x) \cup {x}) = Cardinality(Earlier(set, x)) + 1
      BY <1>2, <2>2, FS_AddElement
    <2>4. Cardinality(Earlier(set, x) \cup {x}) <= Cardinality(Earlier(set, y))
      BY <2>1, <1>2, FS_Subset
    <2> QED
      BY <2>3, <2>4, <1>2
  <1>4. place \in [set -> 1..n]
    BY <1>1, <1>2
  <1>5. \A x, y \in set : place[x] = place[y] => x = y
    <2> SUFFICES ASSUME NEW x \in set, NEW y \in set, x # y
                 PROVE  place[x] # place[y]
      OBVIOUS
    <2>1. x.start < y.start \/ y.start < x.start
      OBVIOUS
    <2> QED
      BY <2>1, <1>2, <1>3
  <1>6. \A i \in 1..n : \E x \in set : place[x] = i
    <2>1. place \in Injection(set, 1..n)
      <3> HIDE DEF place
      <3> QED
        BY <1>4, <1>5 DEF Injection, IsInjective
    <2>2. IsFiniteSet(1..n) /\ Cardinality(1..n) = n
      BY <1>1, FS_Interval
    <2>3. place \in Surjection(set, 1..n)
      BY <2>1, <2>2, FS_Injection
    <2> QED
      BY <2>3 DEF Surjection
  <1>7. ASSUME NEW i \in 1..n
        PROVE  InOrder(set)[i] \in set /\ place[InOrder(set)[i]] = i
    <2>1. InOrder(set)[i] = CHOOSE x \in set : Cardinality(Earlier(set, x)) = i - 1
      BY DEF InOrder, Earlier
    <2>2. \E x \in set : Cardinality(Earlier(set, x)) = i - 1
      BY <1>6, <1>2
    <2>3. InOrder(set)[i] \in set /\ Cardinality(Earlier(set, InOrder(set)[i])) = i - 1
      BY <2>1, <2>2
    <2> QED
      BY <2>3
  <1>8. InOrder(set) \in [1..n -> set]
    <2> DEFINE at(i) == CHOOSE x \in set : Cardinality({y \in set : y.start < x.start}) = i - 1
    <2>1. InOrder(set) = [i \in 1..n |-> at(i)]
      BY DEF InOrder
    <2>2. \A i \in 1..n : at(i) \in set
      <3> HIDE DEF at
      <3> QED
        BY <2>1, <1>7
    <2> HIDE DEF at
    <2> QED
      BY <2>1, <2>2
  <1>9. ASSUME NEW x \in set
        PROVE  \E i \in 1..n : InOrder(set)[i] = x
    <2>1. place[x] \in 1..n
      BY <1>4
    <2>2. InOrder(set)[place[x]] = x
      BY <2>1, <1>7, <1>5
    <2> QED
      BY <2>1, <2>2
  <1>10. ASSUME NEW i \in 1..n, NEW j \in 1..n, i < j
         PROVE  InOrder(set)[i].start < InOrder(set)[j].start
    <2> DEFINE x == InOrder(set)[i]
               y == InOrder(set)[j]
    <2>1. x \in set /\ y \in set /\ place[x] = i /\ place[y] = j
      BY <1>7
    <2>2. x.start \in Nat /\ y.start \in Nat
      BY <2>1
    <2>3. y.start < x.start => place[y] < place[x]
      BY <2>1, <1>2, <1>3
    <2>4. x.start = y.start => place[x] = place[y]
      BY <2>1
    <2> QED
      BY <2>1, <2>2, <2>3, <2>4, <1>10
  <1> QED
    BY <1>1, <1>8, <1>9, <1>10

-----------------------------------------------------------------------------
(* build_tracklets *)

Tracklet == [start : Nat, end : Nat, kind : Kinds, group : Nat]

IsRegion(r) == r.start \in Nat /\ r.end \in Nat /\ r.start < r.end

\* What a piece is, among the cuts of its region.
IsPiece(p, r) ==
    /\ p \in Tracklet
    /\ p.start \in Cuts(r) /\ p.end \in Cuts(r) /\ p.start < p.end
    /\ \A d \in Cuts(r) : p.start < d => p.end <= d
    /\ p.end - p.start <= Cfg.max_tracklet
    /\ p.kind = Kind(p.end - p.start) /\ p.group = r.start

LEMMA CutsFacts ==
    ASSUME NEW r, IsRegion(r)
    PROVE  /\ Cuts(r) \subseteq r.start..r.end
           /\ r.start \in Cuts(r) /\ r.end \in Cuts(r)
  <1> DEFINE m == Cfg.max_tracklet
             last == (r.end - r.start - 1) \div m
  <1>1. m \in Nat \ {0} /\ r.end - r.start - 1 \in Nat
    BY ConfigAssumption DEF IsRegion
  <1>2. last \in Nat /\ last * m <= r.end - r.start - 1
    BY <1>1, Division
  <1>3. ASSUME NEW k \in 1..last
        PROVE  r.start + k * m \in r.start..r.end
    <2> HIDE DEF last, m
    <2>1. k * m \in Nat /\ k * m <= last * m
      BY <1>1, <1>2
    <2> QED
      BY <2>1, <1>1, <1>2 DEF IsRegion
  <1>4. Cuts(r) = {r.start, r.end} \cup {r.start + k * m : k \in 1..last}
    BY DEF Cuts
  <1> HIDE DEF last, m
  <1> QED
    BY <1>3, <1>4 DEF IsRegion

\* After every cut but the last there is another one, and it is near.
LEMMA NextCut ==
    ASSUME NEW r, IsRegion(r), NEW from \in Cuts(r) \ {r.end}
    PROVE  \E to \in Cuts(r) : /\ from < to /\ to - from <= Cfg.max_tracklet
                               /\ \A d \in Cuts(r) : from < d => to <= d
  <1> DEFINE m == Cfg.max_tracklet
             last == (r.end - r.start - 1) \div m
             later == {d \in Cuts(r) : from < d}
  <1>1. m \in Nat \ {0} /\ r.end - r.start - 1 \in Nat
    BY ConfigAssumption DEF IsRegion
  <1>2. last \in Nat /\ r.end - r.start - 1 < last * m + m
    BY <1>1, Division
  <1>3. from \in r.start..r.end /\ from < r.end /\ later \subseteq Nat /\ r.end \in later
    BY CutsFacts DEF IsRegion
  <1>4. PICK to \in later : \A d \in later : to <= d
    BY <1>3, LeastNumber
  <1>5. \E d \in later : d - from <= m
    <2>1. PICK k \in 0..last : from = r.start + k * m
      <3>1. from = r.start \/ from \in {r.start + k * m : k \in 1..last}
        BY DEF Cuts
      <3>2. CASE from = r.start
        <4>1. 0 \in 0..last /\ r.start = r.start + 0 * m
          BY <1>1, <1>2 DEF IsRegion
        <4> QED
          BY <4>1, <3>2
      <3> QED
        BY <3>1, <3>2
    <2>2. CASE k < last
      <3>1. k + 1 \in 1..last
        <4> HIDE DEF last
        <4> QED
          BY <2>2, <1>2
      <3>2. (k + 1) * m = k * m + m /\ k * m \in Nat
        BY <1>1
      <3>3. r.start + (k + 1) * m \in Cuts(r)
        BY <3>1 DEF Cuts
      <3> QED
        BY <2>1, <3>2, <3>3, <1>1 DEF IsRegion
    <2>3. CASE k = last
      <3>1. last * m \in Nat
        BY <1>1, <1>2
      <3>2. r.end - from <= m
        BY <2>1, <2>3, <3>1, <1>1, <1>2 DEF IsRegion
      <3> QED
        BY <1>3, <3>2
    <2> QED
      BY <2>2, <2>3, <1>2
  <1>6. to - from <= m
    BY <1>1, <1>3, <1>4, <1>5
  <1> QED
    BY <1>4, <1>6

LEMMA KindIsOne ==
    ASSUME NEW clean
    PROVE  Kind(clean) \in Kinds
  BY DEF Kind, Kinds

\* From every cut but the last a piece starts, and there are no other pieces.
LEMMA PiecesFacts ==
    ASSUME NEW r, IsRegion(r)
    PROVE  /\ \A p \in Pieces(r) : IsPiece(p, r)
           /\ \A from \in Cuts(r) \ {r.end} : \E p \in Pieces(r) : p.start = from
  <1> DEFINE to(from) == CHOOSE c \in Cuts(r) : c > from /\ \A d \in Cuts(r) : d > from => c <= d
             piece(from) == [start |-> from, end |-> to(from), kind |-> Kind(to(from) - from),
                             group |-> r.start]
  <1>1. Pieces(r) = {piece(from) : from \in Cuts(r) \ {r.end}}
    BY DEF Pieces
  <1>2. ASSUME NEW from \in Cuts(r) \ {r.end}
        PROVE  IsPiece(piece(from), r) /\ piece(from).start = from
    <2>1. PICK c \in Cuts(r) : /\ from < c /\ c - from <= Cfg.max_tracklet
                               /\ \A d \in Cuts(r) : from < d => c <= d
      BY NextCut
    <2>2. Cuts(r) \subseteq Nat /\ r.start \in Nat
      BY CutsFacts DEF IsRegion
    <2>3. from \in Nat /\ c \in Nat
      BY <2>2
    <2>4. /\ to(from) \in Cuts(r) /\ to(from) > from
          /\ \A d \in Cuts(r) : d > from => to(from) <= d
      <3>1. c > from /\ \A d \in Cuts(r) : d > from => c <= d
        BY <2>1, <2>2, <2>3
      <3> QED
        BY <3>1
    <2> HIDE DEF to
    <2>5. to(from) \in Nat
      BY <2>2, <2>4
    <2>6. to(from) - from <= Cfg.max_tracklet
      <3>1. to(from) <= c
        BY <2>1, <2>3, <2>4
      <3>2. Cfg.max_tracklet \in Nat
        BY ConfigAssumption
      <3> QED
        BY <3>1, <3>2, <2>1, <2>3, <2>5
    <2>7. piece(from) \in Tracklet
      BY <2>2, <2>3, <2>5, KindIsOne DEF Tracklet
    <2> QED
      BY <2>2, <2>3, <2>4, <2>5, <2>6, <2>7 DEF IsPiece
  <1> HIDE DEF piece
  <1> QED
    BY <1>1, <1>2

\* What build_tracklets makes of a recording, as all that follows uses it.
Tracklets(rec, ts) ==
    /\ ts \in Seq(Tracklet)
    /\ \A i \in 1..Len(ts) : /\ ts[i].start < ts[i].end /\ ts[i].end <= rec.duration
                             /\ ts[i].end - ts[i].start <= Cfg.max_tracklet
    /\ \A i, j \in 1..Len(ts) : i < j => ts[i].end <= ts[j].start
    /\ \A t \in Nat : (\E i \in 1..Len(ts) : Covers(ts[i], t))
                        <=> \E r \in rec.regions : Covers(r, t)

LEMMA RegionFacts ==
    ASSUME NEW rec \in Recordings
    PROVE  /\ rec.duration \in Nat
           /\ \A r \in rec.regions : IsRegion(r) /\ r.end <= rec.duration
           /\ \A a, b \in rec.regions : a # b => a.end < b.start \/ b.end < a.start
  <1>1. rec \in Recording
    BY InputAssumption
  <1>2. rec.duration \in Nat /\ rec.regions \subseteq [start : Nat, end : Nat]
    BY <1>1 DEF Recording
  <1> QED
    BY <1>2, InputAssumption DEF IsRegion

\* Pieces of the same or of two regions lie apart.
LEMMA PiecesApart ==
    ASSUME NEW rec \in Recordings, NEW r \in rec.regions, NEW s \in rec.regions,
           NEW p, NEW q, IsPiece(p, r), IsPiece(q, s)
    PROVE  /\ p.start < q.start => p.end <= q.start
           /\ p.start = q.start => p = q
  <1>1. /\ IsRegion(r) /\ IsRegion(s)
        /\ r # s => r.end < s.start \/ s.end < r.start
    BY RegionFacts
  <1>2. /\ Cuts(r) \subseteq r.start..r.end /\ Cuts(s) \subseteq s.start..s.end
    BY <1>1, CutsFacts
  <1>3. /\ p.start \in r.start..r.end /\ p.end \in r.start..r.end /\ p.start < p.end
        /\ q.start \in s.start..s.end /\ q.end \in s.start..s.end /\ q.start < q.end
    BY <1>2 DEF IsPiece
  <1>4. CASE r = s
    <2>1. p.start < q.start => p.end <= q.start
      BY <1>4 DEF IsPiece
    <2>2. ASSUME p.start = q.start
          PROVE  p = q
      <3>1. p.end = q.end
        <4>1. p.end <= q.end /\ q.end <= p.end
          BY <1>3, <1>4, <2>2 DEF IsPiece
        <4>2. p.end \in Int /\ q.end \in Int
          BY DEF IsPiece, Tracklet
        <4> QED
          BY <4>1, <4>2
      <3>2. p.kind = q.kind /\ p.group = q.group
        BY <1>4, <2>2, <3>1 DEF IsPiece
      <3>3. p \in Tracklet /\ q \in Tracklet
        BY DEF IsPiece
      <3> QED
        BY <2>2, <3>1, <3>2, <3>3 DEF Tracklet
    <2> QED
      BY <2>1, <2>2
  <1>5. CASE r # s
    BY <1>1, <1>3, <1>5 DEF IsRegion
  <1> QED
    BY <1>4, <1>5

\* A set of things with different starts below a bound is finite.
LEMMA FinitelyMany ==
    ASSUME NEW set, NEW bound \in Nat,
           \A x \in set : x.start \in 0..bound,
           \A x, y \in set : x.start = y.start => x = y
    PROVE  IsFiniteSet(set)
  <1> DEFINE starts == [x \in set |-> x.start]
  <1>1. starts \in [set -> 0..bound]
    OBVIOUS
  <1>2. \A x, y \in set : starts[x] = starts[y] => x = y
    OBVIOUS
  <1>3. starts \in Injection(set, 0..bound)
    <2> HIDE DEF starts
    <2> QED
      BY <1>1, <1>2 DEF Injection, IsInjective
  <1>4. IsFiniteSet(0..bound)
    BY FS_Interval
  <1> QED
    BY <1>3, <1>4, FS_Injection

LEMMA BuildFacts ==
    ASSUME NEW rec \in Recordings
    PROVE  Tracklets(rec, BuildTracklets(rec.regions))
  <1> DEFINE pieces == UNION {Pieces(r) : r \in rec.regions}
             ts == BuildTracklets(rec.regions)
             n == Cardinality(pieces)
  <1>1. \A p \in pieces : \E r \in rec.regions : IsPiece(p, r)
    BY RegionFacts, PiecesFacts
  <1>2. ASSUME NEW p \in pieces
        PROVE  /\ p \in Tracklet /\ p.start \in 0..rec.duration /\ p.start < p.end
               /\ p.end <= rec.duration /\ p.end - p.start <= Cfg.max_tracklet
    <2>1. PICK r \in rec.regions : IsPiece(p, r)
      BY <1>1
    <2>2. Cuts(r) \subseteq r.start..r.end /\ IsRegion(r) /\ r.end <= rec.duration
          /\ rec.duration \in Nat
      BY RegionFacts, CutsFacts
    <2>3. p.start \in r.start..r.end /\ p.end \in r.start..r.end
      BY <2>1, <2>2 DEF IsPiece
    <2>4. p \in Tracklet /\ p.start < p.end /\ p.end - p.start <= Cfg.max_tracklet
      BY <2>1 DEF IsPiece
    <2> QED
      BY <2>2, <2>3, <2>4 DEF IsRegion
  <1>3. \A p, q \in pieces : /\ p.start < q.start => p.end <= q.start
                             /\ p.start = q.start => p = q
    BY <1>1, PiecesApart
  <1>4. rec.duration \in Nat
    BY RegionFacts
  <1> HIDE DEF pieces
  <1>5. IsFiniteSet(pieces)
    BY <1>2, <1>3, <1>4, FinitelyMany
  <1>6. /\ n \in Nat /\ InOrder(pieces) \in [1..n -> pieces]
        /\ \A p \in pieces : \E i \in 1..n : InOrder(pieces)[i] = p
        /\ \A i, j \in 1..n : i < j => InOrder(pieces)[i].start < InOrder(pieces)[j].start
    BY <1>2, <1>3, <1>5, InOrderFacts
  <1>7. ts = InOrder(pieces)
    BY DEF BuildTracklets, pieces
  <1> HIDE DEF ts, n
  <1>8. ts \in Seq(Tracklet) /\ Len(ts) = n
    <2>1. ts \in [1..n -> Tracklet]
      BY <1>2, <1>6, <1>7
    <2> QED
      BY <2>1, <1>6
  <1>9. \A i, j \in 1..n : i < j => ts[i].end <= ts[j].start
    BY <1>3, <1>6, <1>7
  <1>10. ASSUME NEW t \in Nat
         PROVE  (\E i \in 1..n : Covers(ts[i], t)) <=> \E r \in rec.regions : Covers(r, t)
    <2>1. ASSUME NEW i \in 1..n, Covers(ts[i], t)
          PROVE  \E r \in rec.regions : Covers(r, t)
      <3>1. PICK r \in rec.regions : IsPiece(ts[i], r)
        BY <1>1, <1>6, <1>7
      <3>2. IsRegion(r) /\ Cuts(r) \subseteq r.start..r.end
        BY RegionFacts, CutsFacts
      <3>3. ts[i].start \in r.start..r.end /\ ts[i].end \in r.start..r.end
        BY <3>1, <3>2 DEF IsPiece
      <3> QED
        BY <2>1, <3>2, <3>3 DEF Covers, IsRegion
    <2>2. ASSUME NEW r \in rec.regions, Covers(r, t)
          PROVE  \E i \in 1..n : Covers(ts[i], t)
      <3> DEFINE before == {c \in Cuts(r) : c <= t}
      <3>1. IsRegion(r) /\ Cuts(r) \subseteq r.start..r.end /\ r.start \in Cuts(r)
        BY RegionFacts, CutsFacts
      <3>2. before \subseteq Nat /\ r.start \in before /\ \A c \in before : c <= t
        BY <2>2, <3>1 DEF IsRegion, Covers
      <3>3. PICK from \in before : \A c \in before : c <= from
        <4> HIDE DEF before
        <4> QED
          BY <3>2, GreatestNumber
      <3>4. from \in Cuts(r) \ {r.end}
        BY <2>2, <3>1, <3>3 DEF Covers, IsRegion
      <3>5. PICK p \in Pieces(r) : p.start = from
        BY <3>1, <3>4, PiecesFacts
      <3>6. IsPiece(p, r) /\ p \in pieces
        BY <3>1, PiecesFacts DEF pieces
      <3>7. t < p.end
        <4>1. p.end \in Cuts(r) /\ p.start < p.end /\ p.end \in Nat
          BY <3>6 DEF IsPiece, Tracklet
        <4>2. p.end \notin before
          <5>1. from \in Nat
            BY <3>2
          <5> QED
            BY <3>3, <3>5, <4>1, <5>1
        <4> QED
          BY <4>1, <4>2
      <3>8. Covers(p, t)
        BY <3>3, <3>5, <3>7 DEF Covers
      <3> QED
        BY <3>6, <3>8, <1>6, <1>7
    <2> QED
      BY <2>1, <2>2
  <1> QED
    BY <1>2, <1>6, <1>7, <1>8, <1>9, <1>10 DEF Tracklets, ts

\* Every instant of speech lies in one tracklet.
LEMMA TilesFacts ==
    ASSUME Tracklets(recording, tracklets), recording \in Recordings
    PROVE  /\ \A t \in 0..(recording.duration - 1) :
                Cardinality({i \in 1..N : Covers(tracklets[i], t)})
                  = IF \E r \in recording.regions : Covers(r, t) THEN 1 ELSE 0
           /\ \A i \in 1..N : tracklets[i].end - tracklets[i].start <= Cfg.max_tracklet
           /\ \A i \in 2..N : tracklets[i-1].end <= tracklets[i].start
  <1>1. N \in Nat /\ \A i \in 1..N : tracklets[i] \in Tracklet
    BY DEF Tracklets, N
  <1>2. ASSUME NEW t \in 0..(recording.duration - 1)
        PROVE  Cardinality({i \in 1..N : Covers(tracklets[i], t)})
                 = IF \E r \in recording.regions : Covers(r, t) THEN 1 ELSE 0
    <2> DEFINE at == {i \in 1..N : Covers(tracklets[i], t)}
    <2>1. (\E i \in 1..N : Covers(tracklets[i], t))
            <=> \E r \in recording.regions : Covers(r, t)
      BY DEF Tracklets, N
    <2>2. ASSUME NEW i \in at, NEW j \in at
          PROVE  i = j
      <3>1. ASSUME NEW k \in at, NEW l \in at, k < l
            PROVE  FALSE
        <4>1. tracklets[k].end <= tracklets[l].start
          BY <3>1 DEF Tracklets, N
        <4> QED
          BY <4>1, <1>1 DEF Covers, Tracklet
      <3>2. i \in Nat /\ j \in Nat /\ (i < j \/ j < i \/ i = j)
        BY <1>1
      <3> QED
        BY <3>1, <3>2
    <2>3. CASE at = {}
      BY <2>1, <2>3, FS_EmptySet
    <2>4. CASE at # {}
      <3>1. PICK i : at = {i}
        BY <2>2, <2>4
      <3>2. Cardinality(at) = 1
        BY <3>1, FS_Singleton
      <3> QED
        BY <2>1, <2>4, <3>2
    <2> QED
      BY <2>3, <2>4
  <1>3. \A i \in 2..N : tracklets[i-1].end <= tracklets[i].start
    <2>1. ASSUME NEW i \in 2..N
          PROVE  i - 1 \in 1..N /\ i \in 1..N /\ i - 1 < i
      BY <1>1
    <2> QED
      BY <2>1 DEF Tracklets, N
  <1> QED
    BY <1>2, <1>3 DEF Tracklets, N

-----------------------------------------------------------------------------
(* Costs *)

Costs == Nat \cup {Infinity}
AtMost(a, b) == a = b \/ Less(a, b)

LEMMA PlusFacts ==
    ASSUME NEW a \in Costs, NEW b \in Costs
    PROVE  /\ Plus(a, b) \in Costs
           /\ Plus(a, b) = Infinity <=> a = Infinity \/ b = Infinity
  BY ConfigAssumption DEF Costs, Plus

LEMMA PlusMonotone ==
    ASSUME NEW a \in Costs, NEW b \in Costs, NEW c \in Costs, AtMost(a, b)
    PROVE  AtMost(Plus(a, c), Plus(b, c))
  BY ConfigAssumption DEF Costs, Plus, AtMost, Less

LEMMA AtMostFacts ==
    ASSUME NEW a \in Costs, NEW b \in Costs, NEW c \in Costs, AtMost(a, b)
    PROVE  /\ AtMost(b, c) => AtMost(a, c)
           /\ AtMost(b, a) => a = b
           /\ b # Infinity => a # Infinity
  BY ConfigAssumption DEF Costs, AtMost, Less

LEMMA RankFacts ==
    /\ SpeakerIds \cup Withheld \subseteq DOMAIN Rank
    /\ \A q \in SpeakerIds \cup Withheld : Rank[q] \in 1..5
    /\ \A p, q \in SpeakerIds \cup Withheld : Rank[p] = Rank[q] => p = q
    /\ Rank["UNKNOWN"] = 1
  <1>1. ToSet(Order) = {Order[i] : i \in 1..5} /\ DOMAIN Order = 1..5
    BY DEF Order, ToSet
  <1>2. SpeakerIds \cup Withheld \subseteq {Order[i] : i \in 1..5}
    <2>1. /\ Order[1] = "UNKNOWN" /\ Order[2] = "OTHER" /\ Order[3] = "OVERLAP"
          /\ Order[4] = "SPEAKER_00" /\ Order[5] = "SPEAKER_01"
      BY DEF Order
    <2>2. 1 \in 1..5 /\ 2 \in 1..5 /\ 3 \in 1..5 /\ 4 \in 1..5 /\ 5 \in 1..5
      OBVIOUS
    <2> HIDE DEF Order
    <2> QED
      BY <2>1, <2>2 DEF SpeakerIds, Withheld
  <1>3. ASSUME NEW q \in SpeakerIds \cup Withheld
        PROVE  Rank[q] \in 1..5 /\ Order[Rank[q]] = q
    <2>1. Rank[q] = CHOOSE i \in 1..5 : Order[i] = q
      BY <1>1, <1>2 DEF Rank
    <2>2. \E i \in 1..5 : Order[i] = q
      BY <1>2
    <2> HIDE DEF Order
    <2> QED
      BY <2>1, <2>2
  <1>4. Rank["UNKNOWN"] = 1
    <2>1. "UNKNOWN" \in SpeakerIds \cup Withheld
      BY DEF Withheld
    <2>2. \A i \in 1..5 : Order[i] = "UNKNOWN" => i = 1
      BY DEF Order
    <2> QED
      BY <2>1, <2>2, <1>3
  <1>5. DOMAIN Rank = ToSet(Order)
    BY DEF Rank
  <1> QED
    BY <1>1, <1>2, <1>3, <1>4, <1>5

LEMMA CandidatesFacts ==
    ASSUME decision \in Decisions
    PROVE  /\ States \subseteq SpeakerIds
           /\ Candidates \subseteq SpeakerIds \cup Withheld
           /\ "UNKNOWN" \in Candidates
           /\ \A q \in Candidates : q \in SpeakerIds => q \in States
  BY DEF Decisions, States, Candidates, SpeakerIds, Withheld

IsCheapest(q, price) ==
    /\ q \in Candidates
    /\ \A p \in Candidates : Less(price[q], price[p]) \/ (price[q] = price[p] /\ Rank[q] <= Rank[p])

LEMMA CheapestFacts ==
    ASSUME decision \in Decisions, NEW price \in [Candidates -> Costs]
    PROVE  IsCheapest(Cheapest(price), price)
  <1> SUFFICES \E q : IsCheapest(q, price)
    BY DEF IsCheapest, Cheapest
  <1>1. \A q \in Candidates : Rank[q] \in 1..5 /\ price[q] \in Costs
    BY RankFacts, CandidatesFacts
  <1>2. ASSUME NEW T, T \subseteq Candidates, T # {}
        PROVE  \E q \in T : \A p \in T : Rank[q] <= Rank[p]
    <2> DEFINE ranks == {Rank[q] : q \in T}
    <2>1. ranks \subseteq Nat /\ ranks # {}
      BY <1>1, <1>2
    <2>2. PICK n \in ranks : \A m \in ranks : n <= m
      <3> HIDE DEF ranks
      <3> QED
        BY <2>1, LeastNumber
    <2> QED
      BY <2>2
  <1> DEFINE finite == {price[q] : q \in {p \in Candidates : price[p] # Infinity}}
  <1>3. CASE finite = {}
    <2>1. \A q \in Candidates : price[q] = Infinity
      BY <1>3
    <2>2. PICK q \in Candidates : \A p \in Candidates : Rank[q] <= Rank[p]
      BY <1>2, CandidatesFacts
    <2> QED
      BY <2>1, <2>2 DEF IsCheapest
  <1>4. CASE finite # {}
    <2>1. finite \subseteq Nat
      BY <1>1 DEF Costs
    <2>2. PICK least \in finite : \A m \in finite : least <= m
      <3> HIDE DEF finite
      <3> QED
        BY <2>1, <1>4, LeastNumber
    <2> DEFINE tied == {q \in Candidates : price[q] = least}
    <2>3. tied # {} /\ tied \subseteq Candidates
      BY <2>2
    <2>4. PICK q \in tied : \A p \in tied : Rank[q] <= Rank[p]
      <3> HIDE DEF tied
      <3> QED
        BY <2>3, <1>2
    <2>5. ASSUME NEW p \in Candidates, p \notin tied
          PROVE  Less(price[q], price[p])
      <3>1. least \in Nat /\ least # Infinity /\ price[q] = least /\ price[p] # least
        BY <2>1, <2>2, <2>4, <2>5, ConfigAssumption
      <3>2. price[p] = Infinity \/ (price[p] \in Nat /\ least <= price[p])
        BY <1>1, <2>2 DEF Costs
      <3> QED
        BY <3>1, <3>2 DEF Less
    <2> QED
      BY <2>4, <2>5 DEF IsCheapest
  <1> QED
    BY <1>3, <1>4

-----------------------------------------------------------------------------
(* The inductive invariant *)

Stages == {"building", "embedding", "scoring", "tracing", "repairing", "done"}
Decoded == {"scoring", "tracing", "repairing", "done"}

TypesOK ==
    /\ recording \in Recordings /\ decision \in Decisions /\ soft \in BOOLEAN
    /\ stage \in Stages /\ cursor \in Nat /\ cursor >= 2
    /\ distance \in Seq(Evidence \cup {Invalid})

\* What each stage finds of the ones before it.
StagesOK ==
    /\ IF stage = "building" THEN tracklets = << >> ELSE Tracklets(recording, tracklets)
    /\ stage = "building" => distance = << >>
    /\ stage \in Decoded => Len(distance) = N
    /\ stage \notin Decoded => cost = << >> /\ back = << >>
    /\ stage \in {"building", "embedding", "scoring"} => labels = << >>
    /\ stage \in {"building", "embedding", "scoring", "tracing"} => cursor = 2
    /\ stage = "scoring" => Len(cost) < N
    /\ stage \in {"tracing", "repairing", "done"} => Len(cost) = N
    /\ stage = "tracing" => Len(labels) < N
    /\ stage \in {"repairing", "done"} => Len(labels) = N
    /\ stage = "done" => cursor >= N /\ spans = Materialized

\* A column of the forward pass: what it costs to end in a label there, by way of
\* the label the pointer names, and no way is cheaper.
Price(i, p, q) == Plus(Plus(cost[i-1][p], Transition(i, p, q)), Emission(i, q))
ColumnOK(i) ==
    /\ i = 1 => cost[1] = [q \in Candidates |-> Emission(1, q)]
    /\ i > 1 => \A p, q \in Candidates :
         /\ back[i][q] = p => cost[i][q] = Price(i, p, q)
         /\ AtMost(cost[i][q], Price(i, p, q))

ScoresOK ==
    /\ cost \in Seq([Candidates -> Costs])
    /\ back \in Seq([Candidates -> Candidates])
    /\ Len(back) = Len(cost)
    /\ \A i \in 1..Len(cost) : ColumnOK(i)

\* The labels follow the pointers, from a cheapest label of the last column.
At(j) == N - Len(labels) + j
Follows(j) ==
    labels[j] = IF j = Len(labels) THEN Cheapest(cost[N]) ELSE back[At(j) + 1][labels[j + 1]]

TraceOK ==
    /\ labels \in Seq(Candidates)
    /\ stage \in {"tracing", "repairing"} /\ cursor = 2 => \A j \in 1..Len(labels) : Follows(j)
    /\ stage = "tracing" /\ labels # << >> => cost[At(1)][labels[1]] # Infinity

\* No label has an infinite cost, and the repair takes none up.
EligibleOK ==
    stage \in Decoded => \A j \in 1..Len(labels) : Emission(At(j), labels[j]) # Infinity

\* What the repair has passed is no island, but for one the next withholding made.
Island(i) ==
    /\ labels[i] \in SpeakerIds
    /\ labels[i-1] = labels[i+1] /\ labels[i] # labels[i-1]
    /\ Short(i)
RepairOK ==
    stage \in {"repairing", "done"} =>
        \A i \in 2..(N - 1) : i < cursor /\ Island(i) => labels[i+1] = "UNKNOWN" /\ Short(i+1)

DecoderInv == TypesOK /\ StagesOK /\ ScoresOK /\ TraceOK /\ EligibleOK /\ RepairOK

-----------------------------------------------------------------------------
(* Emissions and transitions *)

LEMMA TrackletFacts ==
    ASSUME Tracklets(recording, tracklets)
    PROVE  /\ N \in Nat /\ tracklets \in Seq(Tracklet)
           /\ \A i \in 1..N : /\ tracklets[i] \in Tracklet /\ tracklets[i].kind \in Kinds
                              /\ tracklets[i].start \in Nat /\ tracklets[i].end \in Nat
  <1>1. N \in Nat /\ tracklets \in Seq(Tracklet) /\ \A i \in 1..N : tracklets[i] \in Tracklet
    BY DEF Tracklets, N
  <1> QED
    BY <1>1 DEF Tracklet

LEMMA DistanceFacts ==
    ASSUME TypesOK, Len(distance) = N, NEW i \in 1..N, distance[i] # Invalid
    PROVE  distance[i] \in [SpeakerIds -> Nat]
  <1>1. distance[i] \in Evidence \cup {Invalid}
    BY DEF TypesOK
  <1> QED
    BY <1>1, InputAssumption

\* A speaker whose distance counts is one the tracklet is near enough to.
LEMMA FiniteEmission ==
    ASSUME NEW i, NEW q \in SpeakerIds, Emission(i, q) # Infinity
    PROVE  /\ States # {} /\ distance[i] # Invalid
           /\ Emission(i, q) = distance[i][q]
           /\ WithinCeilings(i, q)
           /\ ~soft => \A other \in States \ {q} :
                          distance[i][other] - distance[i][q] >= Cfg.margin_min[tracklets[i].kind]
  <1>1. q # "UNKNOWN"
    BY DEF SpeakerIds
  <1>2. /\ (soft /\ WithinCeilings(i, q)) \/ (~soft /\ Local(i) = q)
        /\ Emission(i, q) = distance[i][q]
    BY <1>1 DEF Emission
  <1>3. CASE soft /\ WithinCeilings(i, q)
    BY <1>2, <1>3 DEF WithinCeilings
  <1>4. CASE ~soft /\ Local(i) = q
    <2> DEFINE best == Nearest(distance[i], States)
    <2>1. States # {} /\ distance[i] # Invalid
      BY <1>1, <1>4 DEF Local, LocalAssignment
    <2>2. /\ best = q
          /\ distance[i][best] <= Cfg.stable_distance_ceiling[tracklets[i].kind]
          /\ distance[i][best] <= Cfg.absolute_distance_max[tracklets[i].kind]
          /\ \A other \in States \ {best} :
               distance[i][other] - distance[i][best] >= Cfg.margin_min[tracklets[i].kind]
      <3> HIDE DEF best
      <3> QED
        BY <1>1, <1>4, <2>1 DEF Local, LocalAssignment, best
    <2> HIDE DEF best
    <2> QED
      BY <1>2, <1>4, <2>1, <2>2 DEF WithinCeilings
  <1> QED
    BY <1>2, <1>3, <1>4

LEMMA EmissionFacts ==
    ASSUME TypesOK, Tracklets(recording, tracklets), Len(distance) = N, NEW i \in 1..N
    PROVE  /\ Emission(i, "UNKNOWN") \in Nat
           /\ \A q \in Candidates : Emission(i, q) \in Costs
  <1>1. Emission(i, "UNKNOWN") \in Nat
    <2>1. Cfg.unknown_micro_cost \in Nat /\ Cfg.unknown_cost \in Nat
      BY ConfigAssumption
    <2> QED
      BY <2>1 DEF Emission, SpeakerIds
  <1>2. ASSUME NEW q \in Candidates
        PROVE  Emission(i, q) \in Costs
    <2>1. CASE q = "UNKNOWN"
      BY <1>1, <2>1 DEF Costs
    <2>2. CASE q \in SpeakerIds
      <3>1. CASE Emission(i, q) = Infinity
        BY <3>1 DEF Costs
      <3>2. CASE Emission(i, q) # Infinity
        <4>1. distance[i] # Invalid /\ Emission(i, q) = distance[i][q]
          BY <2>2, <3>2, FiniteEmission
        <4>2. distance[i] \in [SpeakerIds -> Nat]
          BY <4>1, DistanceFacts
        <4> QED
          BY <2>2, <4>1, <4>2 DEF Costs
      <3> QED
        BY <3>1, <3>2
    <2>3. CASE q # "UNKNOWN" /\ q \notin SpeakerIds
      BY <2>3 DEF Emission, Costs
    <2> QED
      BY <2>1, <2>2, <2>3
  <1> QED
    BY <1>1, <1>2

LEMMA TransitionFacts ==
    ASSUME Tracklets(recording, tracklets), NEW i \in 2..N, NEW p, NEW q
    PROVE  Transition(i, p, q) \in Costs /\ Transition(i, p, q) # Infinity
  <1> DEFINE gap == tracklets[i].start - tracklets[i-1].end
             relief == (Cfg.gap_relief * gap) \div Cfg.long_gap_reset
  <1>1. N \in Nat /\ i \in 1..N /\ i - 1 \in 1..N
    BY TrackletFacts
  <1>2. gap \in Int
    BY <1>1, TrackletFacts
  <1>3. /\ Cfg.gap_relief \in Nat /\ Cfg.long_gap_reset \in Nat \ {0}
        /\ Cfg.switch_base \in Nat /\ Cfg.uncertainty_transition \in Nat
    BY ConfigAssumption
  <1>4. relief \in Int
    <2> HIDE DEF gap
    <2>1. Cfg.gap_relief * gap \in Int
      BY <1>2, <1>3
    <2> QED
      BY <1>3, <2>1
  <1>5. relief < Cfg.switch_base => Cfg.switch_base - relief \in Nat
    <2> HIDE DEF relief
    <2> QED
      BY <1>3, <1>4
  <1>6. Transition(i, p, q) \in Nat
    <2>1. Transition(i, p, q) =
            IF gap >= Cfg.long_gap_reset \/ p = q THEN 0
            ELSE IF p \notin SpeakerIds \/ q \notin SpeakerIds THEN Cfg.uncertainty_transition
            ELSE IF relief < Cfg.switch_base THEN Cfg.switch_base - relief ELSE 0
      BY DEF Transition
    <2> HIDE DEF gap, relief
    <2> QED
      BY <2>1, <1>3, <1>5
  <1> QED
    BY <1>6, ConfigAssumption DEF Costs

\* What the costs are made of does not change after the decision.
LEMMA CostsStay ==
    ASSUME UNCHANGED << decision, soft, tracklets, distance >>
    PROVE  /\ N' = N /\ States' = States /\ Candidates' = Candidates
           /\ \A i, q : Emission(i, q)' = Emission(i, q)
           /\ \A i, p, q : Transition(i, p, q)' = Transition(i, p, q)
           /\ \A i : Short(i)' = Short(i)
           /\ \A price : Cheapest(price)' = Cheapest(price)
  <1>1. N' = N /\ States' = States
    BY DEF N, States
  <1>2. Candidates' = Candidates
    BY <1>1 DEF Candidates
  <1>3. \A i : Local(i)' = Local(i)
    BY <1>1 DEF Local, LocalAssignment
  <1>4. \A i, q : WithinCeilings(i, q)' = WithinCeilings(i, q)
    BY <1>1 DEF WithinCeilings
  <1>5. \A i, q : Emission(i, q)' = Emission(i, q)
    BY <1>3, <1>4 DEF Emission
  <1>6. \A i, p, q : Transition(i, p, q)' = Transition(i, p, q)
    BY DEF Transition
  <1>7. \A i : Short(i)' = Short(i)
    BY DEF Short
  <1>8. \A price : Cheapest(price)' = Cheapest(price)
    BY <1>2 DEF Cheapest
  <1> QED
    BY <1>1, <1>2, <1>5, <1>6, <1>7, <1>8

-----------------------------------------------------------------------------
(* Viterbi *)

Recurs(f, n, first, step) ==
    \A i \in 1..n : f[i] = IF i = 1 THEN first ELSE step[i][f[i-1]]

\* A function on 1..n may be defined by what comes first and what each value makes
\* of the one before.
LEMMA Recursion ==
    ASSUME NEW V, NEW n \in Nat, NEW first \in V, NEW step \in [2..n -> [V -> V]]
    PROVE  \E f \in [1..n -> V] : Recurs(f, n, first, step)
  <1> DEFINE Defines(f, m) == Recurs(f, m, first, step)
             T == {m \in 0..n : \E f \in [1..m -> V] : Defines(f, m)}
  <1>1. 0 \in T
    <2> DEFINE f == [i \in 1..0 |-> first]
    <2>1. f \in [1..0 -> V] /\ Defines(f, 0)
      BY DEF Recurs
    <2> HIDE DEF f, Defines
    <2> QED
      BY <2>1
  <1>2. ASSUME NEW m \in 0..n, m < n, m \in T
        PROVE  m + 1 \in T
    <2>1. PICK f \in [1..m -> V] : Defines(f, m)
      BY <1>2
    <2> DEFINE next == IF m = 0 THEN first ELSE step[m + 1][f[m]]
               g == [i \in 1..(m + 1) |-> IF i = m + 1 THEN next ELSE f[i]]
    <2>2. next \in V
      <3>1. CASE m = 0
        BY <3>1
      <3>2. CASE m # 0
        <4>1. m \in 1..m /\ m + 1 \in 2..n
          BY <1>2, <3>2
        <4>2. step[m + 1] \in [V -> V] /\ f[m] \in V
          BY <4>1
        <4> QED
          BY <3>2, <4>2
      <3> QED
        BY <3>1, <3>2
    <2> HIDE DEF next
    <2>3. g \in [1..(m + 1) -> V]
      <3>1. \A i \in 1..(m + 1) : i # m + 1 => i \in 1..m
        OBVIOUS
      <3> QED
        BY <2>2, <3>1
    <2>4. ASSUME NEW i \in 1..(m + 1)
          PROVE  g[i] = IF i = 1 THEN first ELSE step[i][g[i-1]]
      <3>1. CASE i = m + 1
        <4>1. g[i] = next
          BY <3>1
        <4>2. i # 1 => g[i-1] = f[m] /\ m # 0
          BY <3>1
        <4> QED
          BY <3>1, <4>1, <4>2 DEF next
      <3>2. CASE i # m + 1
        <4>1. i \in 1..m /\ g[i] = f[i] /\ (i # 1 => i - 1 \in 1..(m + 1) /\ i - 1 # m + 1)
          BY <3>2
        <4>2. i # 1 => g[i-1] = f[i-1]
          BY <4>1
        <4> QED
          BY <2>1, <4>1, <4>2 DEF Recurs
      <3> QED
        BY <3>1, <3>2
    <2>5. Defines(g, m + 1)
      <3> HIDE DEF g
      <3> QED
        BY <2>4 DEF Recurs
    <2> HIDE DEF g, Defines
    <2> QED
      BY <1>2, <2>3, <2>5
  <1>3. n \in T
    <2> HIDE DEF T
    <2>1. \A m \in 0..n : m < n /\ m \in T => m + 1 \in T
      BY <1>2
    <2>2. \A m \in 0..n : m \in T
      BY <1>1, <2>1, Induction
    <2> QED
      BY <2>2
  <1> QED
    BY <1>3

DecoderReady == TypesOK /\ Tracklets(recording, tracklets) /\ Len(distance) = N /\ N > 0

\* The equation of what a labelling costs up to a tracklet.
LEMMA SumFacts ==
    ASSUME DecoderReady, NEW path \in [1..N -> Candidates]
    PROVE  /\ CostUpTo(path) \in [1..N -> Costs]
           /\ CostUpTo(path)[1] = Emission(1, path[1])
           /\ \A i \in 2..N : CostUpTo(path)[i] =
                Plus(Plus(CostUpTo(path)[i-1], Transition(i, path[i-1], path[i])),
                     Emission(i, path[i]))
  <1> DEFINE next(i, c) == Plus(Plus(c, Transition(i, path[i-1], path[i])), Emission(i, path[i]))
             step == [i \in 2..N |-> [c \in Costs |-> next(i, c)]]
  <1>1. N \in Nat /\ 1 \in 1..N
    BY TrackletFacts DEF DecoderReady
  <1>2. \A i \in 1..N : Emission(i, path[i]) \in Costs
    BY EmissionFacts DEF DecoderReady
  <1>3. ASSUME NEW i \in 2..N, NEW c \in Costs
        PROVE  next(i, c) \in Costs
    <2>1. Transition(i, path[i-1], path[i]) \in Costs
      BY TransitionFacts DEF DecoderReady
    <2>2. Emission(i, path[i]) \in Costs
      BY <1>1, <1>2
    <2>3. Plus(c, Transition(i, path[i-1], path[i])) \in Costs
      BY <2>1, PlusFacts
    <2> QED
      BY <2>2, <2>3, PlusFacts
  <1>4. step \in [2..N -> [Costs -> Costs]]
    <2> HIDE DEF next
    <2> QED
      BY <1>3
  <1>5. PICK f \in [1..N -> Costs] :
             \A i \in 1..N : f[i] = IF i = 1 THEN Emission(1, path[1]) ELSE step[i][f[i-1]]
    <2>1. Emission(1, path[1]) \in Costs
      BY <1>1, <1>2
    <2>2. \E f \in [1..N -> Costs] : Recurs(f, N, Emission(1, path[1]), step)
      <3> HIDE DEF step
      <3> QED
        BY <1>1, <1>4, <2>1, Recursion
    <2> QED
      BY <2>2 DEF Recurs
  <1>6. f = [i \in 1..N |-> IF i = 1 THEN Emission(1, path[1]) ELSE next(i, f[i-1])]
    <2>1. ASSUME NEW i \in 1..N
          PROVE  f[i] = IF i = 1 THEN Emission(1, path[1]) ELSE next(i, f[i-1])
      <3>1. CASE i = 1
        BY <1>5, <3>1
      <3>2. CASE i # 1
        <4>1. i \in 2..N /\ i - 1 \in 1..N
          BY <1>1, <3>2
        <4> HIDE DEF next
        <4>2. step[i][f[i-1]] = next(i, f[i-1])
          BY <4>1
        <4> QED
          BY <1>5, <3>2, <4>2
      <3> QED
        BY <3>1, <3>2
    <2> HIDE DEF next, step
    <2> QED
      BY <2>1
  <1> DEFINE Sum(s) == s = [i \in 1..N |-> IF i = 1 THEN Emission(1, path[1]) ELSE next(i, s[i-1])]
  <1>7. CostUpTo(path) = CHOOSE s : Sum(s)
    BY DEF CostUpTo
  <1>8. Sum(CostUpTo(path))
    <2> HIDE DEF Sum
    <2>1. Sum(f)
      BY <1>6 DEF Sum
    <2> QED
      BY <1>7, <2>1
  <1>9. \A i \in 1..N : CostUpTo(path)[i] =
          IF i = 1 THEN Emission(1, path[1]) ELSE next(i, CostUpTo(path)[i-1])
    <2> HIDE DEF next
    <2> QED
      BY <1>8
  <1>10. DOMAIN CostUpTo(path) = 1..N /\ CostUpTo(path) = [i \in 1..N |-> CostUpTo(path)[i]]
    <2> HIDE DEF next
    <2> QED
      BY <1>8
  <1>11. \A i \in 1..N : CostUpTo(path)[i] \in Costs
    <2> DEFINE T == {i \in 1..N : CostUpTo(path)[i] \in Costs}
    <2>1. 1 \in T
      BY <1>1, <1>2, <1>9
    <2>2. ASSUME NEW i \in 1..N, i < N, i \in T
          PROVE  i + 1 \in T
      <3>1. i + 1 \in 2..N /\ i + 1 \in 1..N /\ i + 1 # 1 /\ (i + 1) - 1 = i
        BY <1>1, <2>2
      <3>2. next(i + 1, CostUpTo(path)[i]) \in Costs
        <4> HIDE DEF next
        <4> QED
          BY <1>3, <2>2, <3>1
      <3> HIDE DEF next
      <3> QED
        BY <1>9, <3>1, <3>2
    <2> HIDE DEF T
    <2>3. \A i \in 1..N : i \in T
      BY <1>1, <2>1, <2>2, Induction
    <2> QED
      BY <2>3 DEF T
  <1>12. \A i \in 2..N : i \in 1..N /\ i # 1
    BY <1>1
  <1> QED
    BY <1>1, <1>9, <1>10, <1>11, <1>12

LEMMA ScoreFacts ==
    ASSUME DecoderReady, ScoresOK, Len(cost) = N
    PROVE  /\ N \in Nat /\ 1 \in 1..N /\ N \in 1..N
           /\ \A i \in 1..N : cost[i] \in [Candidates -> Costs] /\ back[i] \in [Candidates -> Candidates]
           /\ \A q \in Candidates : cost[1][q] = Emission(1, q)
           /\ \A i \in 2..N, q \in Candidates :
                /\ cost[i][q] = Price(i, back[i][q], q)
                /\ \A p \in Candidates : AtMost(cost[i][q], Price(i, p, q))
           /\ \A i \in 2..N : \A p, q : Transition(i, p, q) \in Costs
           /\ \A i \in 1..N, q \in Candidates : Emission(i, q) \in Costs
  <1>1. N \in Nat /\ 1 \in 1..N /\ N \in 1..N
    BY TrackletFacts DEF DecoderReady
  <1>2. ASSUME NEW i \in 1..N
        PROVE  cost[i] \in [Candidates -> Costs] /\ back[i] \in [Candidates -> Candidates]
    <2>1. i \in 1..Len(cost) /\ i \in 1..Len(back)
      BY DEF ScoresOK
    <2>2. cost \in Seq([Candidates -> Costs]) /\ back \in Seq([Candidates -> Candidates])
      BY DEF ScoresOK
    <2> QED
      BY <2>1, <2>2, ElementOfSeq
  <1>3. \A i \in 1..N : ColumnOK(i)
    BY DEF ScoresOK
  <1>4. \A q \in Candidates : cost[1][q] = Emission(1, q)
    <2>1. cost[1] = [q \in Candidates |-> Emission(1, q)]
      BY <1>1, <1>3 DEF ColumnOK
    <2> QED
      BY <2>1
  <1>5. \A i \in 2..N : i \in 1..N /\ i > 1
    BY <1>1
  <1>6. \A i \in 2..N, q \in Candidates :
          /\ cost[i][q] = Price(i, back[i][q], q)
          /\ \A p \in Candidates : AtMost(cost[i][q], Price(i, p, q))
    <2> SUFFICES ASSUME NEW i \in 2..N, NEW q \in Candidates
                 PROVE  /\ cost[i][q] = Price(i, back[i][q], q)
                        /\ \A p \in Candidates : AtMost(cost[i][q], Price(i, p, q))
      OBVIOUS
    <2>1. back[i][q] \in Candidates
      BY <1>2, <1>5
    <2> QED
      BY <1>3, <1>5, <2>1 DEF ColumnOK
  <1>7. \A i \in 2..N : \A p, q : Transition(i, p, q) \in Costs
    BY TransitionFacts DEF DecoderReady
  <1>8. \A i \in 1..N, q \in Candidates : Emission(i, q) \in Costs
    BY EmissionFacts DEF DecoderReady
  <1> QED
    BY <1>1, <1>2, <1>4, <1>6, <1>7, <1>8

\* No labelling costs less than its last column says.
LEMMA NoneCheaper ==
    ASSUME DecoderReady, ScoresOK, Len(cost) = N, NEW path \in [1..N -> Candidates]
    PROVE  AtMost(cost[N][path[N]], PathCost(path)) /\ PathCost(path) \in Costs
  <1> DEFINE sum == CostUpTo(path)
             T == {i \in 1..N : AtMost(cost[i][path[i]], sum[i])}
  <1>1. /\ sum \in [1..N -> Costs] /\ sum[1] = Emission(1, path[1])
        /\ \A i \in 2..N : sum[i] = Plus(Plus(sum[i-1], Transition(i, path[i-1], path[i])),
                                         Emission(i, path[i]))
    BY SumFacts
  <1> HIDE DEF sum
  <1>2. 1 \in T
    BY <1>1, ScoreFacts DEF AtMost
  <1>3. ASSUME NEW i \in 1..N, i < N, i \in T
        PROVE  i + 1 \in T
    <2>1. i + 1 \in 2..N /\ i + 1 \in 1..N /\ (i + 1) - 1 = i
      BY <1>3, ScoreFacts
    <2> DEFINE p == path[i]
               q == path[i + 1]
               t == Transition(i + 1, p, q)
               e == Emission(i + 1, q)
    <2>2. p \in Candidates /\ q \in Candidates
      BY <2>1
    <2>3. cost[i][p] \in Costs /\ sum[i] \in Costs /\ t \in Costs /\ e \in Costs
      BY <1>1, <2>1, <2>2, ScoreFacts
    <2>4. AtMost(cost[i + 1][q], Plus(Plus(cost[i][p], t), e))
      BY <2>1, <2>2, ScoreFacts DEF Price
    <2>5. sum[i + 1] = Plus(Plus(sum[i], t), e)
      BY <1>1, <2>1
    <2>6. AtMost(cost[i][p], sum[i])
      BY <1>3
    <2>7. cost[i + 1][q] \in Costs
      BY <2>1, <2>2, ScoreFacts
    <2> HIDE DEF p, t, e
    <2>8. AtMost(Plus(Plus(cost[i][p], t), e), Plus(Plus(sum[i], t), e))
      <3>1. AtMost(Plus(cost[i][p], t), Plus(sum[i], t))
        BY <2>3, <2>6, PlusMonotone
      <3>2. Plus(cost[i][p], t) \in Costs /\ Plus(sum[i], t) \in Costs
        BY <2>3, PlusFacts
      <3> QED
        BY <2>3, <3>1, <3>2, PlusMonotone
    <2>9. AtMost(cost[i + 1][q], sum[i + 1])
      <3>1. Plus(cost[i][p], t) \in Costs /\ Plus(sum[i], t) \in Costs
        BY <2>3, PlusFacts
      <3>2. Plus(Plus(cost[i][p], t), e) \in Costs /\ Plus(Plus(sum[i], t), e) \in Costs
        BY <2>3, <3>1, PlusFacts
      <3> HIDE DEF q
      <3> QED
        BY <3>2, <2>4, <2>5, <2>7, <2>8, AtMostFacts
    <2> QED
      BY <2>1, <2>9
  <1>4. N \in T
    <2> HIDE DEF T
    <2>1. \A i \in 1..N : i \in T
      BY <1>2, <1>3, ScoreFacts, Induction
    <2> QED
      BY <2>1, ScoreFacts
  <1> QED
    BY <1>1, <1>4, ScoreFacts DEF PathCost, sum

\* A labelling that follows the pointers costs what its last column says.
LEMMA PointersAreTrue ==
    ASSUME DecoderReady, ScoresOK, Len(cost) = N, NEW path \in [1..N -> Candidates],
           \A i \in 2..N : path[i-1] = back[i][path[i]]
    PROVE  cost[N][path[N]] = PathCost(path)
  <1> DEFINE sum == CostUpTo(path)
             T == {i \in 1..N : cost[i][path[i]] = sum[i]}
  <1>1. /\ sum[1] = Emission(1, path[1])
        /\ \A i \in 2..N : sum[i] = Plus(Plus(sum[i-1], Transition(i, path[i-1], path[i])),
                                         Emission(i, path[i]))
    BY SumFacts
  <1> HIDE DEF sum
  <1>2. 1 \in T
    BY <1>1, ScoreFacts
  <1>3. ASSUME NEW i \in 1..N, i < N, i \in T
        PROVE  i + 1 \in T
    <2>1. i + 1 \in 2..N /\ i + 1 \in 1..N /\ (i + 1) - 1 = i
      BY <1>3, ScoreFacts
    <2>2. path[i + 1] \in Candidates /\ path[i] = back[i + 1][path[i + 1]]
      BY <2>1
    <2>3. cost[i + 1][path[i + 1]] = Price(i + 1, path[i], path[i + 1])
      BY <2>1, <2>2, ScoreFacts
    <2>4. cost[i][path[i]] = sum[i]
      BY <1>3
    <2> QED
      BY <1>1, <2>1, <2>3, <2>4 DEF Price
  <1>4. N \in T
    <2> HIDE DEF T
    <2>1. \A i \in 1..N : i \in T
      BY <1>2, <1>3, ScoreFacts, Induction
    <2> QED
      BY <2>1, ScoreFacts
  <1> QED
    BY <1>4 DEF PathCost, sum

\* A labelling without a speaker has a finite cost.
LEMMA UnknownIsFinite ==
    ASSUME DecoderReady
    PROVE  PathCost([i \in 1..N |-> "UNKNOWN"]) # Infinity
  <1> DEFINE path == [i \in 1..N |-> "UNKNOWN"]
             sum == CostUpTo(path)
             T == {i \in 1..N : sum[i] # Infinity}
  <1>1. N \in Nat /\ 1 \in 1..N /\ N \in 1..N
    BY TrackletFacts DEF DecoderReady
  <1>2. path \in [1..N -> Candidates]
    BY CandidatesFacts DEF DecoderReady, TypesOK
  <1>3. \A i \in 1..N : Emission(i, "UNKNOWN") \in Costs /\ Emission(i, "UNKNOWN") # Infinity
    BY EmissionFacts, ConfigAssumption DEF DecoderReady, Costs
  <1>4. \A i \in 2..N : /\ Transition(i, "UNKNOWN", "UNKNOWN") \in Costs
                        /\ Transition(i, "UNKNOWN", "UNKNOWN") # Infinity
    BY TransitionFacts DEF DecoderReady
  <1>5. /\ sum \in [1..N -> Costs]
        /\ sum[1] = Emission(1, path[1])
        /\ \A i \in 2..N : sum[i] = Plus(Plus(sum[i-1], Transition(i, path[i-1], path[i])),
                                         Emission(i, path[i]))
    <2> HIDE DEF path
    <2> QED
      BY <1>2, SumFacts
  <1>6. /\ sum[1] = Emission(1, "UNKNOWN")
        /\ \A i \in 2..N : sum[i] = Plus(Plus(sum[i-1], Transition(i, "UNKNOWN", "UNKNOWN")),
                                         Emission(i, "UNKNOWN"))
    <2>1. \A i \in 2..N : path[i] = "UNKNOWN" /\ path[i-1] = "UNKNOWN"
      BY <1>1
    <2>2. path[1] = "UNKNOWN"
      BY <1>1
    <2> HIDE DEF sum, path
    <2> QED
      BY <2>1, <2>2, <1>5
  <1> HIDE DEF sum
  <1>7. 1 \in T
    BY <1>1, <1>3, <1>6
  <1>8. ASSUME NEW i \in 1..N, i < N, i \in T
        PROVE  i + 1 \in T
    <2>1. i + 1 \in 2..N /\ i + 1 \in 1..N /\ (i + 1) - 1 = i
      BY <1>1, <1>8
    <2> DEFINE t == Transition(i + 1, "UNKNOWN", "UNKNOWN")
               e == Emission(i + 1, "UNKNOWN")
    <2>2. sum[i + 1] = Plus(Plus(sum[i], t), e)
      BY <1>6, <2>1
    <2>3. /\ sum[i] \in Costs /\ t \in Costs /\ e \in Costs
          /\ sum[i] # Infinity /\ t # Infinity /\ e # Infinity
      BY <1>3, <1>4, <1>5, <1>8, <2>1
    <2> HIDE DEF t, e
    <2>4. Plus(Plus(sum[i], t), e) # Infinity
      <3>1. Plus(sum[i], t) \in Costs /\ Plus(sum[i], t) # Infinity
        BY <2>3, PlusFacts
      <3> QED
        BY <2>3, <3>1, PlusFacts
    <2> QED
      BY <2>1, <2>2, <2>4
  <1>9. N \in T
    <2> HIDE DEF T
    <2>1. \A i \in 1..N : i \in T
      BY <1>1, <1>7, <1>8, Induction
    <2> QED
      BY <1>1, <2>1
  <1> QED
    BY <1>9 DEF PathCost, sum

-----------------------------------------------------------------------------
(* What the invariant says *)

LEMMA InvReady ==
    ASSUME DecoderInv, stage \in Decoded, N > 0
    PROVE  DecoderReady
  BY DEF DecoderInv, DecoderReady, StagesOK, Decoded

LEMMA CheapestFromInv ==
    ASSUME DecoderInv
    PROVE  LabelsAreCheapest
  <1> SUFFICES ASSUME Traced
               PROVE  /\ PathCost(labels) # Infinity
                      /\ \A path \in [1..N -> States \cup {"UNKNOWN"}] :
                           \/ Less(PathCost(labels), PathCost(path))
                           \/ /\ PathCost(labels) = PathCost(path)
                              /\ path[N] = "UNKNOWN" => labels[N] = "UNKNOWN"
    BY DEF LabelsAreCheapest
  <1>1. /\ DecoderReady /\ ScoresOK /\ Len(cost) = N /\ Len(labels) = N /\ decision \in Decisions
        /\ labels \in Seq(Candidates) /\ \A j \in 1..Len(labels) : Follows(j)
    <2>1. stage = "repairing" /\ cursor = 2 /\ N > 0 /\ stage \in Decoded
      BY DEF Traced, Decoded
    <2>2. DecoderReady
      BY <2>1, InvReady
    <2> QED
      BY <2>1, <2>2 DEF DecoderInv, TypesOK, StagesOK, TraceOK
  <1>2. N \in Nat /\ 1 \in 1..N /\ N \in 1..N
    BY <1>1, ScoreFacts
  <1>3. labels \in [1..N -> Candidates]
    BY <1>1, LenProperties
  <1>4. labels[N] = Cheapest(cost[N])
    BY <1>1, <1>2 DEF Follows
  <1>5. \A i \in 2..N : labels[i-1] = back[i][labels[i]]
    <2> SUFFICES ASSUME NEW i \in 2..N
                 PROVE  labels[i-1] = back[i][labels[i]]
      OBVIOUS
    <2>1. i - 1 \in 1..N /\ i - 1 # N /\ (i - 1) + 1 = i /\ (N - N + (i - 1)) + 1 = i
      BY <1>2
    <2>2. Follows(i - 1)
      BY <1>1, <2>1
    <2> QED
      BY <1>1, <2>1, <2>2 DEF Follows, At
  <1>6. cost[N] \in [Candidates -> Costs] /\ labels[N] \in Candidates
    BY <1>1, <1>2, <1>3, ScoreFacts
  <1>7. PathCost(labels) = cost[N][labels[N]] /\ PathCost(labels) \in Costs
    BY <1>1, <1>3, <1>5, <1>6, PointersAreTrue
  <1>8. \A p \in Candidates :
          Less(cost[N][labels[N]], cost[N][p])
            \/ (cost[N][labels[N]] = cost[N][p] /\ Rank[labels[N]] <= Rank[p])
    BY <1>1, <1>4, <1>6, CheapestFacts DEF IsCheapest
  <1>9. ASSUME NEW path \in [1..N -> Candidates]
        PROVE  /\ AtMost(PathCost(labels), PathCost(path))
               /\ PathCost(path) \in Costs
               /\ PathCost(labels) = PathCost(path) /\ path[N] = "UNKNOWN" => labels[N] = "UNKNOWN"
    <2>1. path[N] \in Candidates
      BY <1>2
    <2>2. AtMost(cost[N][path[N]], PathCost(path)) /\ PathCost(path) \in Costs
      BY <1>1, NoneCheaper
    <2>3. cost[N][path[N]] \in Costs
      BY <1>6, <2>1
    <2>4. AtMost(cost[N][labels[N]], cost[N][path[N]])
      BY <1>8, <2>1 DEF AtMost
    <2>5. AtMost(PathCost(labels), PathCost(path))
      BY <1>7, <2>2, <2>3, <2>4, AtMostFacts
    <2>6. ASSUME PathCost(labels) = PathCost(path), path[N] = "UNKNOWN"
          PROVE  labels[N] = "UNKNOWN"
      <3>1. cost[N][labels[N]] = cost[N][path[N]]
        BY <1>7, <2>2, <2>3, <2>4, <2>6, AtMostFacts
      <3>2. ~Less(cost[N][labels[N]], cost[N][path[N]])
        BY <1>7, <2>3, <3>1 DEF Less, Costs
      <3>3. Rank[labels[N]] <= Rank["UNKNOWN"]
        BY <1>8, <2>1, <2>6, <3>2
      <3>4. labels[N] \in SpeakerIds \cup Withheld /\ "UNKNOWN" \in SpeakerIds \cup Withheld
        BY <1>1, <1>6, CandidatesFacts
      <3>5. Rank[labels[N]] \in 1..5 /\ Rank["UNKNOWN"] = 1
        BY <3>4, RankFacts
      <3>6. Rank[labels[N]] = Rank["UNKNOWN"]
        BY <3>3, <3>5
      <3> QED
        BY <3>4, <3>6, RankFacts
    <2> QED
      BY <2>2, <2>5, <2>6
  <1>10. PathCost(labels) # Infinity
    <2> DEFINE unknown == [i \in 1..N |-> "UNKNOWN"]
    <2>1. unknown \in [1..N -> Candidates]
      BY <1>1, CandidatesFacts
    <2>2. PathCost(unknown) # Infinity
      BY <1>1, UnknownIsFinite
    <2> HIDE DEF unknown
    <2>3. AtMost(PathCost(labels), PathCost(unknown)) /\ PathCost(unknown) \in Costs
      BY <1>9, <2>1
    <2> QED
      BY <1>7, <2>2, <2>3, AtMostFacts
  <1>11. ASSUME NEW path \in [1..N -> States \cup {"UNKNOWN"}]
         PROVE  path \in [1..N -> Candidates]
    BY DEF Candidates, Withheld
  <1> QED
    BY <1>9, <1>10, <1>11 DEF AtMost

LEMMA NobodyForcedFromInv ==
    ASSUME DecoderInv
    PROVE  NobodyForced
  <1> SUFFICES ASSUME stage = "done", NEW i \in 1..N, labels[i] \in SpeakerIds
               PROVE  /\ labels[i] \in States
                      /\ WithinCeilings(i, labels[i])
                      /\ \A other \in States \ {labels[i]} :
                           soft \/ distance[i][other] - distance[i][labels[i]]
                                     >= Cfg.margin_min[tracklets[i].kind]
    BY DEF NobodyForced
  <1>1. /\ Len(labels) = N /\ labels \in Seq(Candidates) /\ decision \in Decisions
        /\ \A j \in 1..Len(labels) : Emission(At(j), labels[j]) # Infinity
        /\ Tracklets(recording, tracklets)
    BY DEF DecoderInv, StagesOK, TraceOK, EligibleOK, TypesOK, Decoded
  <1>2. N \in Nat /\ At(i) = i
    BY <1>1, TrackletFacts DEF At
  <1>3. Emission(i, labels[i]) # Infinity
    BY <1>1, <1>2
  <1>4. labels[i] \in Candidates
    BY <1>1, <1>2, ElementOfSeq
  <1>5. labels[i] \in States
    BY <1>1, <1>4, CandidatesFacts
  <1> QED
    BY <1>3, <1>5, FiniteEmission

LEMMA IslandsFromInv ==
    ASSUME DecoderInv
    PROVE  IslandsWithheld
  <1> SUFFICES ASSUME stage = "done", NEW i \in 2..(N - 1), Island(i)
               PROVE  labels[i+1] = "UNKNOWN" /\ Short(i+1)
    BY DEF IslandsWithheld, Island
  <1>1. cursor >= N /\ cursor \in Nat /\ N \in Nat
    BY TrackletFacts DEF DecoderInv, StagesOK, TypesOK
  <1>2. i < cursor
    BY <1>1
  <1> QED
    BY <1>2 DEF DecoderInv, RepairOK

LEMMA TilesFromInv ==
    ASSUME DecoderInv
    PROVE  TrackletsTileSpeech
  <1> SUFFICES ASSUME stage = "embedding"
               PROVE  TrackletsTileSpeech
    BY DEF TrackletsTileSpeech
  <1>1. Tracklets(recording, tracklets) /\ recording \in Recordings
    BY DEF DecoderInv, StagesOK, TypesOK
  <1> QED
    BY <1>1, TilesFacts DEF TrackletsTileSpeech

-----------------------------------------------------------------------------
(* The timeline *)

TimelineReady ==
    /\ Tracklets(recording, tracklets) /\ recording.duration \in Nat
    /\ labels \in Seq(Candidates) /\ Len(labels) = N /\ decision \in Decisions

\* Tracklets one after the other.
LEMMA TrackletOrder ==
    ASSUME TimelineReady
    PROVE  /\ N \in Nat
           /\ \A i \in 1..N : /\ tracklets[i].start \in Nat /\ tracklets[i].end \in Nat
                              /\ tracklets[i].start < tracklets[i].end
                              /\ tracklets[i].end <= recording.duration
           /\ \A i, j \in 1..N : i < j => tracklets[i].end <= tracklets[j].start
           /\ \A i, j \in 1..N : i <= j => /\ tracklets[i].start <= tracklets[j].start
                                           /\ tracklets[i].end <= tracklets[j].end
  <1>1. /\ N \in Nat
        /\ \A i \in 1..N : /\ tracklets[i].start \in Nat /\ tracklets[i].end \in Nat
                           /\ tracklets[i].start < tracklets[i].end
                           /\ tracklets[i].end <= recording.duration
    BY TrackletFacts DEF TimelineReady, Tracklets, N
  <1>2. \A i, j \in 1..N : i < j => tracklets[i].end <= tracklets[j].start
    BY DEF TimelineReady, Tracklets, N
  <1>3. ASSUME NEW i \in 1..N, NEW j \in 1..N, i <= j
        PROVE  /\ tracklets[i].start <= tracklets[j].start
               /\ tracklets[i].end <= tracklets[j].end
    <2>1. i = j \/ i < j
      BY <1>1, <1>3
    <2>2. CASE i = j
      BY <1>1, <2>2
    <2>3. CASE i < j
      <3>1. tracklets[i].end <= tracklets[j].start
        BY <1>2, <2>3
      <3> QED
        BY <1>1, <3>1
    <2> QED
      BY <2>1, <2>2, <2>3
  <1> QED
    BY <1>1, <1>2, <1>3

\* How far the span of a tracklet goes.
LEMMA LastJoinedFacts ==
    ASSUME TimelineReady, NEW i \in 1..N
    PROVE  /\ LastJoined(i) \in i..N
           /\ \A k \in (i + 1)..LastJoined(i) : Joins(k)
           /\ LastJoined(i) = N \/ ~Joins(LastJoined(i) + 1)
  <1> DEFINE T == {j \in i..N : \A k \in (i + 1)..j : Joins(k)}
             P(j) == (\A k \in (i + 1)..j : Joins(k)) /\ (j = N \/ ~Joins(j + 1))
  <1>1. N \in Nat /\ i \in Nat
    BY TrackletOrder
  <1>2. N \in Nat /\ T \subseteq Nat /\ T # {} /\ \A n \in T : n <= N
    BY <1>1
  <1>3. PICK j \in T : \A m \in T : m <= j
    <2> HIDE DEF T
    <2> QED
      BY <1>2, GreatestNumber
  <1>4. j \in i..N /\ \A k \in (i + 1)..j : Joins(k)
    BY <1>3
  <1>5. ASSUME j # N, Joins(j + 1)
        PROVE  FALSE
    <2>1. j + 1 \in i..N
      BY <1>1, <1>4, <1>5
    <2>2. \A k \in (i + 1)..(j + 1) : k \in (i + 1)..j \/ k = j + 1
      BY <1>1, <1>4
    <2>3. j + 1 \in T
      BY <1>4, <1>5, <2>1, <2>2
    <2>4. j + 1 <= j
      BY <1>3, <2>3
    <2> QED
      BY <1>1, <1>4, <2>4
  <1>6. P(j)
    BY <1>4, <1>5
  <1>7. LastJoined(i) = CHOOSE l \in i..N : P(l)
    BY DEF LastJoined
  <1> HIDE DEF P
  <1>8. LastJoined(i) \in i..N /\ P(LastJoined(i))
    BY <1>4, <1>6, <1>7
  <1> QED
    BY <1>8 DEF P

\* The tracklets of a span bear its label and follow each other without a pause.
LEMMA ChainFacts ==
    ASSUME TimelineReady, NEW i \in 1..N, NEW j \in i..LastJoined(i)
    PROVE  /\ j \in 1..N
           /\ labels[j] = labels[i] /\ Status(j) = Status(i)
           /\ j # i => Joins(j) /\ tracklets[j-1].end = tracklets[j].start
  <1> DEFINE T == {k \in i..LastJoined(i) : labels[k] = labels[i] /\ Status(k) = Status(i)}
  <1>1. /\ LastJoined(i) \in i..N /\ N \in Nat /\ i \in Nat /\ LastJoined(i) \in Nat
        /\ \A k \in (i + 1)..LastJoined(i) : Joins(k)
    BY LastJoinedFacts, TrackletOrder
  <1>2. i <= LastJoined(i) => i \in T
    BY <1>1
  <1>3. ASSUME NEW k \in i..LastJoined(i), k < LastJoined(i), k \in T
        PROVE  k + 1 \in T
    <2>1. k + 1 \in (i + 1)..LastJoined(i) /\ k + 1 \in i..LastJoined(i) /\ (k + 1) - 1 = k
      BY <1>1, <1>3
    <2>2. Joins(k + 1)
      BY <1>1, <2>1
    <2>3. labels[k] = labels[k + 1] /\ Status(k) = Status(k + 1)
      BY <2>1, <2>2 DEF Joins
    <2> QED
      BY <1>3, <2>1, <2>3
  <1>4. j \in T
    <2> HIDE DEF T
    <2>1. \A k \in i..LastJoined(i) : k \in T
      BY <1>1, <1>2, <1>3, Induction
    <2> QED
      BY <2>1
  <1>5. j \in 1..N /\ (j # i => j \in (i + 1)..LastJoined(i))
    BY <1>1
  <1>6. j # i => Joins(j) /\ tracklets[j-1].end = tracklets[j].start
    BY <1>1, <1>5 DEF Joins
  <1> QED
    BY <1>4, <1>5, <1>6

Starts == {i \in 1..N : ~Joins(i)}
RunOf(i) == Span(tracklets[i].start, tracklets[LastJoined(i)].end, labels[i], Status(i))

\* A span says what its tracklets say, and every tracklet is in one.
LEMMA RunCovers ==
    ASSUME TimelineReady, NEW i \in Starts, NEW t \in Nat, Covers(RunOf(i), t)
    PROVE  \E j \in i..LastJoined(i) : Covers(tracklets[j], t)
  <1> DEFINE last == LastJoined(i)
             T == {j \in i..last : tracklets[j].start <= t}
  <1>1. i \in 1..N /\ last \in i..N /\ N \in Nat /\ last \in 1..N
    BY LastJoinedFacts, TrackletOrder DEF Starts
  <1>2. tracklets[i].start <= t /\ t < tracklets[last].end
    BY DEF RunOf, Span, Covers
  <1> HIDE DEF last
  <1>3. PICK j \in T : \A m \in T : m <= j
    <2>1. T \subseteq Nat /\ T # {} /\ \A n \in T : n <= last
      BY <1>1, <1>2
    <2>2. last \in Nat
      BY <1>1
    <2> HIDE DEF T
    <2> QED
      BY <2>1, <2>2, GreatestNumber
  <1>4. j \in i..last /\ tracklets[j].start <= t
    BY <1>3
  <1>5. t < tracklets[j].end
    <2>1. CASE j = last
      BY <1>2, <2>1
    <2>2. CASE j # last
      <3>1. j + 1 \in i..last /\ j + 1 # i /\ (j + 1) - 1 = j /\ j + 1 \in 1..N /\ ~(j + 1 <= j)
        BY <1>1, <1>4, <2>2
      <3>2. tracklets[j].end = tracklets[j + 1].start
        BY <1>1, <3>1, ChainFacts DEF last
      <3>3. ~(tracklets[j + 1].start <= t)
        BY <1>3, <3>1
      <3>4. tracklets[j + 1].start \in Nat
        BY <3>1, TrackletOrder
      <3> QED
        BY <3>2, <3>3, <3>4
    <2> QED
      BY <2>1, <2>2
  <1> QED
    BY <1>4, <1>5 DEF Covers, last

LEMMA CoveredByRun ==
    ASSUME TimelineReady, NEW j \in 1..N
    PROVE  \E i \in Starts : j \in i..LastJoined(i)
  <1> DEFINE T == {i \in 1..j : ~Joins(i)}
  <1>1. N \in Nat /\ 1 \in 1..j /\ ~Joins(1)
    BY TrackletOrder DEF Joins
  <1>2. PICK i \in T : \A m \in T : m <= i
    <2>1. T \subseteq Nat /\ T # {} /\ \A n \in T : n <= j
      BY <1>1
    <2>2. j \in Nat
      OBVIOUS
    <2> HIDE DEF T
    <2> QED
      BY <2>1, <2>2, GreatestNumber
  <1>3. i \in 1..N /\ i \in 1..j /\ ~Joins(i) /\ i \in Starts
    BY <1>1, <1>2 DEF Starts
  <1>4. /\ LastJoined(i) \in i..N
        /\ LastJoined(i) = N \/ ~Joins(LastJoined(i) + 1)
    BY <1>3, LastJoinedFacts
  <1>5. ASSUME LastJoined(i) < j
        PROVE  FALSE
    <2> DEFINE next == LastJoined(i) + 1
    <2>1. next \in 1..j /\ ~(next <= i) /\ LastJoined(i) # N
      BY <1>1, <1>3, <1>4, <1>5
    <2>2. next \in T
      BY <1>4, <2>1
    <2> QED
      BY <1>2, <2>1, <2>2
  <1>6. j \in i..LastJoined(i)
    BY <1>1, <1>3, <1>4, <1>5
  <1> QED
    BY <1>3, <1>6

LEMMA CoversRun ==
    ASSUME TimelineReady, NEW i \in Starts, NEW j \in i..LastJoined(i), NEW t \in Nat,
           Covers(tracklets[j], t)
    PROVE  Covers(RunOf(i), t)
  <1>1. i \in 1..N /\ LastJoined(i) \in i..N /\ N \in Nat
    BY LastJoinedFacts, TrackletOrder DEF Starts
  <1>2. j \in 1..N /\ LastJoined(i) \in 1..N /\ i <= j /\ j <= LastJoined(i)
    BY <1>1
  <1>3. /\ tracklets[i].start <= tracklets[j].start
        /\ tracklets[j].end <= tracklets[LastJoined(i)].end
    BY <1>1, <1>2, TrackletOrder
  <1>4. /\ tracklets[i].start \in Nat /\ tracklets[j].start \in Nat
        /\ tracklets[j].end \in Nat /\ tracklets[LastJoined(i)].end \in Nat
    BY <1>1, <1>2, TrackletOrder
  <1>5. tracklets[i].start <= t /\ t < tracklets[LastJoined(i)].end
    BY <1>3, <1>4 DEF Covers
  <1> QED
    BY <1>5 DEF RunOf, Span, Covers

Gaps == {i \in 0..N : Cfg.include_non_speech /\ Since(i) < Until(i)}
PauseOf(i) == Span(Since(i), Until(i), "NON_SPEECH", "NON_SPEECH")

\* Where the pauses may be.
LEMMA GapFacts ==
    ASSUME TimelineReady
    PROVE  /\ \A i \in 0..N : /\ Since(i) \in Nat /\ Until(i) \in Nat
                              /\ Since(i) <= Until(i) /\ Until(i) <= recording.duration
           /\ \A i, j \in 0..N : i < j => Until(i) < Since(j)
  <1>1. N \in Nat /\ recording.duration \in Nat
    BY TrackletOrder DEF TimelineReady
  <1>2. ASSUME NEW i \in 0..N
        PROVE  /\ Since(i) \in Nat /\ Until(i) \in Nat
               /\ Since(i) <= Until(i) /\ Until(i) <= recording.duration
    <2>1. Since(i) \in Nat /\ Since(i) <= recording.duration
      <3>1. CASE i = 0
        BY <1>1, <3>1 DEF Since
      <3>2. CASE i # 0
        <4>1. i \in 1..N
          BY <1>1, <3>2
        <4> QED
          BY <3>2, <4>1, TrackletOrder DEF Since
      <3> QED
        BY <3>1, <3>2
    <2>2. CASE i = N
      BY <1>1, <2>1, <2>2 DEF Until
    <2>3. CASE i # N
      <3>1. i + 1 \in 1..N /\ Until(i) = tracklets[i + 1].start
        BY <1>1, <2>3 DEF Until
      <3>2. /\ tracklets[i + 1].start \in Nat /\ tracklets[i + 1].end \in Nat
            /\ tracklets[i + 1].start < tracklets[i + 1].end
            /\ tracklets[i + 1].end <= recording.duration
        BY <3>1, TrackletOrder
      <3>3. Since(i) <= tracklets[i + 1].start
        <4>1. CASE i = 0
          BY <3>2, <4>1 DEF Since
        <4>2. CASE i # 0
          <5>1. i \in 1..N /\ i < i + 1
            BY <1>1, <4>2
          <5> QED
            BY <3>1, <4>2, <5>1, TrackletOrder DEF Since
        <4> QED
          BY <4>1, <4>2
      <3> QED
        BY <1>1, <2>1, <3>1, <3>2, <3>3
    <2> QED
      BY <2>2, <2>3
  <1>3. ASSUME NEW i \in 0..N, NEW j \in 0..N, i < j
        PROVE  Until(i) < Since(j)
    <2>1. i + 1 \in 1..N /\ j \in 1..N /\ i # N /\ j # 0 /\ i + 1 <= j
      BY <1>1, <1>3
    <2>2. Until(i) = tracklets[i + 1].start /\ Since(j) = tracklets[j].end
      BY <2>1 DEF Until, Since
    <2>3. /\ tracklets[i + 1].start < tracklets[i + 1].end
          /\ tracklets[i + 1].end <= tracklets[j].end
      BY <2>1, TrackletOrder
    <2>4. /\ tracklets[i + 1].start \in Nat /\ tracklets[i + 1].end \in Nat
          /\ tracklets[j].end \in Nat
      BY <2>1, TrackletOrder
    <2> QED
      BY <2>2, <2>3, <2>4
  <1> QED
    BY <1>2, <1>3

\* What one span and the next have between them.
Apart(x, y) == x.end <= y.start \/ y.end <= x.start
Distinct(x, y) == x.end = y.start => x.label # y.label \/ x.status # y.status

LEMMA RunsFacts ==
    ASSUME TimelineReady, NEW i \in Starts
    PROVE  /\ i \in 1..N /\ LastJoined(i) \in i..N /\ LastJoined(i) \in 1..N
           /\ RunOf(i).start = tracklets[i].start /\ RunOf(i).start \in Nat
           /\ RunOf(i).end = tracklets[LastJoined(i)].end /\ RunOf(i).end \in Nat
           /\ RunOf(i).label = labels[i] /\ RunOf(i).status = Status(i)
           /\ RunOf(i).start < RunOf(i).end /\ RunOf(i).end <= recording.duration
           /\ RunOf(i).label # "NON_SPEECH"
  <1>1. i \in 1..N /\ LastJoined(i) \in i..N /\ N \in Nat
    BY LastJoinedFacts, TrackletOrder DEF Starts
  <1>2. LastJoined(i) \in 1..N /\ i <= LastJoined(i)
    BY <1>1
  <1>3. /\ RunOf(i).start = tracklets[i].start
        /\ RunOf(i).end = tracklets[LastJoined(i)].end
        /\ RunOf(i).label = labels[i] /\ RunOf(i).status = Status(i)
    BY DEF RunOf, Span
  <1>4. /\ tracklets[i].start \in Nat /\ tracklets[i].end \in Nat
        /\ tracklets[i].start < tracklets[i].end
        /\ tracklets[LastJoined(i)].end \in Nat
        /\ tracklets[LastJoined(i)].end <= recording.duration
        /\ tracklets[i].end <= tracklets[LastJoined(i)].end
    BY <1>1, <1>2, TrackletOrder
  <1>5. labels[i] # "NON_SPEECH"
    <2>1. labels[i] \in Candidates
      BY <1>1, ElementOfSeq DEF TimelineReady
    <2> QED
      BY <2>1, CandidatesFacts DEF TimelineReady, SpeakerIds, Withheld
  <1> QED
    BY <1>1, <1>2, <1>3, <1>4, <1>5

LEMMA PausesFacts ==
    ASSUME TimelineReady, NEW i \in Gaps
    PROVE  /\ i \in 0..N /\ Since(i) < Until(i)
           /\ PauseOf(i).start = Since(i) /\ PauseOf(i).start \in Nat
           /\ PauseOf(i).end = Until(i) /\ PauseOf(i).end \in Nat
           /\ PauseOf(i).label = "NON_SPEECH" /\ PauseOf(i).status = "NON_SPEECH"
           /\ PauseOf(i).start < PauseOf(i).end /\ PauseOf(i).end <= recording.duration
  <1>1. i \in 0..N /\ Since(i) < Until(i)
    BY DEF Gaps
  <1>2. /\ PauseOf(i).start = Since(i) /\ PauseOf(i).end = Until(i)
        /\ PauseOf(i).label = "NON_SPEECH" /\ PauseOf(i).status = "NON_SPEECH"
    BY DEF PauseOf, Span
  <1> QED
    BY <1>1, <1>2, GapFacts

\* Two runs lie apart, and are two for a reason.
LEMMA RunsApart ==
    ASSUME TimelineReady, NEW i \in Starts, NEW j \in Starts, i < j
    PROVE  RunOf(i).end <= RunOf(j).start /\ Distinct(RunOf(i), RunOf(j))
           /\ RunOf(j).end # RunOf(i).start
  <1> DEFINE last == LastJoined(i)
  <1>1. /\ N \in Nat /\ i \in 1..N /\ j \in 1..N /\ last \in i..N /\ last \in 1..N
        /\ \A k \in (i + 1)..last : Joins(k)
        /\ ~Joins(j)
    BY RunsFacts, LastJoinedFacts, TrackletOrder DEF Starts
  <1>2. labels[last] = labels[i] /\ Status(last) = Status(i)
    <2>1. last \in i..last
      BY <1>1
    <2> QED
      BY <1>1, <2>1, ChainFacts
  <1>3. /\ RunOf(i).start = tracklets[i].start /\ RunOf(i).end = tracklets[last].end
        /\ RunOf(j).start = tracklets[j].start
        /\ RunOf(i).label = labels[i] /\ RunOf(i).status = Status(i)
        /\ RunOf(j).label = labels[j] /\ RunOf(j).status = Status(j)
        /\ RunOf(i).start < RunOf(i).end /\ RunOf(j).start < RunOf(j).end
        /\ RunOf(i).start \in Nat /\ RunOf(i).end \in Nat
        /\ RunOf(j).start \in Nat /\ RunOf(j).end \in Nat
    BY RunsFacts
  <1> HIDE DEF last
  <1>4. last < j
    <2>1. ~(j \in (i + 1)..last)
      BY <1>1
    <2> QED
      BY <1>1, <2>1
  <1>5. tracklets[last].end <= tracklets[j].start
    BY <1>1, <1>4, TrackletOrder
  <1>6. ASSUME tracklets[last].end = tracklets[j].start
        PROVE  labels[i] # labels[j] \/ Status(i) # Status(j)
    <2>1. last + 1 = j
      <3> SUFFICES ASSUME last + 1 < j
                   PROVE  FALSE
        BY <1>1, <1>4
      <3>1. last + 1 \in 1..N /\ last < last + 1
        BY <1>1, <1>4
      <3>2. /\ tracklets[last].end <= tracklets[last + 1].start
            /\ tracklets[last + 1].start < tracklets[last + 1].end
            /\ tracklets[last + 1].end <= tracklets[j].start
        BY <1>1, <3>1, TrackletOrder
      <3>3. /\ tracklets[last].end \in Nat /\ tracklets[last + 1].start \in Nat
            /\ tracklets[last + 1].end \in Nat /\ tracklets[j].start \in Nat
        BY <1>1, <3>1, TrackletOrder
      <3> QED
        BY <1>6, <3>2, <3>3
    <2>2. j - 1 = last /\ j > 1
      BY <1>1, <2>1
    <2>3. ~(labels[last] = labels[j] /\ Status(last) = Status(j))
      BY <1>1, <1>6, <2>2 DEF Joins
    <2> QED
      BY <1>2, <2>3
  <1>7. RunOf(j).end # RunOf(i).start
    BY <1>3, <1>5
  <1> QED
    BY <1>3, <1>5, <1>6, <1>7 DEF Distinct

\* A run and a pause lie apart.
LEMMA RunPauseApart ==
    ASSUME TimelineReady, NEW i \in Starts, NEW k \in Gaps
    PROVE  Apart(RunOf(i), PauseOf(k))
  <1> DEFINE last == LastJoined(i)
  <1>1. /\ N \in Nat /\ i \in 1..N /\ last \in i..N /\ last \in 1..N
        /\ RunOf(i).start = tracklets[i].start /\ RunOf(i).end = tracklets[last].end
    BY RunsFacts, TrackletOrder
  <1>2. /\ k \in 0..N /\ Since(k) < Until(k)
        /\ PauseOf(k).start = Since(k) /\ PauseOf(k).end = Until(k)
    BY PausesFacts
  <1> HIDE DEF last
  <1>3. CASE k < i
    <2>1. k # N /\ k + 1 \in 1..N /\ k + 1 <= i
      BY <1>1, <1>2, <1>3
    <2>2. Until(k) = tracklets[k + 1].start
      BY <2>1 DEF Until
    <2>3. tracklets[k + 1].start <= tracklets[i].start
      BY <1>1, <2>1, TrackletOrder
    <2> QED
      BY <1>1, <1>2, <2>2, <2>3 DEF Apart
  <1>4. CASE last <= k
    <2>1. k # 0 /\ k \in 1..N
      BY <1>1, <1>2, <1>4
    <2>2. Since(k) = tracklets[k].end
      BY <2>1 DEF Since
    <2>3. tracklets[last].end <= tracklets[k].end
      BY <1>1, <1>4, <2>1, TrackletOrder
    <2> QED
      BY <1>1, <1>2, <2>2, <2>3 DEF Apart
  <1>5. CASE i <= k /\ k < last
    <2>1. /\ k # 0 /\ k # N /\ k \in 1..N /\ k + 1 \in 1..N
          /\ k + 1 \in i..last /\ k + 1 # i /\ (k + 1) - 1 = k
      BY <1>1, <1>2, <1>5
    <2>2. tracklets[k].end = tracklets[k + 1].start
      BY <1>1, <2>1, ChainFacts DEF last
    <2>3. Since(k) = Until(k)
      BY <2>1, <2>2 DEF Since, Until
    <2>4. Since(k) \in Nat
      BY <1>2, GapFacts
    <2> QED
      BY <1>2, <2>3, <2>4
  <1> QED
    BY <1>1, <1>2, <1>3, <1>4, <1>5

\* The spans of the timeline, before they are put in order.
IsSpan(x) == /\ x.start \in Nat /\ x.end \in Nat /\ x.start < x.end
             /\ x.end <= recording.duration

LEMMA SpansFacts ==
    ASSUME TimelineReady
    PROVE  /\ \A x \in Runs \cup Pauses : (\E i \in Starts : x = RunOf(i))
                                            \/ \E k \in Gaps : x = PauseOf(k)
           /\ \A i \in Starts : RunOf(i) \in Runs \cup Pauses
           /\ \A k \in Gaps : PauseOf(k) \in Runs \cup Pauses
           /\ \A x \in Runs \cup Pauses : IsSpan(x)
           /\ \A x, y \in Runs \cup Pauses : x # y => Apart(x, y) /\ Distinct(x, y)
  <1>1. Runs = {RunOf(i) : i \in Starts} /\ Pauses = {PauseOf(k) : k \in Gaps}
    BY DEF Runs, Pauses, RunOf, PauseOf, Starts, Gaps
  <1>2. ASSUME NEW x \in Runs \cup Pauses
        PROVE  (\E i \in Starts : x = RunOf(i)) \/ \E k \in Gaps : x = PauseOf(k)
    BY <1>1
  <1>3. ASSUME NEW x \in Runs \cup Pauses
        PROVE  IsSpan(x)
    <2>1. CASE \E i \in Starts : x = RunOf(i)
      BY <2>1, RunsFacts DEF IsSpan
    <2>2. CASE \E k \in Gaps : x = PauseOf(k)
      BY <2>2, PausesFacts DEF IsSpan
    <2> QED
      BY <1>2, <2>1, <2>2
  <1>4. ASSUME NEW i \in Starts, NEW j \in Starts, RunOf(i) # RunOf(j)
        PROVE  Apart(RunOf(i), RunOf(j)) /\ Distinct(RunOf(i), RunOf(j))
    <2>1. i \in Nat /\ j \in Nat /\ (i < j \/ j < i)
      <3>1. i \in 1..N /\ j \in 1..N /\ N \in Nat /\ i # j
        BY <1>4, RunsFacts, TrackletOrder
      <3> QED
        BY <3>1
    <2>2. CASE i < j
      BY <2>2, RunsApart DEF Apart
    <2>3. CASE j < i
      BY <2>3, RunsApart DEF Apart, Distinct
    <2> QED
      BY <2>1, <2>2, <2>3
  <1>5. ASSUME NEW i \in Gaps, NEW j \in Gaps, PauseOf(i) # PauseOf(j)
        PROVE  Apart(PauseOf(i), PauseOf(j)) /\ Distinct(PauseOf(i), PauseOf(j))
    <2>1. /\ i \in 0..N /\ j \in 0..N
          /\ Since(i) < Until(i) /\ Since(j) < Until(j)
          /\ PauseOf(i).start = Since(i) /\ PauseOf(i).end = Until(i)
          /\ PauseOf(j).start = Since(j) /\ PauseOf(j).end = Until(j)
      BY PausesFacts
    <2>2. /\ Since(i) \in Nat /\ Until(i) \in Nat /\ Since(j) \in Nat /\ Until(j) \in Nat
          /\ i < j => Until(i) < Since(j)
          /\ j < i => Until(j) < Since(i)
      BY <2>1, GapFacts
    <2>3. i < j \/ j < i
      BY <1>5, <2>1
    <2> QED
      BY <2>1, <2>2, <2>3 DEF Apart, Distinct
  <1>6. ASSUME NEW i \in Starts, NEW k \in Gaps
        PROVE  /\ Apart(RunOf(i), PauseOf(k)) /\ Apart(PauseOf(k), RunOf(i))
               /\ Distinct(RunOf(i), PauseOf(k)) /\ Distinct(PauseOf(k), RunOf(i))
    <2>1. Apart(RunOf(i), PauseOf(k))
      BY RunPauseApart
    <2>2. RunOf(i).label # PauseOf(k).label
      BY RunsFacts, PausesFacts
    <2> QED
      BY <2>1, <2>2 DEF Apart, Distinct
  <1>7. ASSUME NEW x \in Runs \cup Pauses, NEW y \in Runs \cup Pauses, x # y
        PROVE  Apart(x, y) /\ Distinct(x, y)
    BY <1>2, <1>4, <1>5, <1>6, <1>7
  <1>8. /\ \A i \in Starts : RunOf(i) \in Runs \cup Pauses
        /\ \A k \in Gaps : PauseOf(k) \in Runs \cup Pauses
    BY <1>1
  <1> QED
    BY <1>2, <1>3, <1>7, <1>8

\* The timeline lists them all, in the order of time.
LEMMA MaterializedFacts ==
    ASSUME TimelineReady
    PROVE  LET n == Cardinality(Runs \cup Pauses)
           IN  /\ n \in Nat /\ DOMAIN Materialized = 1..n /\ Len(Materialized) = n
               /\ \A k \in 1..n : Materialized[k] \in Runs \cup Pauses
               /\ \A x \in Runs \cup Pauses : \E k \in 1..n : Materialized[k] = x
               /\ \A k, l \in 1..n : k < l => Materialized[k].start < Materialized[l].start
  <1> DEFINE S == Runs \cup Pauses
             n == Cardinality(S)
  <1>1. \A x \in S : IsSpan(x)
    BY SpansFacts
  <1>2. ASSUME NEW x \in S, NEW y \in S, x.start = y.start
        PROVE  x = y
    <2>1. x # y => Apart(x, y)
      BY SpansFacts
    <2> HIDE DEF S
    <2>2. IsSpan(x) /\ IsSpan(y)
      BY <1>1
    <2>3. ~Apart(x, y)
      BY <1>2, <2>2 DEF IsSpan, Apart
    <2> QED
      BY <2>1, <2>3
  <1>3. recording.duration \in Nat
    BY DEF TimelineReady
  <1>4. Materialized = InOrder(S)
    BY DEF Materialized
  <1> HIDE DEF S
  <1>5. \A x \in S : x.start \in 0..recording.duration /\ x.start \in Nat
    BY <1>1, <1>3 DEF IsSpan
  <1>6. IsFiniteSet(S)
    BY <1>2, <1>3, <1>5, FinitelyMany
  <1>7. /\ n \in Nat /\ InOrder(S) \in [1..n -> S]
        /\ \A x \in S : \E k \in 1..n : InOrder(S)[k] = x
        /\ \A k, l \in 1..n : k < l => InOrder(S)[k].start < InOrder(S)[l].start
    BY <1>2, <1>5, <1>6, InOrderFacts
  <1> HIDE DEF n
  <1>8. InOrder(S) \in Seq(S) /\ DOMAIN InOrder(S) = 1..n
    BY <1>7, SeqDef
  <1>9. Len(InOrder(S)) = n
    BY <1>7, <1>8, LenProperties
  <1> QED
    BY <1>4, <1>7, <1>8, <1>9 DEF S, n

\* Every instant of speech is in the run of its tracklet and in no other span.
LEMMA SaidOfSpeech ==
    ASSUME TimelineReady, NEW t \in Nat, NEW j \in 1..N, Covers(tracklets[j], t)
    PROVE  \E x \in Runs \cup Pauses :
             /\ Covers(x, t) /\ x.label = labels[j] /\ x.status = Status(j)
             /\ \A y \in Runs \cup Pauses : Covers(y, t) => y = x
  <1>1. PICK i \in Starts : j \in i..LastJoined(i)
    BY CoveredByRun
  <1> DEFINE x == RunOf(i)
  <1>2. Covers(x, t)
    BY <1>1, CoversRun
  <1>3. i \in 1..N /\ x.label = labels[i] /\ x.status = Status(i)
    BY <1>1, RunsFacts
  <1>4. labels[j] = labels[i] /\ Status(j) = Status(i)
    BY <1>1, <1>3, ChainFacts
  <1>5. x \in Runs \cup Pauses /\ IsSpan(x)
    BY <1>1, SpansFacts
  <1> HIDE DEF x
  <1>6. ASSUME NEW y \in Runs \cup Pauses, Covers(y, t)
        PROVE  y = x
    <2>1. IsSpan(y) /\ (y # x => Apart(y, x))
      BY <1>5, SpansFacts
    <2>2. ~Apart(y, x)
      BY <1>2, <1>5, <1>6, <2>1 DEF Apart, Covers, IsSpan
    <2> QED
      BY <2>1, <2>2
  <1> QED
    BY <1>2, <1>3, <1>4, <1>5, <1>6

\* An instant without speech is in no run, and in a pause where pauses are wanted.
LEMMA SaidOfSilence ==
    ASSUME TimelineReady, NEW t \in Nat, t < recording.duration,
           \A j \in 1..N : ~Covers(tracklets[j], t)
    PROVE  /\ \A x \in Runs \cup Pauses : Covers(x, t) =>
                /\ x.label = "NON_SPEECH" /\ x.status = "NON_SPEECH"
                /\ Cfg.include_non_speech
           /\ Cfg.include_non_speech => \E x \in Runs \cup Pauses : Covers(x, t)
  <1>1. ASSUME NEW x \in Runs \cup Pauses, Covers(x, t)
        PROVE  x.label = "NON_SPEECH" /\ x.status = "NON_SPEECH" /\ Cfg.include_non_speech
    <2>1. CASE \E i \in Starts : x = RunOf(i)
      <3>1. PICK i \in Starts : x = RunOf(i)
        BY <2>1
      <3>2. PICK j \in i..LastJoined(i) : Covers(tracklets[j], t)
        BY <1>1, <3>1, RunCovers
      <3>3. i \in 1..N
        BY RunsFacts
      <3>4. j \in 1..N
        BY <3>2, <3>3, ChainFacts
      <3> QED
        BY <3>2, <3>4
    <2>2. CASE \E k \in Gaps : x = PauseOf(k)
      BY <2>2, PausesFacts DEF Gaps
    <2> QED
      BY <2>1, <2>2, SpansFacts
  <1>2. ASSUME Cfg.include_non_speech
        PROVE  \E x \in Runs \cup Pauses : Covers(x, t)
    <2> DEFINE T == {k \in 0..N : Since(k) <= t}
    <2>1. N \in Nat /\ Since(0) = 0
      BY TrackletOrder DEF Since
    <2>2. PICK k \in T : \A m \in T : m <= k
      <3>1. T \subseteq Nat /\ T # {} /\ \A m \in T : m <= N
        BY <2>1
      <3> HIDE DEF T
      <3> QED
        BY <2>1, <3>1, GreatestNumber
    <2>3. k \in 0..N /\ Since(k) <= t
      BY <2>2
    <2>4. t < Until(k)
      <3>1. CASE k = N
        BY <3>1 DEF Until
      <3>2. CASE k # N
        <4>1. k + 1 \in 1..N /\ k + 1 \in 0..N /\ k + 1 # 0 /\ ~(k + 1 <= k)
          BY <2>1, <2>3, <3>2
        <4>2. ~(Since(k + 1) <= t)
          BY <2>2, <4>1
        <4>3. Since(k + 1) = tracklets[k + 1].end /\ Until(k) = tracklets[k + 1].start
          BY <3>2, <4>1 DEF Since, Until
        <4>4. tracklets[k + 1].end \in Nat /\ tracklets[k + 1].start \in Nat
          BY <4>1, TrackletOrder
        <4>5. t < tracklets[k + 1].end
          BY <4>2, <4>3, <4>4
        <4>6. ~(tracklets[k + 1].start <= t)
          BY <4>1, <4>5 DEF Covers
        <4> QED
          BY <4>3, <4>4, <4>6
      <3> QED
        BY <3>1, <3>2
    <2>5. Since(k) \in Nat /\ Until(k) \in Nat
      BY <2>3, GapFacts
    <2>6. k \in Gaps
      BY <1>2, <2>3, <2>4, <2>5 DEF Gaps
    <2>7. Covers(PauseOf(k), t) /\ PauseOf(k) \in Runs \cup Pauses
      BY <2>3, <2>4, <2>6, SpansFacts DEF PauseOf, Span, Covers
    <2> QED
      BY <2>7
  <1> QED
    BY <1>1, <1>2

LEMMA TimelineFromInv ==
    ASSUME DecoderInv
    PROVE  TimelineFaithful
  <1> SUFFICES ASSUME stage = "done"
               PROVE  TimelineFaithful
    BY DEF TimelineFaithful
  <1> DEFINE S == Runs \cup Pauses
             n == Cardinality(S)
  <1>1. /\ Tracklets(recording, tracklets) /\ recording \in Recordings /\ decision \in Decisions
        /\ labels \in Seq(Candidates) /\ Len(labels) = N /\ spans = Materialized
    BY DEF DecoderInv, TypesOK, StagesOK, TraceOK
  <1>2. TimelineReady
    BY <1>1, RegionFacts DEF TimelineReady
  <1>3. /\ n \in Nat /\ DOMAIN spans = 1..n /\ Len(spans) = n
        /\ \A k \in 1..n : spans[k] \in S
        /\ \A x \in S : \E k \in 1..n : spans[k] = x
        /\ \A k, l \in 1..n : k < l => spans[k].start < spans[l].start
    BY <1>1, <1>2, MaterializedFacts
  <1>4. /\ \A x \in S : IsSpan(x)
        /\ \A x, y \in S : x # y => Apart(x, y) /\ Distinct(x, y)
    BY <1>2, SpansFacts
  <1>5. /\ \A t \in Nat, j \in 1..N : Covers(tracklets[j], t) =>
             \E x \in S : /\ Covers(x, t) /\ x.label = labels[j] /\ x.status = Status(j)
                          /\ \A y \in S : Covers(y, t) => y = x
        /\ \A t \in Nat : t < recording.duration /\ (\A j \in 1..N : ~Covers(tracklets[j], t)) =>
             /\ \A x \in S : Covers(x, t) => /\ x.label = "NON_SPEECH" /\ x.status = "NON_SPEECH"
                                             /\ Cfg.include_non_speech
             /\ Cfg.include_non_speech => \E x \in S : Covers(x, t)
    BY <1>2, SaidOfSpeech, SaidOfSilence
  <1> HIDE DEF S, n
  <1>6. ASSUME NEW t \in Instants
        PROVE  t \in Nat /\ t < recording.duration
    <2>1. t < recording.duration
      BY DEF Instants
    <2>2. CASE t = 0
      BY <2>1, <2>2
    <2>3. CASE t # 0
      <3>1. PICK x \in ToSet(tracklets) \cup ToSet(spans) : t \in {x.start, x.end}
        BY <2>3 DEF Instants
      <3>2. CASE x \in ToSet(tracklets)
        <4>1. PICK i \in DOMAIN tracklets : x = tracklets[i]
          BY <3>2 DEF ToSet
        <4>2. i \in 1..N
          BY <1>1, LenProperties DEF Tracklets, N
        <4> QED
          BY <1>2, <2>1, <3>1, <4>1, <4>2, TrackletOrder
      <3>3. CASE x \in ToSet(spans)
        <4>1. PICK k \in DOMAIN spans : x = spans[k]
          BY <3>3 DEF ToSet
        <4> QED
          BY <1>3, <1>4, <2>1, <3>1, <4>1 DEF IsSpan
      <3> QED
        BY <3>1, <3>2, <3>3
    <2> QED
      BY <2>2, <2>3
  <1>7. ASSUME NEW t \in Instants
        PROVE  LET at == {i \in 1..N : Covers(tracklets[i], t)}
                   said == {<< spans[k].label, spans[k].status >> :
                              k \in {k \in DOMAIN spans : Covers(spans[k], t)}}
               IN  said = IF at # {} THEN {<< labels[i], Status(i) >> : i \in at}
                          ELSE IF Cfg.include_non_speech
                            THEN {<< "NON_SPEECH", "NON_SPEECH" >>}
                          ELSE {}
    <2> DEFINE at == {i \in 1..N : Covers(tracklets[i], t)}
               said == {<< spans[k].label, spans[k].status >> :
                          k \in {k \in DOMAIN spans : Covers(spans[k], t)}}
    <2>1. t \in Nat /\ t < recording.duration
      BY <1>6
    <2>2. said = {<< x.label, x.status >> : x \in {x \in S : Covers(x, t)}}
      <3>1. ASSUME NEW k \in DOMAIN spans, Covers(spans[k], t)
            PROVE  spans[k] \in {x \in S : Covers(x, t)}
        BY <1>3, <3>1
      <3>2. ASSUME NEW x \in S, Covers(x, t)
            PROVE  \E k \in DOMAIN spans : Covers(spans[k], t) /\ spans[k] = x
        BY <1>3, <3>2
      <3> QED
        BY <3>1, <3>2
    <2>3. CASE at # {}
      <3>1. ASSUME NEW j \in at, NEW l \in at
            PROVE  << labels[j], Status(j) >> = << labels[l], Status(l) >>
        BY <1>5, <2>1
      <3>2. PICK j \in at : TRUE
        BY <2>3
      <3>3. PICK x \in S : /\ Covers(x, t) /\ x.label = labels[j] /\ x.status = Status(j)
                           /\ \A y \in S : Covers(y, t) => y = x
        BY <1>5, <2>1, <3>2
      <3> HIDE DEF at, said
      <3>4. {y \in S : Covers(y, t)} = {x}
        BY <3>3
      <3>5. said = {<< labels[j], Status(j) >>}
        BY <2>2, <3>3, <3>4
      <3>6. {<< labels[i], Status(i) >> : i \in at} = {<< labels[j], Status(j) >>}
        BY <3>1, <3>2
      <3>7. said = {<< labels[i], Status(i) >> : i \in at}
        BY <3>5, <3>6
      <3> QED
        BY <2>3, <3>7 DEF at, said
    <2>4. CASE at = {}
      <3>1. \A j \in 1..N : ~Covers(tracklets[j], t)
        BY <2>4
      <3>2. /\ \A x \in S : Covers(x, t) => /\ x.label = "NON_SPEECH" /\ x.status = "NON_SPEECH"
                                            /\ Cfg.include_non_speech
            /\ Cfg.include_non_speech => \E x \in S : Covers(x, t)
        BY <1>5, <2>1, <3>1
      <3> HIDE DEF said
      <3>3. CASE Cfg.include_non_speech
        <4>1. said = {<< "NON_SPEECH", "NON_SPEECH" >>}
          BY <2>2, <3>2, <3>3
        <4> QED
          BY <2>4, <3>3, <4>1 DEF said
      <3>4. CASE ~Cfg.include_non_speech
        <4>1. said = {}
          BY <2>2, <3>2, <3>4
        <4> QED
          BY <2>4, <3>4, <4>1 DEF said
      <3> QED
        BY <3>3, <3>4
    <2> QED
      BY <2>3, <2>4
  <1>8. ASSUME NEW k \in 2..Len(spans)
        PROVE  /\ spans[k-1].end <= spans[k].start
               /\ \/ spans[k-1].end < spans[k].start
                  \/ spans[k-1].label # spans[k].label
                  \/ spans[k-1].status # spans[k].status
    <2> DEFINE x == spans[k-1]
               y == spans[k]
    <2>1. k - 1 \in 1..n /\ k \in 1..n /\ k - 1 < k
      BY <1>3
    <2>2. x \in S /\ y \in S /\ x.start < y.start
      BY <1>3, <2>1
    <2> HIDE DEF x, y
    <2>3. IsSpan(x) /\ IsSpan(y)
      BY <1>4, <2>2
    <2>4. x # y
      BY <2>2, <2>3 DEF IsSpan
    <2>5. Apart(x, y) /\ Distinct(x, y)
      BY <1>4, <2>2, <2>4
    <2>6. x.end <= y.start /\ (x.end < y.start \/ x.label # y.label \/ x.status # y.status)
      BY <2>2, <2>3, <2>5 DEF IsSpan, Apart, Distinct
    <2> QED
      BY <2>6 DEF x, y
  <1> QED
    BY <1>7, <1>8 DEF TimelineFaithful

-----------------------------------------------------------------------------
(* Every step keeps the invariant *)

LEMMA EmptyFacts == \A S : << >> \in Seq(S) /\ Len(<< >>) = 0
  BY EmptySeq

LEMMA InitOK == Init => DecoderInv
  <1> SUFFICES ASSUME Init
               PROVE  DecoderInv
    OBVIOUS
  <1>1. /\ stage = "building" /\ tracklets = << >> /\ distance = << >> /\ labels = << >>
        /\ cost = << >> /\ back = << >> /\ cursor = 2 /\ recording \in Recordings
        /\ decision = "UNCERTAIN_1_OR_2" /\ soft = FALSE
    BY DEF Init
  <1>2. TypesOK
    <2>1. distance \in Seq(Evidence \cup {Invalid})
      BY <1>1, EmptyFacts
    <2>2. cursor \in Nat /\ cursor >= 2
      BY <1>1
    <2> QED
      BY <1>1, <2>1, <2>2 DEF TypesOK, Decisions, Stages
  <1>3. StagesOK
    BY <1>1 DEF StagesOK, Decoded
  <1>4. ScoresOK
    BY <1>1, EmptyFacts DEF ScoresOK
  <1>5. TraceOK
    BY <1>1, EmptyFacts DEF TraceOK
  <1>6. EligibleOK /\ RepairOK
    BY <1>1 DEF EligibleOK, RepairOK, Decoded
  <1> QED
    BY <1>2, <1>3, <1>4, <1>5, <1>6 DEF DecoderInv

\* Columns stay what they are when nothing they are made of changes.
LEMMA ScoresStay ==
    ASSUME ScoresOK, UNCHANGED << decision, soft, tracklets, distance, cost, back >>
    PROVE  ScoresOK'
  <1>1. /\ N' = N /\ Candidates' = Candidates
        /\ \A i, q : Emission(i, q)' = Emission(i, q)
        /\ \A i, p, q : Transition(i, p, q)' = Transition(i, p, q)
    BY CostsStay
  <1>2. \A i, p, q : Price(i, p, q)' = Price(i, p, q)
    BY <1>1 DEF Price
  <1>3. \A i : ColumnOK(i)' = ColumnOK(i)
    BY <1>1, <1>2 DEF ColumnOK
  <1> QED
    BY <1>1, <1>3 DEF ScoresOK

LEMMA BuildOK ==
    ASSUME DecoderInv, Build
    PROVE  DecoderInv'
  <1>1. /\ stage = "building" /\ stage' = "embedding"
        /\ tracklets' = BuildTracklets(recording.regions)
        /\ UNCHANGED << recording, decision, soft, distance, cost, back, labels, cursor, spans >>
    BY DEF Build, input, dp
  <1>2. /\ recording \in Recordings /\ distance = << >> /\ cost = << >> /\ back = << >>
        /\ labels = << >> /\ cursor = 2
    BY <1>1 DEF DecoderInv, TypesOK, StagesOK, Decoded
  <1>3. TypesOK'
    BY <1>1 DEF DecoderInv, TypesOK, Stages
  <1>4. Tracklets(recording, tracklets)'
    BY <1>1, <1>2, BuildFacts DEF Tracklets
  <1>5. StagesOK'
    BY <1>1, <1>2, <1>4 DEF StagesOK, Decoded
  <1>6. ScoresOK'
    BY <1>1, <1>2, EmptyFacts DEF ScoresOK
  <1>7. TraceOK'
    BY <1>1, <1>2, EmptyFacts DEF TraceOK
  <1>8. EligibleOK' /\ RepairOK'
    BY <1>1 DEF EligibleOK, RepairOK, Decoded
  <1> QED
    BY <1>3, <1>5, <1>6, <1>7, <1>8 DEF DecoderInv

LEMMA EmbedOK ==
    ASSUME DecoderInv, Embed
    PROVE  DecoderInv'
  <1>1. PICK d \in Evidence \cup {Invalid} :
          /\ stage = "embedding" /\ stage' = "embedding" /\ distance' = Append(distance, d)
          /\ UNCHANGED << recording, decision, soft, tracklets, cost, back, labels, cursor, spans >>
    BY DEF Embed, input, dp
  <1>2. /\ cost = << >> /\ back = << >> /\ labels = << >> /\ cursor = 2
        /\ Tracklets(recording, tracklets)
    BY <1>1 DEF DecoderInv, StagesOK, Decoded
  <1>3. TypesOK'
    BY <1>1, AppendProperties DEF DecoderInv, TypesOK
  <1>4. Tracklets(recording, tracklets)'
    BY <1>1, <1>2 DEF Tracklets
  <1>5. StagesOK'
    BY <1>1, <1>2, <1>4 DEF StagesOK, Decoded
  <1>6. ScoresOK'
    BY <1>1, <1>2, EmptyFacts DEF ScoresOK
  <1>7. TraceOK'
    BY <1>1, <1>2, EmptyFacts DEF TraceOK
  <1>8. EligibleOK' /\ RepairOK'
    BY <1>1 DEF EligibleOK, RepairOK, Decoded
  <1> QED
    BY <1>3, <1>5, <1>6, <1>7, <1>8 DEF DecoderInv

LEMMA DecideOK ==
    ASSUME DecoderInv, Decide
    PROVE  DecoderInv'
  <1>1. /\ stage = "embedding" /\ stage' \in {"repairing", "scoring"} /\ Len(distance) = N
        /\ stage' = IF N = 0 THEN "repairing" ELSE "scoring"
        /\ decision' \in Decisions /\ soft' \in BOOLEAN
        /\ UNCHANGED << recording, tracklets, distance, cost, back, labels, cursor, spans >>
    BY DEF Decide, dp, Decisions
  <1>2. /\ cost = << >> /\ back = << >> /\ labels = << >> /\ cursor = 2
        /\ Tracklets(recording, tracklets)
    BY <1>1 DEF DecoderInv, StagesOK, Decoded
  <1>3. TypesOK'
    BY <1>1 DEF DecoderInv, TypesOK, Stages
  <1>4. Tracklets(recording, tracklets)' /\ N' = N /\ N \in Nat
    BY <1>1, <1>2, TrackletFacts DEF Tracklets, N
  <1>5. Len(cost') = 0 /\ Len(labels') = 0
    BY <1>1, <1>2
  <1>6. StagesOK'
    BY <1>1, <1>2, <1>4, <1>5 DEF StagesOK, Decoded
  <1>7. ScoresOK'
    BY <1>1, <1>2, EmptyFacts DEF ScoresOK
  <1>8. TraceOK'
    BY <1>1, <1>2, EmptyFacts DEF TraceOK
  <1>9. EligibleOK'
    BY <1>5 DEF EligibleOK
  <1>10. RepairOK'
    BY <1>1, <1>4 DEF RepairOK
  <1> QED
    BY <1>3, <1>6, <1>7, <1>8, <1>9, <1>10 DEF DecoderInv

\* What one step of the forward pass appends.
Column(i) ==
    IF i = 1 THEN [q \in Candidates |-> Emission(1, q)]
    ELSE [q \in Candidates |-> Price(i, Cheapest([p \in Candidates |-> Price(i, p, q)]), q)]
Pointers(i) ==
    IF i = 1 THEN [q \in Candidates |-> "UNKNOWN"]
    ELSE [q \in Candidates |-> Cheapest([p \in Candidates |-> Price(i, p, q)])]

LEMMA ColumnFacts ==
    ASSUME DecoderReady, ScoresOK, NEW i \in 1..N, Len(cost) = i - 1
    PROVE  /\ Column(i) \in [Candidates -> Costs]
           /\ Pointers(i) \in [Candidates -> Candidates]
           /\ i > 1 => \A q \in Candidates :
                /\ Column(i)[q] = Price(i, Pointers(i)[q], q)
                /\ \A p \in Candidates : AtMost(Column(i)[q], Price(i, p, q))
  <1>1. \A q \in Candidates : Emission(i, q) \in Costs
    BY EmissionFacts DEF DecoderReady
  <1>2. decision \in Decisions /\ N \in Nat
    BY TrackletFacts DEF DecoderReady, TypesOK
  <1>3. CASE i = 1
    <2>1. "UNKNOWN" \in Candidates
      BY <1>2, CandidatesFacts
    <2> QED
      BY <1>1, <1>3, <2>1 DEF Column, Pointers
  <1>4. CASE i > 1
    <2>1. i - 1 \in 1..Len(cost) /\ i \in 2..N
      BY <1>2, <1>4
    <2>2. cost[i-1] \in [Candidates -> Costs]
      BY <2>1, ElementOfSeq DEF ScoresOK
    <2>3. ASSUME NEW p \in Candidates, NEW q \in Candidates
          PROVE  Price(i, p, q) \in Costs
      <3>1. cost[i-1][p] \in Costs
        BY <2>2
      <3>2. Transition(i, p, q) \in Costs
        BY <2>1, TransitionFacts DEF DecoderReady
      <3>3. Plus(cost[i-1][p], Transition(i, p, q)) \in Costs
        BY <3>1, <3>2, PlusFacts
      <3>4. Emission(i, q) \in Costs
        BY <1>1
      <3> QED
        BY <3>3, <3>4, PlusFacts DEF Price
    <2>4. ASSUME NEW q \in Candidates
          PROVE  /\ Cheapest([p \in Candidates |-> Price(i, p, q)]) \in Candidates
                 /\ \A p \in Candidates :
                      AtMost(Price(i, Cheapest([r \in Candidates |-> Price(i, r, q)]), q), Price(i, p, q))
      <3> DEFINE price == [p \in Candidates |-> Price(i, p, q)]
                 best == Cheapest(price)
      <3>1. price \in [Candidates -> Costs]
        BY <2>3
      <3>2. \A p \in Candidates : price[p] = Price(i, p, q)
        OBVIOUS
      <3> HIDE DEF price
      <3>3. IsCheapest(best, price)
        BY <1>2, <3>1, CheapestFacts
      <3> HIDE DEF best
      <3>4. best \in Candidates /\ \A p \in Candidates : AtMost(price[best], price[p])
        BY <3>3 DEF IsCheapest, AtMost
      <3>5. best \in Candidates /\ \A p \in Candidates : AtMost(Price(i, best, q), Price(i, p, q))
        BY <3>2, <3>4
      <3> QED
        BY <3>5 DEF best, price
    <2> DEFINE best == [q \in Candidates |-> Cheapest([p \in Candidates |-> Price(i, p, q)])]
    <2>5. /\ \A q \in Candidates : best[q] \in Candidates
          /\ \A p, q \in Candidates : AtMost(Price(i, best[q], q), Price(i, p, q))
      BY <2>4
    <2>6. best \in [Candidates -> Candidates]
      BY <2>4
    <2>7. Pointers(i) = best /\ Column(i) = [q \in Candidates |-> Price(i, best[q], q)]
      <3>1. Pointers(i) = best
        BY <1>4 DEF Pointers
      <3>2. Column(i) = [q \in Candidates |->
                           Price(i, Cheapest([p \in Candidates |-> Price(i, p, q)]), q)]
        BY <1>4 DEF Column
      <3>3. \A q \in Candidates : best[q] = Cheapest([p \in Candidates |-> Price(i, p, q)])
        OBVIOUS
      <3> HIDE DEF best
      <3> QED
        BY <3>1, <3>2, <3>3
    <2> HIDE DEF best
    <2>8. Column(i) \in [Candidates -> Costs]
      BY <2>3, <2>5, <2>7
    <2> QED
      BY <2>5, <2>6, <2>7, <2>8
  <1> QED
    BY <1>2, <1>3, <1>4

LEMMA ScoreStep ==
    ASSUME DecoderReady, ScoresOK, Len(cost) < N, Score
    PROVE  /\ stage = "scoring"
           /\ cost' = Append(cost, Column(Len(cost) + 1))
           /\ back' = Append(back, Pointers(Len(cost) + 1))
           /\ stage' = IF Len(cost) + 1 = N THEN "tracing" ELSE "scoring"
           /\ UNCHANGED << recording, decision, soft, tracklets, distance, labels, cursor, spans >>
  <1> DEFINE i == Len(cost) + 1
             emission == [q \in Candidates |-> Emission(i, q)]
             price == [q \in Candidates |-> [p \in Candidates |->
                         Plus(Plus(cost[i-1][p], Transition(i, p, q)), emission[q])]]
             best == [q \in Candidates |-> Cheapest(price[q])]
  <1>1. /\ stage = "scoring"
        /\ IF i = 1
             THEN /\ cost' = << emission >>
                  /\ back' = << [q \in Candidates |-> "UNKNOWN"] >>
             ELSE /\ cost' = Append(cost, [q \in Candidates |-> price[q][best[q]]])
                  /\ back' = Append(back, best)
        /\ stage' = IF i = N THEN "tracing" ELSE "scoring"
        /\ UNCHANGED << recording, decision, soft, tracklets, distance, labels, cursor, spans >>
    BY DEF Score, input
  <1>2. Len(cost) \in Nat /\ i \in 1..N /\ Len(back) = Len(cost)
    BY TrackletFacts DEF DecoderReady, ScoresOK
  <1>3. Pointers(i) \in [Candidates -> Candidates]
    BY <1>2, ColumnFacts
  <1>4. CASE i = 1
    <2>1. emission = Column(i) /\ Pointers(i) = [q \in Candidates |-> "UNKNOWN"]
      BY <1>4 DEF Column, Pointers
    <2>2. cost = << >> /\ back = << >>
      BY <1>2, <1>4, EmptySeq DEF ScoresOK
    <2>3. cost' = << Column(i) >> /\ back' = << Pointers(i) >>
      BY <1>1, <1>4, <2>1
    <2> HIDE DEF i
    <2>4. cost' = Append(cost, Column(i)) /\ back' = Append(back, Pointers(i))
      BY <2>2, <2>3
    <2> QED
      BY <1>1, <2>4 DEF i
  <1>5. CASE i # 1
    <2>1. \A q \in Candidates : price[q] = [p \in Candidates |-> Price(i, p, q)]
      BY DEF Price
    <2>2. best = Pointers(i)
      <3> HIDE DEF price, i
      <3> QED
        BY <1>5, <2>1 DEF Pointers
    <2>3. \A q \in Candidates : best[q] = Cheapest([p \in Candidates |-> Price(i, p, q)])
      <3> HIDE DEF price, i
      <3> QED
        BY <2>1
    <2>4. \A q \in Candidates : best[q] \in Candidates
      <3> HIDE DEF best, i
      <3> QED
        BY <1>3, <2>2
    <2> HIDE DEF best, price
    <2>5. \A q \in Candidates :
            price[q][best[q]] = Price(i, Cheapest([p \in Candidates |-> Price(i, p, q)]), q)
      <3> HIDE DEF i
      <3> QED
        BY <2>1, <2>3, <2>4
    <2>6. Column(i) = [q \in Candidates |->
                         Price(i, Cheapest([p \in Candidates |-> Price(i, p, q)]), q)]
      <3> HIDE DEF i
      <3> QED
        BY <1>5 DEF Column
    <2>7. [q \in Candidates |-> price[q][best[q]]] = Column(i)
      <3> HIDE DEF i
      <3> QED
        BY <2>5, <2>6
    <2> HIDE DEF i
    <2>8. cost' = Append(cost, Column(i)) /\ back' = Append(back, Pointers(i))
      BY <1>1, <1>5, <2>2, <2>7
    <2> QED
      BY <1>1, <2>8 DEF i
  <1> QED
    BY <1>4, <1>5

LEMMA ScoreOK ==
    ASSUME DecoderInv, Score
    PROVE  DecoderInv'
  <1> DEFINE i == Len(cost) + 1
  <1>1. stage = "scoring" /\ stage \in Decoded
    BY DEF Score, Decoded
  <1>2. /\ labels = << >> /\ cursor = 2 /\ Len(distance) = N /\ Len(cost) < N
        /\ Tracklets(recording, tracklets) /\ ScoresOK
    BY <1>1 DEF DecoderInv, StagesOK
  <1>3. N \in Nat /\ Len(cost) \in Nat /\ N > 0 /\ i \in 1..N
    BY <1>2, TrackletFacts DEF ScoresOK
  <1>4. DecoderReady
    BY <1>1, <1>3, InvReady
  <1>5. /\ cost' = Append(cost, Column(i)) /\ back' = Append(back, Pointers(i))
        /\ stage' = IF i = N THEN "tracing" ELSE "scoring"
        /\ UNCHANGED << recording, decision, soft, tracklets, distance, labels, cursor, spans >>
    BY <1>2, <1>4, ScoreStep
  <1>6. /\ Column(i) \in [Candidates -> Costs]
        /\ Pointers(i) \in [Candidates -> Candidates]
        /\ i > 1 => \A q \in Candidates :
             /\ Column(i)[q] = Price(i, Pointers(i)[q], q)
             /\ \A p \in Candidates : AtMost(Column(i)[q], Price(i, p, q))
    BY <1>2, <1>3, <1>4, ColumnFacts
  <1>7. /\ N' = N /\ Candidates' = Candidates
        /\ \A k, q : Emission(k, q)' = Emission(k, q)
        /\ \A k, p, q : Transition(k, p, q)' = Transition(k, p, q)
    BY <1>5, CostsStay
  <1> HIDE DEF i
  <1>8. /\ cost' \in Seq([Candidates -> Costs]) /\ Len(cost') = Len(cost) + 1
        /\ back' \in Seq([Candidates -> Candidates]) /\ Len(back') = Len(back) + 1
        /\ \A k \in 1..Len(cost) : cost'[k] = cost[k] /\ back'[k] = back[k]
        /\ cost'[Len(cost) + 1] = Column(i) /\ back'[Len(back) + 1] = Pointers(i)
    BY <1>2, <1>5, <1>6, AppendProperties DEF ScoresOK
  <1>9. Len(cost) = Len(back) /\ i = Len(cost) + 1
    BY <1>2 DEF ScoresOK, i
  <1>10. \A k \in 2..i : \A p, q : Price(k, p, q)' = Price(k, p, q)
    <2>1. \A k \in 2..i : k - 1 \in 1..Len(cost)
      BY <1>3, <1>9
    <2>2. \A k \in 2..i : cost'[k-1] = cost[k-1]
      BY <1>8, <2>1
    <2> QED
      BY <1>7, <2>2 DEF Price
  <1>11. ASSUME NEW k \in 1..Len(cost')
         PROVE  ColumnOK(k)'
    <2>1. k \in 1..i /\ (k > 1 => k \in 2..i)
      BY <1>3, <1>8, <1>9
    <2>2. CASE k < i
      <3>1. k \in 1..Len(cost) /\ cost'[k] = cost[k] /\ back'[k] = back[k]
        BY <1>3, <1>8, <1>9, <2>1, <2>2
      <3>2. ColumnOK(k)
        BY <1>2, <3>1 DEF ScoresOK
      <3>3. k = 1 => cost'[1] = cost[1]
        BY <3>1
      <3> QED
        BY <1>7, <1>10, <2>1, <3>1, <3>2, <3>3 DEF ColumnOK
    <2>3. CASE k = i
      <3>1. cost'[k] = Column(i) /\ back'[k] = Pointers(i)
        BY <1>8, <1>9, <2>3
      <3>2. k = 1 => Column(i) = [q \in Candidates |-> Emission(1, q)]
        BY <2>3 DEF Column
      <3>3. k = 1 => cost'[1] = [q \in Candidates' |-> Emission(1, q)']
        BY <1>7, <3>1, <3>2
      <3>4. k > 1 => \A p, q \in Candidates :
               /\ back'[k][q] = p => cost'[k][q] = Price(k, p, q)
               /\ AtMost(cost'[k][q], Price(k, p, q))
        BY <1>6, <2>3, <3>1
      <3>5. \A a, b : AtMost(a, b)' = AtMost(a, b)
        BY DEF AtMost, Less
      <3>6. k > 1 => \A p, q : Price(k, p, q)' = Price(k, p, q)
        BY <1>10, <2>1
      <3>7. k > 1 => \A p, q \in Candidates' :
               /\ back'[k][q] = p => cost'[k][q] = Price(k, p, q)'
               /\ AtMost(cost'[k][q], Price(k, p, q)')
        BY <1>7, <3>4, <3>6
      <3> QED
        BY <3>3, <3>7 DEF ColumnOK, AtMost, Less
    <2> QED
      BY <1>3, <2>1, <2>2, <2>3
  <1>12. ScoresOK'
    BY <1>7, <1>8, <1>9, <1>11 DEF ScoresOK
  <1>13. TypesOK'
    BY <1>5 DEF DecoderInv, TypesOK, Stages
  <1>14. Tracklets(recording, tracklets)'
    BY <1>2, <1>5 DEF Tracklets
  <1>15. StagesOK'
    <2>1. stage' \in {"tracing", "scoring"} /\ Len(cost') = i /\ i <= N /\ Len(labels') = 0
      BY <1>2, <1>3, <1>5, <1>8, <1>9
    <2>2. stage' = "scoring" => Len(cost') < N
      BY <1>3, <1>5, <2>1
    <2>3. stage' = "tracing" => Len(cost') = N
      BY <1>5, <2>1
    <2> QED
      BY <1>2, <1>3, <1>5, <1>7, <1>14, <2>1, <2>2, <2>3 DEF StagesOK, Decoded
  <1>16. labels' = << >> /\ Len(labels') = 0
    BY <1>2, <1>5
  <1>17. TraceOK'
    BY <1>16, EmptyFacts DEF TraceOK
  <1>18. EligibleOK'
    BY <1>16 DEF EligibleOK
  <1>19. RepairOK'
    BY <1>5 DEF RepairOK
  <1> QED
    BY <1>12, <1>13, <1>15, <1>17, <1>18, <1>19 DEF DecoderInv

\* A label with a finite cost has a finite emission, and so has its pointer's label.
LEMMA FiniteCost ==
    ASSUME DecoderReady, ScoresOK, Len(cost) = N, NEW i \in 1..N, NEW q \in Candidates,
           cost[i][q] # Infinity
    PROVE  /\ Emission(i, q) # Infinity
           /\ i > 1 => back[i][q] \in Candidates /\ cost[i-1][back[i][q]] # Infinity
  <1>1. N \in Nat /\ Emission(i, q) \in Costs
    BY ScoreFacts
  <1>2. CASE i = 1
    BY <1>2, ScoreFacts
  <1>3. CASE i > 1
    <2>1. i \in 2..N /\ i - 1 \in 1..N
      BY <1>1, <1>3
    <2> DEFINE p == back[i][q]
               t == Transition(i, p, q)
    <2>2. p \in Candidates
      BY ScoreFacts
    <2>3. cost[i][q] = Plus(Plus(cost[i-1][p], t), Emission(i, q))
      BY <2>1, ScoreFacts DEF Price
    <2>4. cost[i-1][p] \in Costs /\ t \in Costs
      BY <2>1, <2>2, ScoreFacts
    <2> HIDE DEF p, t
    <2>5. Plus(cost[i-1][p], t) \in Costs
      BY <2>4, PlusFacts
    <2>6. Emission(i, q) # Infinity /\ Plus(cost[i-1][p], t) # Infinity
      BY <1>1, <2>3, <2>5, PlusFacts
    <2>7. cost[i-1][p] # Infinity
      BY <2>4, <2>6, PlusFacts
    <2> QED
      BY <2>2, <2>6, <2>7 DEF p
  <1> QED
    BY <1>1, <1>2, <1>3

\* The last label is one of finite cost.
LEMMA LastIsFinite ==
    ASSUME DecoderReady, ScoresOK, Len(cost) = N
    PROVE  /\ Cheapest(cost[N]) \in Candidates
           /\ cost[N][Cheapest(cost[N])] # Infinity
  <1> DEFINE unknown == [i \in 1..N |-> "UNKNOWN"]
             best == Cheapest(cost[N])
  <1>1. /\ "UNKNOWN" \in Candidates /\ decision \in Decisions
        /\ N \in 1..N /\ cost[N] \in [Candidates -> Costs]
    BY CandidatesFacts, ScoreFacts DEF DecoderReady, TypesOK
  <1>2. unknown \in [1..N -> Candidates] /\ unknown[N] = "UNKNOWN"
    BY <1>1
  <1>3. PathCost(unknown) # Infinity
    BY UnknownIsFinite
  <1> HIDE DEF unknown
  <1>4. AtMost(cost[N]["UNKNOWN"], PathCost(unknown)) /\ PathCost(unknown) \in Costs
    BY <1>2, NoneCheaper
  <1>5. cost[N]["UNKNOWN"] # Infinity
    BY <1>3, <1>4 DEF AtMost, Less
  <1>6. IsCheapest(best, cost[N])
    BY <1>1, CheapestFacts
  <1> HIDE DEF best
  <1>7. best \in Candidates /\ cost[N][best] # Infinity
    BY <1>1, <1>5, <1>6 DEF IsCheapest, Less
  <1> QED
    BY <1>7 DEF best

\* A label is put before the others.
LEMMA PrependFacts ==
    ASSUME NEW S, NEW x \in S, NEW s \in Seq(S)
    PROVE  /\ << x >> \o s \in Seq(S) /\ Len(<< x >> \o s) = Len(s) + 1
           /\ (<< x >> \o s)[1] = x
           /\ \A j \in 1..Len(s) : (<< x >> \o s)[j + 1] = s[j]
  OBVIOUS

LEMMA TraceOKStep ==
    ASSUME DecoderInv, Trace
    PROVE  DecoderInv'
  <1> DEFINE L == Len(labels)
             k == N - L
             label == IF labels = << >> THEN Cheapest(cost[N]) ELSE back[k + 1][Head(labels)]
  <1>1. /\ stage = "tracing" /\ labels' = << label >> \o labels
        /\ stage' = IF L + 1 = N THEN "repairing" ELSE "tracing"
        /\ UNCHANGED << recording, decision, soft, tracklets, distance, cost, back, cursor, spans >>
    BY DEF Trace, input, dp
  <1>2. /\ labels \in Seq(Candidates) /\ cursor = 2 /\ L < N /\ Len(cost) = N /\ Len(distance) = N
        /\ Tracklets(recording, tracklets) /\ ScoresOK
        /\ \A j \in 1..L : Follows(j)
        /\ labels # << >> => cost[At(1)][labels[1]] # Infinity
        /\ \A j \in 1..L : Emission(At(j), labels[j]) # Infinity
    BY <1>1 DEF DecoderInv, StagesOK, TraceOK, EligibleOK, Decoded
  <1>3. N \in Nat /\ L \in Nat /\ N > 0 /\ k \in 1..N
    BY <1>2, TrackletFacts
  <1>4. DecoderReady
    BY <1>1, <1>3, InvReady DEF Decoded
  <1>5. label \in Candidates /\ cost[k][label] # Infinity
    <2>1. CASE labels = << >>
      <3>1. k = N /\ label = Cheapest(cost[N])
        BY <1>3, <2>1
      <3> HIDE DEF k, label
      <3> QED
        BY <1>2, <1>4, <3>1, LastIsFinite
    <2>2. CASE labels # << >>
      <3>1. 1 \in 1..L /\ Head(labels) = labels[1]
        BY <1>2, <2>2
      <3>2. At(1) = k + 1 /\ k + 1 \in 1..N /\ k + 1 > 1 /\ (k + 1) - 1 = k
        BY <1>3, <3>1 DEF At
      <3>3. labels[1] \in Candidates
        BY <1>2, <3>1, ElementOfSeq
      <3>4. cost[k + 1][labels[1]] # Infinity /\ label = back[k + 1][labels[1]]
        BY <1>2, <2>2, <3>1, <3>2
      <3> HIDE DEF k, label
      <3>5. /\ back[k + 1][labels[1]] \in Candidates
            /\ cost[(k + 1) - 1][back[k + 1][labels[1]]] # Infinity
        BY <1>2, <1>4, <3>2, <3>3, <3>4, FiniteCost
      <3> QED
        BY <3>2, <3>4, <3>5
    <2> QED
      BY <2>1, <2>2
  <1>6. label = IF labels = << >> THEN Cheapest(cost[N]) ELSE back[k + 1][labels[1]]
    BY <1>2
  <1> HIDE DEF label
  <1>7. Emission(k, label) # Infinity
    <2> HIDE DEF k
    <2> QED
      BY <1>2, <1>3, <1>4, <1>5, FiniteCost
  <1>8. /\ labels' \in Seq(Candidates) /\ Len(labels') = L + 1 /\ labels'[1] = label
        /\ \A j \in 1..L : labels'[j + 1] = labels[j]
    BY <1>1, <1>2, <1>5, PrependFacts
  <1>9. /\ N' = N /\ Candidates' = Candidates
        /\ \A i, q : Emission(i, q)' = Emission(i, q)
        /\ \A price : Cheapest(price)' = Cheapest(price)
    BY <1>1, CostsStay
  <1>10. \A j : At(j)' = N - (L + 1) + j
    BY <1>8, <1>9 DEF At
  <1>11. ASSUME NEW j \in 1..Len(labels'), j # 1
         PROVE  j - 1 \in 1..L /\ labels'[j] = labels[j-1] /\ At(j)' = At(j-1)
    <2>1. j - 1 \in 1..L /\ (j - 1) + 1 = j
      BY <1>3, <1>8, <1>11
    <2>2. N - (L + 1) + j = N - L + (j - 1)
      BY <1>3
    <2>3. labels'[(j - 1) + 1] = labels[j-1]
      BY <1>8, <2>1
    <2> QED
      BY <1>10, <2>1, <2>2, <2>3 DEF At
  <1>12. At(1)' = k
    BY <1>3, <1>10
  <1>13. Cheapest(cost[N])' = Cheapest(cost[N])
    BY <1>1, <1>9 DEF Cheapest
  <1>14. ASSUME NEW j \in 1..Len(labels')
         PROVE  Follows(j)'
    <2>1. CASE j = 1
      <3>1. L = 0 <=> labels = << >>
        BY <1>2
      <3>2. CASE L = 0
        BY <1>6, <1>8, <1>13, <2>1, <3>1, <3>2 DEF Follows
      <3>3. CASE L # 0
        <4>1. 1 \in 1..L /\ Len(labels') # 1 /\ 1 + 1 = 2
          BY <1>3, <1>8, <3>3
        <4>2. labels'[1 + 1] = labels[1]
          BY <1>8, <4>1
        <4> QED
          BY <1>1, <1>6, <1>8, <1>12, <2>1, <3>1, <3>3, <4>1, <4>2 DEF Follows
      <3> QED
        BY <3>2, <3>3
    <2>2. CASE j # 1
      <3>1. j - 1 \in 1..L /\ labels'[j] = labels[j-1] /\ At(j)' = At(j-1)
        BY <1>11, <2>2
      <3>2. Follows(j - 1)
        BY <1>2, <3>1
      <3>3. CASE j = Len(labels')
        <4>1. j - 1 = L
          BY <1>3, <1>8, <3>3
        <4> QED
          BY <1>13, <3>1, <3>2, <3>3, <4>1 DEF Follows
      <3>4. CASE j # Len(labels')
        <4>1. j - 1 # L /\ j \in 1..L /\ (j - 1) + 1 = j
          BY <1>3, <1>8, <3>1, <3>4
        <4>2. labels'[j + 1] = labels[j]
          BY <1>8, <4>1
        <4> QED
          BY <1>1, <3>1, <3>2, <3>4, <4>1, <4>2 DEF Follows
      <3> QED
        BY <3>3, <3>4
    <2> QED
      BY <2>1, <2>2
  <1>15. ASSUME NEW j \in 1..Len(labels')
         PROVE  Emission(At(j), labels[j])' # Infinity
    <2> DEFINE a == At(j)'
               b == labels'[j]
    <2>1. Emission(a, b) # Infinity
      <3>1. CASE j = 1
        BY <1>7, <1>8, <1>12, <3>1
      <3>2. CASE j # 1
        BY <1>2, <1>11, <3>2
      <3> QED
        BY <3>1, <3>2
    <2> QED
      BY <1>1, <1>9, <2>1 DEF Emission, WithinCeilings, Local, LocalAssignment, States
  <1>16. ScoresOK'
    BY <1>1, <1>2, ScoresStay
  <1>17. TypesOK'
    BY <1>1 DEF DecoderInv, TypesOK, Stages
  <1>18. Tracklets(recording, tracklets)'
    BY <1>1, <1>2 DEF Tracklets
  <1>19. StagesOK'
    <2>1. stage' \in {"tracing", "repairing"} /\ Len(labels') = L + 1 /\ L + 1 <= N
      BY <1>1, <1>3, <1>8
    <2>2. /\ stage' = "tracing" => Len(labels') < N
          /\ stage' = "repairing" => Len(labels') = N
      BY <1>1, <1>3, <2>1
    <2> QED
      BY <1>1, <1>2, <1>9, <1>18, <2>1, <2>2 DEF StagesOK, Decoded
  <1>20. TraceOK'
    <2>1. (cost[At(1)][labels[1]])' # Infinity
      BY <1>1, <1>5, <1>8, <1>12
    <2> QED
      BY <1>8, <1>9, <1>14, <2>1 DEF TraceOK
  <1>21. EligibleOK'
    BY <1>15 DEF EligibleOK
  <1>22. RepairOK'
    <2>1. \A i \in 2..(N' - 1) : ~(i < cursor')
      BY <1>1, <1>2, <1>3, <1>9
    <2> QED
      BY <2>1 DEF RepairOK
  <1> QED
    BY <1>16, <1>17, <1>19, <1>20, <1>21, <1>22 DEF DecoderInv

LEMMA RepairOKStep ==
    ASSUME DecoderInv, Repair
    PROVE  DecoderInv'
  <1> DEFINE i == cursor
  <1>1. /\ stage = "repairing" /\ i < N /\ i \in Nat /\ cursor' = i + 1
        /\ labels' = IF Isolated(i) THEN [labels EXCEPT ![i] = "UNKNOWN"] ELSE labels
        /\ UNCHANGED << recording, decision, soft, stage, tracklets, distance, cost, back, spans >>
    BY DEF Repair, input, dp, DecoderInv, TypesOK
  <1>2. /\ labels \in Seq(Candidates) /\ Len(labels) = N /\ Len(cost) = N /\ Len(distance) = N
        /\ Tracklets(recording, tracklets) /\ ScoresOK /\ TypesOK
        /\ \A j \in 1..N : Emission(At(j), labels[j]) # Infinity
        /\ \A j \in 2..(N - 1) : j < i /\ Island(j) => labels[j+1] = "UNKNOWN" /\ Short(j+1)
        /\ i >= 2
    BY <1>1 DEF DecoderInv, TypesOK, StagesOK, TraceOK, EligibleOK, RepairOK, Decoded
  <1>3. /\ N \in Nat /\ i \in 2..(N - 1) /\ i \in 1..N /\ \A j : At(j) = N - N + j
        /\ \A j \in 1..N : At(j) = j
    BY <1>1, <1>2, TrackletFacts DEF At
  <1> HIDE DEF i
  <1>4. /\ N' = N /\ Candidates' = Candidates
        /\ \A k, q : Emission(k, q)' = Emission(k, q)
        /\ \A k : Short(k)' = Short(k)
    BY <1>1, CostsStay
  <1>5. "UNKNOWN" \in Candidates /\ "UNKNOWN" \notin SpeakerIds
    BY <1>2, CandidatesFacts DEF TypesOK, SpeakerIds
  <1>6. /\ labels' \in Seq(Candidates) /\ Len(labels') = N
        /\ \A j \in 1..N : labels'[j] = IF j = i /\ Isolated(i) THEN "UNKNOWN" ELSE labels[j]
    <2>1. CASE Isolated(i)
      <3>1. labels' = [labels EXCEPT ![i] = "UNKNOWN"]
        BY <1>1, <2>1
      <3>2. labels' \in Seq(Candidates) /\ Len(labels') = Len(labels)
        BY <1>2, <1>3, <1>5, <3>1, ExceptSeq
      <3>3. \A j \in 1..N : labels'[j] = IF j = i THEN "UNKNOWN" ELSE labels[j]
        BY <1>2, <1>3, <3>1, LenProperties
      <3> QED
        BY <1>2, <2>1, <3>2, <3>3
    <2>2. CASE ~Isolated(i)
      BY <1>1, <1>2, <2>2
    <2> QED
      BY <2>1, <2>2
  <1>7. ASSUME NEW j \in 1..N
        PROVE  Emission(At(j), labels[j])' # Infinity
    <2> DEFINE b == labels'[j]
    <2>1. Emission(j, b) # Infinity
      <3>1. CASE j = i /\ Isolated(i)
        <4>1. b = "UNKNOWN"
          BY <1>6, <3>1
        <4>2. Emission(j, "UNKNOWN") \in Nat
          BY <1>2, EmissionFacts
        <4> QED
          BY <4>1, <4>2, ConfigAssumption
      <3>2. CASE ~(j = i /\ Isolated(i))
        <4>1. b = labels[j]
          BY <1>6, <3>2
        <4> QED
          BY <1>2, <1>3, <4>1
      <3> QED
        BY <3>1, <3>2
    <2>2. At(j)' = j
      BY <1>3, <1>4, <1>6 DEF At
    <2> QED
      BY <1>1, <2>1, <2>2 DEF Emission, WithinCeilings, Local, LocalAssignment, States
  <1>8. ASSUME NEW j \in 2..(N - 1), j < i + 1, Island(j)'
        PROVE  labels'[j+1] = "UNKNOWN" /\ Short(j+1)
    <2>1. j \in 1..N /\ j - 1 \in 1..N /\ j + 1 \in 1..N /\ (j < i \/ j = i)
      BY <1>3, <1>8
    <2>2. /\ labels'[j] \in SpeakerIds /\ labels'[j-1] = labels'[j+1]
          /\ labels'[j] # labels'[j-1] /\ Short(j)
      BY <1>4, <1>8 DEF Island
    <2>3. labels'[j-1] = labels[j-1] /\ labels'[j] = labels[j] /\ ~(j = i /\ Isolated(i))
      BY <1>3, <1>5, <1>6, <2>1, <2>2
    <2>4. CASE j = i
      <3>1. labels'[j+1] = labels[j+1]
        BY <1>3, <1>6, <2>1, <2>4
      <3> QED
        BY <2>2, <2>3, <2>4, <3>1 DEF Isolated
    <2>5. CASE j < i
      <3>1. CASE j + 1 = i /\ Isolated(i)
        BY <1>6, <2>1, <3>1 DEF Isolated
      <3>2. CASE ~(j + 1 = i /\ Isolated(i))
        <4>1. labels'[j+1] = labels[j+1]
          BY <1>6, <2>1, <3>2
        <4>2. Island(j)
          BY <2>2, <2>3, <4>1 DEF Island
        <4> QED
          BY <1>2, <2>5, <4>1, <4>2
      <3> QED
        BY <3>1, <3>2
    <2> QED
      BY <2>1, <2>4, <2>5
  <1>9. ScoresOK'
    BY <1>1, <1>2, ScoresStay
  <1>10. TypesOK'
    <2>1. cursor' \in Nat /\ cursor' >= 2
      BY <1>1, <1>2
    <2> QED
      BY <1>1, <2>1 DEF DecoderInv, TypesOK
  <1>11. Tracklets(recording, tracklets)'
    BY <1>1, <1>2 DEF Tracklets
  <1>12. StagesOK'
    BY <1>1, <1>2, <1>4, <1>6, <1>11 DEF StagesOK, Decoded
  <1>13. TraceOK'
    <2>1. cursor' # 2
      BY <1>1, <1>2, <1>3
    <2> QED
      BY <1>1, <1>4, <1>6, <2>1 DEF TraceOK
  <1>14. EligibleOK'
    BY <1>6, <1>7 DEF EligibleOK
  <1>15. RepairOK'
    <2>1. \A j : Short(j)' = Short(j)
      BY <1>4
    <2> QED
      BY <1>1, <1>4, <1>8, <2>1 DEF RepairOK, i
  <1> QED
    BY <1>9, <1>10, <1>12, <1>13, <1>14, <1>15 DEF DecoderInv

\* What the invariant says does not depend on the timeline until it is there.
LEMMA RestStays ==
    ASSUME DecoderInv,
           UNCHANGED << recording, decision, soft, tracklets, distance, cost, back, labels, cursor >>,
           stage' = stage \/ (stage = "repairing" /\ stage' = "done")
    PROVE  TypesOK' /\ ScoresOK' /\ TraceOK' /\ EligibleOK' /\ RepairOK'
           /\ Tracklets(recording, tracklets)' = Tracklets(recording, tracklets)
  <1>1. /\ N' = N /\ Candidates' = Candidates
        /\ \A k, q : Emission(k, q)' = Emission(k, q)
        /\ \A k : Short(k)' = Short(k)
        /\ \A price : Cheapest(price)' = Cheapest(price)
    BY CostsStay
  <1>2. TypesOK'
    BY DEF DecoderInv, TypesOK, Stages
  <1>3. ScoresOK'
    BY ScoresStay DEF DecoderInv
  <1>4. \A j : At(j)' = At(j)
    BY <1>1 DEF At
  <1>5. Cheapest(cost[N])' = Cheapest(cost[N])
    BY <1>1 DEF Cheapest
  <1>6. \A j : Follows(j)' = Follows(j)
    BY <1>4, <1>5 DEF Follows
  <1>7. TraceOK'
    BY <1>1, <1>4, <1>6 DEF DecoderInv, TraceOK
  <1>8. \A j : Emission(At(j), labels[j])' = Emission(At(j), labels[j])
    BY <1>4 DEF Emission, WithinCeilings, Local, LocalAssignment, States
  <1>9. EligibleOK'
    BY <1>8 DEF DecoderInv, EligibleOK, Decoded
  <1>10. \A i : Island(i)' = Island(i)
    BY <1>1 DEF Island
  <1>11. RepairOK'
    BY <1>1, <1>10 DEF DecoderInv, RepairOK
  <1>12. Tracklets(recording, tracklets)' = Tracklets(recording, tracklets)
    BY DEF Tracklets
  <1> QED
    BY <1>2, <1>3, <1>7, <1>9, <1>11, <1>12

\* Neither does the timeline that the labels make.
LEMMA MaterializedStays ==
    ASSUME UNCHANGED << recording, tracklets, labels >>
    PROVE  Materialized' = Materialized
  <1>1. N' = N /\ \A i : Status(i)' = Status(i)
    BY DEF N, Status
  <1>2. \A i : Joins(i)' = Joins(i)
    BY <1>1 DEF Joins
  <1>3. \A i : LastJoined(i)' = LastJoined(i)
    BY <1>1, <1>2 DEF LastJoined
  <1>4. Runs' = Runs
    BY <1>1, <1>2, <1>3 DEF Runs
  <1>5. \A i : Since(i)' = Since(i) /\ Until(i)' = Until(i)
    BY <1>1 DEF Since, Until
  <1>6. Pauses' = Pauses
    BY <1>1, <1>5 DEF Pauses
  <1> QED
    BY <1>4, <1>6 DEF Materialized

LEMMA MaterializeOK ==
    ASSUME DecoderInv, Materialize
    PROVE  DecoderInv'
  <1>1. /\ stage = "repairing" /\ stage' = "done" /\ cursor >= N /\ spans' = Materialized
        /\ UNCHANGED << recording, decision, soft, tracklets, distance, cost, back, labels, cursor >>
    BY DEF Materialize, input, dp
  <1>2. TypesOK' /\ ScoresOK' /\ TraceOK' /\ EligibleOK' /\ RepairOK'
        /\ Tracklets(recording, tracklets)' = Tracklets(recording, tracklets)
    BY <1>1, RestStays
  <1>3. Materialized' = Materialized /\ N' = N
    BY <1>1, MaterializedStays DEF N
  <1>4. StagesOK'
    BY <1>1, <1>2, <1>3 DEF DecoderInv, StagesOK, Decoded
  <1> QED
    BY <1>2, <1>4 DEF DecoderInv

LEMMA DecoderStep ==
    ASSUME DecoderInv, [Next]_vars
    PROVE  DecoderInv'
  <1>1. CASE UNCHANGED vars
    <2>1. /\ UNCHANGED << recording, decision, soft, tracklets, distance, cost, back, labels, cursor >>
          /\ stage' = stage /\ spans' = spans
      BY <1>1 DEF vars
    <2>2. TypesOK' /\ ScoresOK' /\ TraceOK' /\ EligibleOK' /\ RepairOK'
          /\ Tracklets(recording, tracklets)' = Tracklets(recording, tracklets)
      BY <2>1, RestStays
    <2>3. Materialized' = Materialized /\ N' = N
      BY <2>1, MaterializedStays DEF N
    <2>4. StagesOK'
      BY <2>1, <2>2, <2>3 DEF DecoderInv, StagesOK, Decoded
    <2> QED
      BY <2>2, <2>4 DEF DecoderInv
  <1>2. CASE Next
    BY <1>2, BuildOK, EmbedOK, DecideOK, ScoreOK, TraceOKStep, RepairOKStep, MaterializeOK DEF Next
  <1> QED
    BY <1>1, <1>2

-----------------------------------------------------------------------------
(* Theorems *)

\* The inductive invariant of the decoder: what every stage of
\* SequenceDecoder finds of the stages before it.
THEOREM DecoderInvariant == Spec => []DecoderInv
  <1>1. DecoderInv /\ [Next]_vars => DecoderInv'
    BY DecoderStep
  <1> QED
    BY InitOK, <1>1, PTL DEF Spec

\* build_tracklets loses no speech and invents none, whatever the regions are.
THEOREM SpeechIsTiled == Spec => []TrackletsTileSpeech
  <1>1. DecoderInv => TrackletsTileSpeech
    BY TilesFromInv
  <1> QED
    BY DecoderInvariant, <1>1, PTL

\* decode_sequence finds a cheapest labelling of the whole file, for every number of
\* tracklets and all costs, INF among them, and prefers UNKNOWN at its end.
THEOREM ViterbiIsOptimal == Spec => []LabelsAreCheapest
  <1>1. DecoderInv => LabelsAreCheapest
    BY CheapestFromInv
  <1> QED
    BY DecoderInvariant, <1>1, PTL

\* No neighbour and no cost makes decode_sequence give a tracklet to a speaker
\* whose hard gate it does not pass.
THEOREM GatesHold == Spec => []NobodyForced
  <1>1. DecoderInv => NobodyForced
    BY NobodyForcedFromInv
  <1> QED
    BY DecoderInvariant, <1>1, PTL

\* The one pass of the repair is enough, however long the file is.
THEOREM RepairIsEnough == Spec => []IslandsWithheld
  <1>1. DecoderInv => IslandsWithheld
    BY IslandsFromInv
  <1> QED
    BY DecoderInvariant, <1>1, PTL

\* _materialize says of every instant what its tracklet's label says, in spans that
\* do not overlap and are not split without a reason, for timelines of any length.
THEOREM TimelineIsFaithful == Spec => []TimelineFaithful
  <1>1. DecoderInv => TimelineFaithful
    BY TimelineFromInv
  <1> QED
    BY DecoderInvariant, <1>1, PTL

=============================================================================
