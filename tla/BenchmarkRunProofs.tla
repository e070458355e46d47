-------------------------- MODULE BenchmarkRunProofs --------------------------
(***************************************************************************)
(* A benchmark for corpora and predictions of any kind, any lock and any   *)
(* number of files replaced while it runs: what is scored is what the      *)
(* locked manifest declares.                                               *)
(***************************************************************************)
EXTENDS BenchmarkRun, FiniteSetTheorems, NaturalsInduction, WellFoundedInduction, TLAPS

-----------------------------------------------------------------------------
(* The inductive invariant *)

Validating ==
    {"begin", "list", "rttm_digest", "uem_digest", "audio_digest", "layout", "uem", "rttm",
     "words_uem", "words", "load"}
Loading == {"load_rttm", "load_uem", "load_audio"}
Guessing == {"predictions", "guess"}

\* A snapshot of what its row declares; a recording is held if it is to be scored.
Kept(l, split) ==
    /\ l.rttm = l.row.rttm /\ l.uem = l.row.uem /\ RowComplete(l.row)
    /\ l.row.split = split => l.length = l.row.audio.length

Snapshots == loaded \in Seq(ToSet(loaded))
Snapshot(l) == {"row", "rttm", "uem", "length"} \subseteq DOMAIN l

DocumentsOK ==
    /\ {ReferenceList} \cup DOMAIN Replacements \subseteq DOMAIN documents
    /\ documents[ReferenceList] \in Lists

\* The first rows of the manifest are held, all but the last one as they are declared.
LoadingOK ==
    /\ rows \in Lists /\ at \in Nat \ {0} /\ Snapshots
    /\ Len(loaded) = IF stop = "load_rttm" THEN at - 1 ELSE at
    /\ Len(loaded) <= Len(rows)
    /\ \A k \in 1..Len(loaded) : Snapshot(loaded[k]) /\ loaded[k].row = rows[k]
    /\ \A k \in 1..(at - 1) : Kept(loaded[k], asked.split)
    /\ stop = "load_audio" =>
         /\ loaded[at].rttm = rows[at].rttm /\ loaded[at].uem = rows[at].uem
         /\ RowComplete(rows[at])

LoadedOK ==
    /\ first \in Lists /\ DOMAIN loaded = DOMAIN first
    /\ \A k \in DOMAIN first : loaded[k].row = first[k] /\ Kept(loaded[k], asked.split)

BenchmarkInv ==
    /\ DocumentsOK
    /\ stop \in Validating => loaded = << >>
    /\ stop \in Loading => LoadingOK
    /\ stop \in Guessing => LoadedOK
    /\ verdict.is = "scored" => stop = "done"
    /\ ScoredIsDeclared

-----------------------------------------------------------------------------
(* Sequences *)

LEMMA OfItsOwn ==
    ASSUME NEW T, NEW s \in Seq(T)
    PROVE  s \in Seq(ToSet(s))
  BY DEF ToSet

LEMMA Appended ==
    ASSUME NEW s, s \in Seq(ToSet(s)), NEW x
    PROVE  /\ Append(s, x) \in Seq(ToSet(Append(s, x)))
           /\ Len(Append(s, x)) = Len(s) + 1
           /\ \A k \in 1..Len(s) : Append(s, x)[k] = s[k]
           /\ Append(s, x)[Len(s) + 1] = x
  <1> DEFINE T == ToSet(s) \cup {x}
  <1>1. s \in Seq(T)
    BY DEF ToSet
  <1>2. x \in T
    OBVIOUS
  <1> HIDE DEF T
  <1>3. /\ Append(s, x) \in Seq(T) /\ Len(Append(s, x)) = Len(s) + 1
        /\ \A k \in 1..Len(s) : Append(s, x)[k] = s[k]
        /\ Append(s, x)[Len(s) + 1] = x
    BY <1>1, <1>2
  <1>4. Append(s, x) \in Seq(ToSet(Append(s, x)))
    BY <1>3, OfItsOwn
  <1> QED
    BY <1>3, <1>4

LEMMA LeastNumber ==
    ASSUME NEW T, T \subseteq Nat, T # {}
    PROVE  \E n \in T : \A m \in T : n <= m
  <1> DEFINE R == {ss \in Nat \X Nat : ss[1] < ss[2]}
  <1>1. IsWellFoundedOn(R, Nat)
    BY NatLessThanWellFounded DEF OpToRel
  <1>2. PICK n \in T : \A m \in T : << m, n >> \notin R
    <2> HIDE DEF R
    <2> QED
      BY <1>1, WFMin
  <1>3. ASSUME NEW m \in T
        PROVE  n <= m
    <2>1. << m, n >> \in Nat \X Nat
      OBVIOUS
    <2>2. ~(m < n)
      BY <2>1, <1>2
    <2> QED
      BY <2>2
  <1> QED
    BY <1>3

\* Intervals that follow each other, none of them empty, follow all that are before them.
LEMMA InOrder ==
    ASSUME NEW uem, uem \in Seq(ToSet(uem)), \A x \in ToSet(uem) : {x.from, x.to} \subseteq Nat,
           UemInOrder(uem), \A x \in ToSet(uem) : x.from < x.to,
           NEW x \in DOMAIN uem, NEW y \in DOMAIN uem, x < y
    PROVE  uem[x].to <= uem[y].from
  <1>1. DOMAIN uem = 1..Len(uem) /\ Len(uem) \in Nat
    OBVIOUS
  <1>2. \A k \in 1..Len(uem) :
          uem[k].from \in Nat /\ uem[k].to \in Nat /\ uem[k].from < uem[k].to
    BY <1>1 DEF ToSet
  <1>3. \A k \in 2..Len(uem) : uem[k - 1].to <= uem[k].from
    BY DEF UemInOrder
  <1> DEFINE Fail == {k \in 1..Len(uem) : x < k /\ ~(uem[x].to <= uem[k].from)}
  <1> SUFFICES ASSUME Fail # {}
               PROVE  FALSE
    BY <1>1
  <1>4. PICK k \in Fail : \A j \in Fail : k <= j
    <2>1. Fail \subseteq Nat
      BY <1>1
    <2> HIDE DEF Fail
    <2> QED
      BY <2>1, LeastNumber
  <1>5. k \in 2..Len(uem) /\ k - 1 \in 1..Len(uem) /\ x \in 1..Len(uem) /\ k - 1 < k
    BY <1>1
  <1>6. uem[k - 1].to <= uem[k].from
    BY <1>3, <1>5
  <1>7. CASE k - 1 = x
    BY <1>6, <1>7
  <1>8. CASE k - 1 # x
    <2>1. uem[x].to <= uem[k - 1].from
      BY <1>1, <1>4, <1>5, <1>8
    <2>2. /\ uem[k - 1].from \in Nat /\ uem[k - 1].to \in Nat /\ uem[k].from \in Nat
          /\ uem[k - 1].from < uem[k - 1].to /\ uem[x].to \in Nat
      BY <1>2, <1>5
    <2> QED
      BY <1>6, <2>1, <2>2
  <1> QED
    BY <1>7, <1>8

-----------------------------------------------------------------------------
(* Steps before the judgement *)

LEMMA ListsAreSequences ==
    ASSUME NEW list \in Lists
    PROVE  /\ list \in Seq(ToSet(list)) /\ Len(list) \in Nat /\ DOMAIN list = 1..Len(list)
           /\ \A k \in DOMAIN list : /\ list[k].uem \in Seq(ToSet(list[k].uem))
                                     /\ \A x \in ToSet(list[k].uem) : {x.from, x.to} \subseteq Nat
  <1>1. list \in Seq(ToSet(list))
    BY BenchmarkAssumption
  <1>2. \A row \in ToSet(list) : /\ row.uem \in Seq(ToSet(row.uem))
                                 /\ \A x \in ToSet(row.uem) : {x.from, x.to} \subseteq Nat
    BY BenchmarkAssumption
  <1>3. \A k \in DOMAIN list : list[k] \in ToSet(list)
    BY DEF ToSet
  <1> QED
    BY <1>1, <1>2, <1>3

\* Unless something is scored anew, what is scored is what was.
LEMMA StillDeclared ==
    ASSUME ScoredIsDeclared, asked' = asked, verdict' = verdict \/ verdict'.is = "refused"
    PROVE  ScoredIsDeclared'
  <1>1. CASE verdict'.is = "refused"
    BY <1>1 DEF ScoredIsDeclared
  <1>2. CASE verdict' = verdict
    BY <1>2 DEF ScoredIsDeclared
  <1> QED
    BY <1>1, <1>2

LEMMA Refused == RefuseRun => stop' = "done" /\ verdict'.is = "refused"
  BY DEF RefuseRun, Nothing

\* A step to the end of a run that is refused.
LEMMA RefusedOK ==
    ASSUME BenchmarkInv, RefuseRun, documents' = documents, asked' = asked
    PROVE  BenchmarkInv'
  <1>1. stop' = "done" /\ verdict'.is = "refused"
    BY Refused
  <1>2. ScoredIsDeclared'
    BY <1>1, StillDeclared DEF BenchmarkInv
  <1> QED
    BY <1>1, <1>2 DEF BenchmarkInv, DocumentsOK, Validating, Loading, Guessing

LEMMA ValidationOK ==
    ASSUME BenchmarkInv,
           \/ BeginRun \/ ListRows \/ CheckRow \/ ReadLayout \/ ReadUem \/ ReadRttm
           \/ ReadUemAgain \/ ReadWords \/ EndValidation
    PROVE  BenchmarkInv'
  <1> DEFINE Goes == /\ stop \in Validating /\ stop' \in Validating /\ verdict' = verdict
                     /\ loaded' = loaded /\ documents' = documents /\ asked' = asked
             Ends == RefuseRun /\ documents' = documents /\ asked' = asked
  <1>1. Goes \/ Ends
    <2>1. CASE BeginRun
      BY <2>1 DEF BeginRun, Validating
    <2>2. CASE ListRows
      BY <2>2 DEF ListRows, Validating
    <2>3. CASE CheckRow
      BY <2>3 DEF CheckRow, CheckDigest, Validating
    <2>4. CASE ReadLayout
      BY <2>4 DEF ReadLayout, Validating
    <2>5. CASE ReadUem
      BY <2>5 DEF ReadUem, Validating
    <2>6. CASE ReadRttm
      BY <2>6 DEF ReadRttm, Validating
    <2>7. CASE ReadUemAgain
      BY <2>7 DEF ReadUemAgain, Validating
    <2>8. CASE ReadWords
      BY <2>8 DEF ReadWords, Validating
    <2>9. CASE EndValidation
      BY <2>9 DEF EndValidation, Validating
    <2> QED
      BY <2>1, <2>2, <2>3, <2>4, <2>5, <2>6, <2>7, <2>8, <2>9
  <1>2. CASE Goes
    <2>1. stop' \notin Loading /\ stop' \notin Guessing /\ stop' # "done" /\ stop # "done"
      BY <1>2 DEF Validating, Loading, Guessing
    <2>2. ScoredIsDeclared'
      BY <1>2, StillDeclared DEF BenchmarkInv
    <2> QED
      BY <1>2, <2>1, <2>2 DEF BenchmarkInv, DocumentsOK
  <1>3. CASE Ends
    BY <1>3, RefusedOK
  <1> QED
    BY <1>1, <1>2, <1>3

LEMMA LoadReferencesOK ==
    ASSUME BenchmarkInv, LoadReferences
    PROVE  BenchmarkInv'
  <1>1. /\ stop = "load" /\ stop' = "load_rttm" /\ rows' = documents[ReferenceList] /\ at' = 1
        /\ loaded' = loaded /\ verdict' = verdict /\ documents' = documents /\ asked' = asked
    BY DEF LoadReferences, Load, ReferenceList
  <1>2. loaded = << >> /\ DocumentsOK
    BY <1>1 DEF BenchmarkInv, Validating
  <1>3. rows' \in Lists /\ Len(rows') \in Nat
    BY <1>1, <1>2, ListsAreSequences DEF DocumentsOK
  <1>4. LoadingOK'
    <2>1. Len(loaded') = 0 /\ loaded' \in Seq(ToSet(loaded'))
      BY <1>1, <1>2
    <2> QED
      BY <1>1, <1>3, <2>1 DEF LoadingOK, Snapshots
  <1>5. ScoredIsDeclared'
    BY <1>1, StillDeclared DEF BenchmarkInv
  <1> QED
    BY <1>1, <1>2, <1>4, <1>5 DEF BenchmarkInv, DocumentsOK, Validating, Loading, Guessing

\* Loading goes on.
LEMMA LoadsOn ==
    ASSUME BenchmarkInv, stop \in Loading, stop' \in Loading, LoadingOK', verdict' = verdict,
           documents' = documents, asked' = asked
    PROVE  BenchmarkInv'
  <1>1. ScoredIsDeclared'
    BY StillDeclared DEF BenchmarkInv
  <1> QED
    BY <1>1 DEF BenchmarkInv, DocumentsOK, Validating, Loading, Guessing

LEMMA LoadRttmOK ==
    ASSUME BenchmarkInv, LoadRttm
    PROVE  BenchmarkInv'
  <1> DEFINE l == [row |-> rows[at], rttm |-> Held("rttm"), uem |-> << >>, length |-> 0]
  <1>1. /\ stop = "load_rttm" /\ at <= Len(rows) /\ stop' = "load_uem"
        /\ loaded' = Append(loaded, l) /\ rows' = rows /\ at' = at
        /\ verdict' = verdict /\ documents' = documents /\ asked' = asked
    BY DEF LoadRttm, Row
  <1>2. LoadingOK
    BY <1>1 DEF BenchmarkInv, Loading
  <1>3. Snapshot(l) /\ l.row = rows[at]
    BY DEF Snapshot
  <1> HIDE DEF l
  <1>4. /\ loaded' \in Seq(ToSet(loaded')) /\ Len(loaded') = Len(loaded) + 1
        /\ \A k \in 1..Len(loaded) : loaded'[k] = loaded[k]
        /\ loaded'[Len(loaded) + 1] = l
    <2>1. loaded \in Seq(ToSet(loaded))
      BY <1>2 DEF LoadingOK, Snapshots
    <2> QED
      BY <1>1, <2>1, Appended
  <1>5. Len(loaded) = at - 1 /\ at \in Nat \ {0} /\ Len(loaded) \in Nat
    BY <1>1, <1>2 DEF LoadingOK
  <1>6. LoadingOK'
    <2>1. \A k \in 1..Len(loaded') : Snapshot(loaded'[k]) /\ loaded'[k].row = rows'[k]
      <3>1. ASSUME NEW k \in 1..Len(loaded')
            PROVE  Snapshot(loaded'[k]) /\ loaded'[k].row = rows'[k]
        <4>1. CASE k \in 1..Len(loaded)
          <5>1. Snapshot(loaded[k]) /\ loaded[k].row = rows[k]
            BY <1>2, <4>1 DEF LoadingOK
          <5> QED
            BY <1>1, <1>4, <4>1, <5>1
        <4>2. CASE k = at
          BY <1>1, <1>3, <1>4, <1>5, <4>2
        <4> QED
          BY <1>4, <1>5, <4>1, <4>2
      <3> QED
        BY <3>1
    <2>2. \A k \in 1..(at' - 1) : Kept(loaded'[k], asked'.split)
      <3>1. \A k \in 1..(at - 1) : Kept(loaded[k], asked.split) /\ loaded'[k] = loaded[k]
        BY <1>2, <1>4, <1>5 DEF LoadingOK
      <3> QED
        BY <1>1, <3>1
    <2>3. rows' \in Lists /\ at' \in Nat \ {0} /\ Len(loaded') = at' /\ Len(loaded') <= Len(rows')
      BY <1>1, <1>2, <1>4, <1>5 DEF LoadingOK
    <2> QED
      BY <1>1, <1>4, <2>1, <2>2, <2>3 DEF LoadingOK, Snapshots
  <1> QED
    BY <1>1, <1>6, LoadsOn DEF Loading

\* The snapshot of the row that is worked on is replaced, and those before it stay.
LEMMA SnapshotReplaced ==
    ASSUME LoadingOK, stop \in {"load_uem", "load_audio"}, NEW l, Snapshot(l), l.row = rows[at]
    PROVE  /\ [loaded EXCEPT ![at] = l] \in Seq(ToSet([loaded EXCEPT ![at] = l]))
           /\ Len([loaded EXCEPT ![at] = l]) = at
           /\ \A k \in 1..at : /\ Snapshot([loaded EXCEPT ![at] = l][k])
                               /\ [loaded EXCEPT ![at] = l][k].row = rows[k]
           /\ [loaded EXCEPT ![at] = l][at] = l
           /\ \A k \in 1..(at - 1) : Kept([loaded EXCEPT ![at] = l][k], asked.split)
  <1> DEFINE r == [loaded EXCEPT ![at] = l]
  <1>1. /\ loaded \in Seq(ToSet(loaded)) /\ Len(loaded) = at /\ at \in Nat \ {0}
        /\ \A k \in 1..at : Snapshot(loaded[k]) /\ loaded[k].row = rows[k]
        /\ \A k \in 1..(at - 1) : Kept(loaded[k], asked.split)
    BY DEF LoadingOK, Snapshots
  <1>2. at \in 1..Len(loaded)
    BY <1>1
  <1>3. /\ r \in Seq(ToSet(r)) /\ Len(r) = Len(loaded)
        /\ \A j \in 1..Len(loaded) : r[j] = IF j = at THEN l ELSE loaded[j]
    <2> DEFINE T == ToSet(loaded) \cup {l}
    <2>1. loaded \in Seq(T) /\ l \in T
      BY <1>1 DEF ToSet
    <2> HIDE DEF T
    <2>2. /\ r \in Seq(T) /\ Len(r) = Len(loaded)
          /\ \A j \in 1..Len(loaded) : r[j] = IF j = at THEN l ELSE loaded[j]
      BY <1>2, <2>1
    <2> HIDE DEF r
    <2>3. r \in Seq(ToSet(r))
      BY <2>2, OfItsOwn
    <2> QED
      BY <2>2, <2>3
  <1> HIDE DEF r
  <1>4. r[at] = l /\ \A k \in 1..(at - 1) : r[k] = loaded[k]
    BY <1>1, <1>3
  <1>5. \A k \in 1..(at - 1) : Kept(r[k], asked.split)
    BY <1>1, <1>4
  <1>6. \A k \in 1..at : Snapshot(r[k]) /\ r[k].row = rows[k]
    BY <1>1, <1>3
  <1>7. r \in Seq(ToSet(r)) /\ Len(r) = at
    BY <1>1, <1>3
  <1> QED
    BY <1>4, <1>5, <1>6, <1>7 DEF r

LEMMA LoadUemOK ==
    ASSUME BenchmarkInv, LoadUem
    PROVE  BenchmarkInv'
  <1> DEFINE l == [loaded[at] EXCEPT !.uem = Held("uem")]
  <1>1. /\ stop = "load_uem" /\ loaded' = [loaded EXCEPT ![at] = l] /\ rows' = rows
        /\ documents' = documents /\ asked' = asked
    BY DEF LoadUem
  <1>2. LoadingOK
    BY <1>1 DEF BenchmarkInv, Loading
  <1>3. CASE RefuseRun
    BY <1>1, <1>3, RefusedOK
  <1>4. CASE ~RefuseRun
    <2>1. /\ rows[at].rttm = loaded[at].rttm /\ rows[at].uem = Held("uem") /\ RowComplete(rows[at])
          /\ verdict' = verdict
          /\ IF rows[at].split = asked.split THEN stop' = "load_audio" /\ at' = at
             ELSE stop' = "load_rttm" /\ at' = at + 1
      BY <1>4 DEF LoadUem, AsDeclared, Row
    <2>2. Snapshot(loaded[at]) /\ loaded[at].row = rows[at] /\ at \in Nat \ {0}
          /\ at <= Len(rows) /\ rows \in Lists
      BY <1>1, <1>2 DEF LoadingOK
    <2>3. /\ Snapshot(l) /\ l.row = rows[at] /\ l.rttm = rows[at].rttm /\ l.uem = rows[at].uem
      BY <2>1, <2>2 DEF Snapshot
    <2> HIDE DEF l
    <2>4. /\ loaded' \in Seq(ToSet(loaded')) /\ Len(loaded') = at
          /\ \A k \in 1..at : Snapshot(loaded'[k]) /\ loaded'[k].row = rows[k]
          /\ loaded'[at] = l
          /\ \A k \in 1..(at - 1) : Kept(loaded'[k], asked.split)
      BY <1>1, <1>2, <2>3, SnapshotReplaced
    <2>5. CASE rows[at].split = asked.split
      <3>1. stop' = "load_audio" /\ at' = at
        BY <2>1, <2>5
      <3>2. LoadingOK'
        BY <1>1, <2>1, <2>2, <2>3, <2>4, <3>1 DEF LoadingOK, Snapshots
      <3> QED
        BY <1>1, <2>1, <3>1, <3>2, LoadsOn DEF Loading
    <2>6. CASE rows[at].split # asked.split
      <3>1. stop' = "load_rttm" /\ at' = at + 1
        BY <2>1, <2>6
      <3>2. Kept(loaded'[at], asked.split)
        BY <2>1, <2>3, <2>4, <2>6 DEF Kept
      <3>3. \A k \in 1..(at' - 1) : Kept(loaded'[k], asked'.split)
        <4>1. \A k \in 1..at : k = at \/ k \in 1..(at - 1)
          BY <2>2
        <4>2. at' - 1 = at
          BY <2>2, <3>1
        <4> QED
          BY <1>1, <2>4, <3>2, <4>1, <4>2
      <3>4. at' \in Nat \ {0} /\ Len(loaded') = at' - 1 /\ Len(loaded') <= Len(rows')
        BY <1>1, <2>2, <2>4, <3>1
      <3>5. LoadingOK'
        BY <1>1, <2>2, <2>4, <3>1, <3>3, <3>4 DEF LoadingOK, Snapshots
      <3> QED
        BY <1>1, <2>1, <3>1, <3>5, LoadsOn DEF Loading
    <2> QED
      BY <2>5, <2>6
  <1> QED
    BY <1>3, <1>4

LEMMA LoadAudioOK ==
    ASSUME BenchmarkInv, LoadAudio
    PROVE  BenchmarkInv'
  <1> DEFINE l == [loaded[at] EXCEPT !.length = Held("audio").length]
  <1>1. /\ stop = "load_audio" /\ loaded' = [loaded EXCEPT ![at] = l] /\ rows' = rows
        /\ documents' = documents /\ asked' = asked
    BY DEF LoadAudio
  <1>2. LoadingOK
    BY <1>1 DEF BenchmarkInv, Loading
  <1>3. CASE RefuseRun
    BY <1>1, <1>3, RefusedOK
  <1>4. CASE ~RefuseRun
    <2>1. /\ rows[at].audio = Held("audio") /\ verdict' = verdict
          /\ stop' = "load_rttm" /\ at' = at + 1
      BY <1>4 DEF LoadAudio, Row
    <2>2. /\ Snapshot(loaded[at]) /\ loaded[at].row = rows[at] /\ at \in Nat \ {0}
          /\ at <= Len(rows) /\ rows \in Lists
          /\ loaded[at].rttm = rows[at].rttm /\ loaded[at].uem = rows[at].uem
          /\ RowComplete(rows[at])
      BY <1>1, <1>2 DEF LoadingOK
    <2>3. /\ Snapshot(l) /\ l.row = rows[at] /\ l.rttm = rows[at].rttm /\ l.uem = rows[at].uem
          /\ l.length = rows[at].audio.length
      BY <2>1, <2>2 DEF Snapshot
    <2> HIDE DEF l
    <2>4. /\ loaded' \in Seq(ToSet(loaded')) /\ Len(loaded') = at
          /\ \A k \in 1..at : Snapshot(loaded'[k]) /\ loaded'[k].row = rows[k]
          /\ loaded'[at] = l
          /\ \A k \in 1..(at - 1) : Kept(loaded'[k], asked.split)
      BY <1>1, <1>2, <2>3, SnapshotReplaced
    <2>5. Kept(loaded'[at], asked.split)
      BY <2>2, <2>3, <2>4 DEF Kept
    <2>6. \A k \in 1..(at' - 1) : Kept(loaded'[k], asked'.split)
      <3>1. \A k \in 1..at : k = at \/ k \in 1..(at - 1)
        BY <2>2
      <3>2. at' - 1 = at
        BY <2>1, <2>2
      <3> QED
        BY <1>1, <2>4, <2>5, <3>1, <3>2
    <2>7. at' \in Nat \ {0} /\ Len(loaded') = at' - 1 /\ Len(loaded') <= Len(rows')
      BY <1>1, <2>1, <2>2, <2>4
    <2>8. LoadingOK'
      BY <1>1, <2>1, <2>2, <2>4, <2>6, <2>7 DEF LoadingOK, Snapshots
    <2> QED
      BY <1>1, <2>1, <2>8, LoadsOn DEF Loading
  <1> QED
    BY <1>3, <1>4

LEMMA EndReferencesOK ==
    ASSUME BenchmarkInv, EndReferences
    PROVE  BenchmarkInv'
  <1>1. /\ stop = "load_rttm" /\ at > Len(rows) /\ loaded' = loaded /\ first' = first
        /\ documents' = documents /\ asked' = asked
    BY DEF EndReferences
  <1>2. CASE RefuseRun
    BY <1>1, <1>2, RefusedOK
  <1>3. CASE ~RefuseRun
    <2>1. rows = first /\ stop' = "predictions" /\ verdict' = verdict
      BY <1>3 DEF EndReferences
    <2>2. LoadingOK
      BY <1>1 DEF BenchmarkInv, Loading
    <2>3. /\ loaded \in Seq(ToSet(loaded)) /\ rows \in Lists /\ Len(loaded) = at - 1
          /\ at \in Nat \ {0} /\ Len(loaded) <= Len(rows)
          /\ \A k \in 1..Len(loaded) : loaded[k].row = rows[k]
          /\ \A k \in 1..(at - 1) : Kept(loaded[k], asked.split)
      BY <1>1, <2>2 DEF LoadingOK, Snapshots
    <2>4. Len(rows) \in Nat /\ DOMAIN rows = 1..Len(rows)
      BY <2>3, ListsAreSequences
    <2>5. Len(loaded) = Len(rows) /\ DOMAIN loaded = 1..Len(loaded)
      BY <1>1, <2>3, <2>4
    <2>6. \A k \in DOMAIN rows : loaded[k].row = rows[k] /\ Kept(loaded[k], asked.split)
      BY <2>3, <2>4, <2>5
    <2>7. DOMAIN loaded = DOMAIN rows
      BY <2>4, <2>5
    <2>8. LoadedOK'
      BY <1>1, <2>1, <2>3, <2>6, <2>7 DEF LoadedOK
    <2>9. ScoredIsDeclared'
      BY <1>1, <2>1, StillDeclared DEF BenchmarkInv
    <2> QED
      BY <1>1, <2>1, <2>8, <2>9 DEF BenchmarkInv, DocumentsOK, Validating, Loading, Guessing
  <1> QED
    BY <1>2, <1>3

LEMMA GuessesOK ==
    ASSUME BenchmarkInv, LoadPredictions \/ LoadGuess
    PROVE  BenchmarkInv'
  <1>1. /\ stop \in Guessing /\ loaded' = loaded /\ first' = first
        /\ documents' = documents /\ asked' = asked
    BY DEF LoadPredictions, Load, LoadGuess, Guessing
  <1>2. CASE RefuseRun
    BY <1>1, <1>2, RefusedOK
  <1>3. CASE ~RefuseRun
    <2>1. stop' = "guess" /\ verdict' = verdict
      BY <1>3 DEF LoadPredictions, Load, LoadGuess
    <2>2. LoadedOK'
      BY <1>1 DEF BenchmarkInv, LoadedOK
    <2>3. ScoredIsDeclared'
      BY <1>1, <2>1, StillDeclared DEF BenchmarkInv
    <2> QED
      BY <1>1, <2>1, <2>2, <2>3 DEF BenchmarkInv, DocumentsOK, Validating, Loading, Guessing
  <1> QED
    BY <1>2, <1>3

-----------------------------------------------------------------------------
(* The judgement *)

\* What the bytes that are held pass makes the reference sound.
LEMMA ScorableSound ==
    ASSUME NEW l, Scorable(l), Kept(l, asked.split), l.row.split = asked.split,
           l.row.uem \in Seq(ToSet(l.row.uem)),
           \A x \in ToSet(l.row.uem) : {x.from, x.to} \subseteq Nat
    PROVE  /\ ReferenceSound(l.row, l.row.rttm, l.row.uem)
           /\ \A g \in ToSet(GuessOf(l.row.id)) : g.file = l.row.id /\ g.to <= l.length
  <1> DEFINE rttm == l.row.rttm
             uem == l.row.uem
             guess == GuessOf(l.row.id)
  <1>1. /\ l.rttm = rttm /\ l.uem = uem /\ l.row.count \in {1, 2}
        /\ l.length = l.row.audio.length
    BY DEF Kept, RowComplete
  <1>2. /\ \A x \in (ToSet(rttm) \cup ToSet(uem)) \cup ToSet(guess) :
             x.file = l.row.id /\ x.from < x.to /\ x.to <= l.length
        /\ UemInOrder(uem)
        /\ \A s \in ToSet(rttm) : Intake!Contained(s, ToSet(uem)) /\ Intake!Opaque(s.who)
        /\ Cardinality({s.who : s \in ToSet(rttm)}) = l.row.count
    BY <1>1 DEF Scorable, LabelsFit
  <1> HIDE DEF rttm, uem, guess
  <1>3. rttm # << >>
    <2> SUFFICES ASSUME rttm = << >>
                 PROVE  FALSE
      OBVIOUS
    <2> DEFINE names == {s.who : s \in ToSet(rttm)}
    <2>1. names = {}
      BY DEF ToSet
    <2>2. Cardinality(names) \in {1, 2}
      BY <1>1, <1>2
    <2> HIDE DEF names
    <2>3. Cardinality(names) = 0
      BY <2>1, FS_EmptySet
    <2> QED
      BY <2>2, <2>3
  <1>4. \A x, y \in DOMAIN uem : x < y => uem[x].to <= uem[y].from
    <2>1. uem \in Seq(ToSet(uem)) /\ \A x \in ToSet(uem) : {x.from, x.to} \subseteq Nat
      BY DEF uem
    <2>2. \A x \in ToSet(uem) : x.from < x.to
      BY <1>2
    <2> QED
      BY <1>2, <2>1, <2>2, InOrder
  <1>5. ReferenceSound(l.row, rttm, uem)
    BY <1>1, <1>2, <1>3, <1>4 DEF ReferenceSound
  <1>6. \A g \in ToSet(guess) : g.file = l.row.id /\ g.to <= l.length
    BY <1>2
  <1> QED
    BY <1>5, <1>6 DEF rttm, uem, guess

\* Gates are passed by a lock of the gold role alone.
LEMMA GateIsGold ==
    ASSUME NEW measured, GateOf(measured) = "METRIC_GATES_PASS_REVIEW_REQUIRED"
    PROVE  asked.lock.role = "GOLD" /\ \A l \in Selected : l.row.status = "GOLD_APPROVED"
  <1> DEFINE gate == Korea!GateStatus(measured, asked.lock, asked.split)
             approved == \A l \in Selected : l.row.status = "GOLD_APPROVED"
  <1>1. /\ gate = "METRIC_GATES_PASS_REVIEW_REQUIRED"
        /\ ~(asked.lock.role = "GOLD" /\ ~approved)
    BY DEF GateOf
  <1>2. Korea!Gated(asked.lock, asked.split)
    <2>1. Korea!Standing(asked.lock, asked.split) # "METRIC_GATES_PASS_REVIEW_REQUIRED"
      BY DEF Korea!Standing
    <2> QED
      BY <1>1, <2>1 DEF Korea!GateStatus
  <1>3. asked.lock.role = "GOLD"
    <2> DEFINE b == [what |-> "role", is |-> asked.lock.role]
    <2>1. b \in [what : {"role"}, is : {asked.lock.role}] /\ b.is = asked.lock.role
      OBVIOUS
    <2> HIDE DEF b
    <2>2. b.is # "GOLD" => b \in Korea!Blockers(asked.lock, asked.split)
      BY <2>1 DEF Korea!Blockers
    <2> QED
      BY <1>2, <2>1, <2>2 DEF Korea!Gated
  <1> QED
    BY <1>1, <1>3

\* Rows of different splits share nothing that could leak.
LEMMA RowsApart ==
    ASSUME NEW list, Recordings!SplitsApart(Manifests(list)),
           NEW j \in DOMAIN list, NEW k \in DOMAIN list, list[j].split # list[k].split
    PROVE  /\ list[j].groups \cap list[k].groups = {}
           /\ list[j].session # list[k].session /\ list[j].recording # list[k].recording
  <1> DEFINE m == Manifests(list)
  <1>1. /\ DOMAIN m = DOMAIN list
        /\ \A i \in DOMAIN list :
             /\ m[i].id = list[i].recording /\ m[i].session = list[i].session
             /\ m[i].split = list[i].split /\ m[i].speakers = list[i].groups
    BY DEF Manifests
  <1> HIDE DEF m
  <1>2. Recordings!Keys(m[j]) \cap Recordings!Keys(m[k]) = {}
    BY <1>1 DEF Recordings!SplitsApart, m
  <1>3. \A i \in DOMAIN list :
          /\ << "session", list[i].session >> \in Recordings!Keys(m[i])
          /\ << "recording", list[i].recording >> \in Recordings!Keys(m[i])
          /\ \A s \in list[i].groups : << "speaker", s >> \in Recordings!Keys(m[i])
    BY <1>1 DEF Recordings!Keys
  <1> QED
    BY <1>2, <1>3

LEMMA JudgeOK ==
    ASSUME BenchmarkInv, NEW measured, Judge(measured)
    PROVE  BenchmarkInv'
  <1>1. stop = "guess" /\ documents' = documents /\ asked' = asked
    BY DEF Judge
  <1>2. CASE RefuseRun
    BY <1>1, <1>2, RefusedOK
  <1>3. CASE ~RefuseRun
    <2> DEFINE of == {[scored |-> l, guess |-> GuessOf(l.row.id)] : l \in Selected}
               whole == {r \in ToSet(first) : r.split = asked.split}
    <2>1. /\ stop' = "done" /\ Comparable /\ \A l \in Selected : Scorable(l)
          /\ verdict' = [is |-> "scored", gate |-> GateOf(measured), of |-> of]
      BY <1>3 DEF Judge
    <2>2. LoadedOK
      BY <1>1 DEF BenchmarkInv, Guessing
    <2>3. /\ first \in Lists /\ DOMAIN loaded = DOMAIN first
          /\ \A k \in DOMAIN first : loaded[k].row = first[k] /\ Kept(loaded[k], asked.split)
      BY <2>2 DEF LoadedOK
    <2>4. \A k \in DOMAIN first :
            /\ first[k].uem \in Seq(ToSet(first[k].uem))
            /\ \A x \in ToSet(first[k].uem) : {x.from, x.to} \subseteq Nat
      BY <2>3, ListsAreSequences
    <2>5. \A l \in Selected : /\ l.row \in whole /\ Kept(l, asked.split) /\ l.row.split = asked.split
                              /\ l.row.uem \in Seq(ToSet(l.row.uem))
                              /\ \A x \in ToSet(l.row.uem) : {x.from, x.to} \subseteq Nat
      <3>1. ASSUME NEW l \in Selected
            PROVE  /\ l.row \in whole /\ Kept(l, asked.split) /\ l.row.split = asked.split
                   /\ l.row.uem \in Seq(ToSet(l.row.uem))
                   /\ \A x \in ToSet(l.row.uem) : {x.from, x.to} \subseteq Nat
        <4>1. PICK k \in DOMAIN first : l = loaded[k]
          BY <2>3 DEF Selected, ToSet
        <4>2. l.row = first[k] /\ Kept(l, asked.split)
          BY <2>3, <4>1
        <4>3. l.row.split = asked.split
          BY DEF Selected
        <4>4. first[k] \in ToSet(first)
          BY DEF ToSet
        <4> QED
          BY <2>4, <4>2, <4>3, <4>4
      <3> QED
        BY <3>1
    <2>6. \A r \in whole : \E l \in Selected : l.row = r
      <3>1. ASSUME NEW r \in whole
            PROVE  \E l \in Selected : l.row = r
        <4>1. PICK k \in DOMAIN first : r = first[k]
          BY DEF ToSet
        <4>2. loaded[k] \in ToSet(loaded) /\ loaded[k].row = r
          BY <2>3, <4>1 DEF ToSet
        <4>3. loaded[k] \in Selected
          BY <4>2 DEF Selected
        <4> QED
          BY <4>2, <4>3
      <3> QED
        BY <3>1
    <2>7. asked.lock.manifest = first
          /\ Recordings!SplitsApart(Manifests([k \in DOMAIN loaded |-> loaded[k].row]))
      BY <2>1 DEF Comparable
    <2>8. Recordings!SplitsApart(Manifests(first))
      <3>1. first = [k \in DOMAIN first |-> first[k]]
        BY <2>3, ListsAreSequences
      <3>2. [k \in DOMAIN loaded |-> loaded[k].row] = [k \in DOMAIN first |-> first[k]]
        BY <2>3
      <3> QED
        BY <2>7, <3>1, <3>2
    <2>9. \A r \in whole, s \in ToSet(first) \ whole :
            r.groups \cap s.groups = {} /\ r.session # s.session /\ r.recording # s.recording
      <3>1. ASSUME NEW r \in whole, NEW s \in ToSet(first) \ whole
            PROVE  r.groups \cap s.groups = {} /\ r.session # s.session /\ r.recording # s.recording
        <4>1. PICK j \in DOMAIN first : r = first[j]
          BY DEF ToSet
        <4>2. PICK k \in DOMAIN first : s = first[k]
          BY DEF ToSet
        <4>3. first[j].split # first[k].split
          BY <4>1, <4>2
        <4> QED
          BY <2>8, <4>1, <4>2, <4>3, RowsApart
      <3> QED
        BY <3>1
    <2>10. \A v \in of : \E l \in Selected : v.scored = l /\ v.guess = GuessOf(l.row.id)
      OBVIOUS
    <2>11. \A l \in Selected : \E v \in of : v.scored = l
      <3>1. ASSUME NEW l \in Selected
            PROVE  \E v \in of : v.scored = l
        <4>1. [scored |-> l, guess |-> GuessOf(l.row.id)] \in of
          OBVIOUS
        <4> QED
          BY <4>1
      <3> QED
        BY <3>1
    <2> HIDE DEF of, whole
    <2>12. {v.scored.row : v \in of} = whole
      BY <2>5, <2>6, <2>10, <2>11
    <2>13. ASSUME NEW v \in of
           PROVE  /\ v.scored.rttm = v.scored.row.rttm /\ v.scored.uem = v.scored.row.uem
                  /\ v.scored.length = v.scored.row.audio.length
                  /\ ReferenceSound(v.scored.row, v.scored.row.rttm, v.scored.row.uem)
                  /\ \A g \in ToSet(v.guess) : g.file = v.scored.row.id /\ g.to <= v.scored.length
      <3>1. PICK l \in Selected : v.scored = l /\ v.guess = GuessOf(l.row.id)
        BY <2>10
      <3>2. /\ Kept(l, asked.split) /\ l.row.split = asked.split
            /\ l.row.uem \in Seq(ToSet(l.row.uem))
            /\ \A x \in ToSet(l.row.uem) : {x.from, x.to} \subseteq Nat
        BY <2>5
      <3>3. /\ ReferenceSound(l.row, l.row.rttm, l.row.uem)
            /\ \A g \in ToSet(GuessOf(l.row.id)) : g.file = l.row.id /\ g.to <= l.length
        BY <2>1, <3>2, ScorableSound
      <3>4. l.rttm = l.row.rttm /\ l.uem = l.row.uem /\ l.length = l.row.audio.length
        BY <3>2 DEF Kept
      <3> QED
        BY <3>1, <3>3, <3>4
    <2>14. GateOf(measured) = "METRIC_GATES_PASS_REVIEW_REQUIRED" =>
             asked.lock.role = "GOLD" /\ \A r \in whole : r.status = "GOLD_APPROVED"
      BY <2>6, GateIsGold
    <2>15. verdict'.of = of /\ verdict'.gate = GateOf(measured)
      BY <2>1
    <2>16. asked'.lock.manifest = first /\ asked'.split = asked.split /\ asked'.lock.role = asked.lock.role
      BY <1>1, <2>7
    <2>17. ScoredIsDeclared'
      <3>1. {r \in ToSet(asked'.lock.manifest) : r.split = asked'.split} = whole
        BY <2>16 DEF whole
      <3> QED
        BY <2>9, <2>12, <2>13, <2>14, <2>15, <2>16, <3>1 DEF ScoredIsDeclared
    <2> QED
      BY <1>1, <2>1, <2>17 DEF BenchmarkInv, DocumentsOK, Validating, Loading, Guessing
  <1> QED
    BY <1>2, <1>3

-----------------------------------------------------------------------------
(* Theorems *)

LEMMA SwapOK ==
    ASSUME BenchmarkInv, NEW place \in DOMAIN Replacements, Swap(place)
    PROVE  BenchmarkInv'
  <1>1. PICK content \in Replacements[place] : documents' = [documents EXCEPT ![place] = content]
    BY DEF Swap
  <1>2. /\ stop' = stop /\ asked' = asked /\ first' = first /\ rows' = rows /\ at' = at
        /\ loaded' = loaded /\ verdict' = verdict
    BY DEF Swap
  <1>3. DOMAIN documents' = DOMAIN documents
    BY <1>1
  <1>4. documents'[ReferenceList] \in Lists
    <2>1. CASE place = ReferenceList
      BY <1>1, <2>1 DEF BenchmarkInv, DocumentsOK, Lists
    <2>2. CASE place # ReferenceList
      BY <1>1, <2>2 DEF BenchmarkInv, DocumentsOK
    <2> QED
      BY <2>1, <2>2
  <1>5. DocumentsOK'
    BY <1>3, <1>4 DEF BenchmarkInv, DocumentsOK
  <1>6. ScoredIsDeclared'
    BY <1>2, StillDeclared DEF BenchmarkInv
  <1>7. stop \in Loading => LoadingOK'
    BY <1>2 DEF BenchmarkInv, LoadingOK, Snapshots
  <1>8. stop \in Guessing => LoadedOK'
    BY <1>2 DEF BenchmarkInv, LoadedOK
  <1> QED
    BY <1>2, <1>5, <1>6, <1>7, <1>8 DEF BenchmarkInv

LEMMA BenchmarkStutters ==
    ASSUME BenchmarkInv, UNCHANGED benchmarkVars
    PROVE  BenchmarkInv'
  <1>1. /\ stop' = stop /\ asked' = asked /\ first' = first /\ rows' = rows /\ at' = at
        /\ loaded' = loaded /\ verdict' = verdict /\ documents' = documents
    BY DEF benchmarkVars
  <1>2. ScoredIsDeclared'
    BY <1>1, StillDeclared DEF BenchmarkInv
  <1>3. DocumentsOK' /\ (stop \in Loading => LoadingOK') /\ (stop \in Guessing => LoadedOK')
    BY <1>1 DEF BenchmarkInv, DocumentsOK, LoadingOK, LoadedOK, Snapshots
  <1> QED
    BY <1>1, <1>2, <1>3 DEF BenchmarkInv

LEMMA BenchmarkStarts == BenchmarkInit => BenchmarkInv
  <1> SUFFICES ASSUME BenchmarkInit
               PROVE  BenchmarkInv
    OBVIOUS
  <1>1. PICK b \in Benchmarks : documents = b.documents
    BY DEF BenchmarkInit
  <1>2. DocumentsOK
    <2>1. {ReferenceList} \cup DOMAIN Replacements \subseteq DOMAIN documents
      BY <1>1, BenchmarkAssumption
    <2>2. documents[ReferenceList] \in Lists
      BY <1>1 DEF Lists
    <2> QED
      BY <2>1, <2>2 DEF DocumentsOK
  <1>3. stop = "begin" /\ loaded = << >> /\ verdict.is = "none"
    BY DEF BenchmarkInit, Nothing
  <1> QED
    BY <1>2, <1>3 DEF BenchmarkInv, Validating, Loading, Guessing, ScoredIsDeclared

LEMMA BenchmarkSteps == BenchmarkInv /\ [BenchmarkNext]_benchmarkVars => BenchmarkInv'
  <1> SUFFICES ASSUME BenchmarkInv, [BenchmarkNext]_benchmarkVars
               PROVE  BenchmarkInv'
    OBVIOUS
  <1>1. CASE RunStep
    BY <1>1, ValidationOK, LoadReferencesOK, LoadRttmOK, LoadUemOK, LoadAudioOK, EndReferencesOK,
       GuessesOK, JudgeOK DEF RunStep
  <1>2. CASE \E place \in DOMAIN Replacements : Swap(place)
    BY <1>2, SwapOK
  <1>3. CASE UNCHANGED benchmarkVars
    BY <1>3, BenchmarkStutters
  <1> QED
    BY <1>1, <1>2, <1>3 DEF BenchmarkNext

\* Snapshots are of the manifest that was read before validation, all but the last one
\* of them as it declares them (evaluation_io.py _read_reference_rows), whatever is
\* replaced between any two reads.
THEOREM BenchmarkInvariant == BenchmarkSpec => []BenchmarkInv
  BY BenchmarkStarts, BenchmarkSteps, PTL DEF BenchmarkSpec

\* What evaluate_korean_benchmark scores is what the locked manifest declares, all of the
\* split and nothing of another, and gates are passed only by a gold corpus that is
\* approved row by row.
THEOREM BenchmarkScoresDeclared == BenchmarkSpec => []ScoredIsDeclared
  <1>1. BenchmarkInv => ScoredIsDeclared
    BY DEF BenchmarkInv
  <1> QED
    BY <1>1, BenchmarkInvariant, PTL

-----------------------------------------------------------------------------
(* A run that is left alone *)

OfList ==
    {"rttm_digest", "uem_digest", "audio_digest", "layout", "uem", "rttm", "words_uem", "words",
     "load", "load_rttm", "load_uem", "load_audio"}
OnRow ==
    {"uem_digest", "audio_digest", "layout", "uem", "rttm", "words_uem", "words", "load_uem",
     "load_audio"}
NotedFields == {"length", "uem", "scored", "speakers"}

\* Nothing was found against a list and predictions that there is nothing against, and
\* what was noted of a row or of a prediction is what it declares.
Untroubled(list, predicted) ==
    /\ verdict.is # "refused" /\ flaws = {} /\ at \in Nat \ {0} /\ DOMAIN noted = NotedFields
    /\ stop # "begin" => first = list
    /\ stop \in OfList => rows = list
    /\ stop \in OnRow => at <= Len(list)
    /\ stop \in {"uem", "rttm", "words_uem", "words"} => noted.length = list[at].audio.length
    /\ stop = "rttm" => noted.uem = list[at].uem
    /\ stop \in {"words_uem", "words"} =>
         list[at].words # << >> /\ noted.speakers = Intake!Speakers(list[at].rttm)
    /\ stop = "words" => noted.scored = ToSet(list[at].uem)
    /\ stop = "load_uem" => loaded[at].rttm = list[at].rttm
    /\ stop \notin {"guess", "done"} => guesses = << >>
    /\ stop = "guess" =>
         /\ rows = predicted /\ guesses \in Seq(ToSet(guesses)) /\ Len(guesses) = at - 1
         /\ Len(guesses) <= Len(predicted)
         /\ \A k \in 1..Len(guesses) :
              guesses[k].id = predicted[k].id /\ guesses[k].rttm = predicted[k].rttm

Listed == documents[ReferenceList]
Predicted == documents[PredictionList]
LeftAloneOK ==
    /\ swaps \in Nat
    /\ swaps = 0 => Predicted \in Seq(ToSet(Predicted))
    /\ swaps = 0 /\ Blameless => Untroubled(Listed, Predicted)

\* What is scored by intervals that follow each other is all of them.
LEMMA AllScored ==
    ASSUME NEW uem, uem \in Seq(ToSet(uem)), NEW id, NEW duration,
           \A x \in ToSet(uem) :
             /\ x.from \in Nat /\ x.to \in Nat /\ x.from < x.to
             /\ x.file = id /\ x.channel = 1 /\ x.to <= duration,
           \A x, y \in DOMAIN uem : x < y => uem[x].to <= uem[y].from
    PROVE  /\ Intake!Scored(uem, id, duration) = ToSet(uem)
           /\ uem # << >> => ~Intake!UemFlawed(uem, id, duration)
  <1> DEFINE N == Len(uem)
             Fix(g) == g = [k \in 0..N |-> IF k = 0 THEN 0
                                           ELSE IF Intake!Taken(uem[k], g[k - 1]) THEN uem[k].to
                                           ELSE g[k - 1]]
             end == CHOOSE g : Fix(g)
             all == [k \in 0..N |-> IF k = 0 THEN 0 ELSE uem[k].to]
  <1>1. N \in Nat /\ DOMAIN uem = 1..N
    OBVIOUS
  <1>2. \A k \in 1..N : uem[k] \in ToSet(uem)
    BY <1>1 DEF ToSet
  <1>3. Intake!Ends(uem) = end
    BY Zenon DEF Intake!Ends
  <1> HIDE DEF N
  <1>4. \A k \in 1..N : Intake!Taken(uem[k], all[k - 1])
    <2> SUFFICES ASSUME NEW k \in 1..N
                 PROVE  Intake!Taken(uem[k], all[k - 1])
      OBVIOUS
    <2>1. uem[k].from \in Nat /\ uem[k].from < uem[k].to /\ k - 1 \in 0..N
      BY <1>1, <1>2
    <2>2. CASE k = 1
      BY <2>1, <2>2 DEF Intake!Taken
    <2>3. CASE k # 1
      <3>1. k - 1 \in DOMAIN uem /\ k \in DOMAIN uem /\ k - 1 < k /\ k - 1 # 0
        BY <1>1, <2>3
      <3>2. all[k - 1] = uem[k - 1].to
        BY <2>1, <3>1
      <3> QED
        BY <2>1, <3>1, <3>2 DEF Intake!Taken
    <2> QED
      BY <2>2, <2>3
  <1>5. Fix(all)
    <2>1. \A k \in 0..N : all[k] = IF k = 0 THEN 0
                                   ELSE IF Intake!Taken(uem[k], all[k - 1]) THEN uem[k].to
                                   ELSE all[k - 1]
      BY <1>1, <1>4
    <2> QED
      BY <2>1
  <1>6. Fix(end)
    BY <1>5, Zenon
  <1> HIDE DEF end
  <1>7. /\ end[0] = 0
        /\ \A k \in 1..N : end[k] = IF Intake!Taken(uem[k], end[k - 1]) THEN uem[k].to ELSE end[k - 1]
    BY <1>1, <1>6
  <1>8. \A k \in 0..N : end[k] = all[k]
    <2> DEFINE Fail == {k \in 0..N : end[k] # all[k]}
    <2> SUFFICES ASSUME Fail # {}
                 PROVE  FALSE
      OBVIOUS
    <2>1. PICK k \in Fail : \A j \in Fail : k <= j
      <3>1. Fail \subseteq Nat
        BY <1>1
      <3> HIDE DEF Fail
      <3> QED
        BY <3>1, LeastNumber
    <2>2. k # 0
      BY <1>1, <1>7, <2>1
    <2>3. k \in 1..N /\ k - 1 \in 0..N /\ k - 1 < k
      BY <1>1, <2>1, <2>2
    <2>4. end[k - 1] = all[k - 1]
      BY <1>1, <2>1, <2>3
    <2>5. end[k] = uem[k].to
      BY <1>4, <1>7, <2>3, <2>4
    <2>6. all[k] = uem[k].to
      BY <2>3
    <2> QED
      BY <2>1, <2>5, <2>6
  <1>9. Intake!Good(uem, id, duration) = 1..N
    <2>1. \A k \in 1..N : /\ Intake!Taken(uem[k], end[k - 1]) /\ uem[k].file = id
                          /\ uem[k].channel = 1 /\ uem[k].to <= duration
      <3>1. \A k \in 1..N : k - 1 \in 0..N
        BY <1>1
      <3> HIDE DEF all
      <3>2. \A k \in 1..N : Intake!Taken(uem[k], end[k - 1])
        BY <1>4, <1>8, <3>1
      <3> QED
        BY <1>2, <3>2
    <2> QED
      BY <1>1, <1>3, <2>1 DEF Intake!Good
  <1>10. Intake!Scored(uem, id, duration) = ToSet(uem)
    BY <1>1, <1>9 DEF Intake!Scored, ToSet
  <1>11. uem # << >> => ~Intake!UemFlawed(uem, id, duration)
    BY <1>1, <1>9 DEF Intake!UemFlawed
  <1> QED
    BY <1>10, <1>11

\* A row that there is nothing against, by itself.
GoodRow(row) ==
    /\ row.declares = {"audio", "rttm", "uem"} /\ RowComplete(row)
    /\ row.audio.wav /\ row.audio.mono /\ row.audio.rate = row.rate
    /\ ReferenceSound(row, row.rttm, row.uem)
    /\ \A s \in ToSet(row.rttm) : s.who # 0
    /\ \A x \in ToSet(row.rttm) \cup ToSet(row.uem) : x.from < x.to /\ x.channel = 1
    /\ row.uem \in Seq(ToSet(row.uem)) /\ row.audio.length \in Nat
    /\ \A x \in ToSet(row.rttm) \cup ToSet(row.uem) : x.from \in Nat /\ x.to \in Nat

LEMMA SameCount == ASSUME NEW S PROVE Intake!Cardinality(S) = Cardinality(S)
  BY Zenon DEF Intake!Cardinality, Cardinality

LEMMA RowPasses ==
    ASSUME NEW row, GoodRow(row)
    PROVE  /\ ~Intake!RowFlawed(row) /\ ~Intake!LayoutFlawed(row, row.audio)
           /\ ~Intake!AnnotationsFlawed(row, row.rttm, row.uem, row.audio.length)
           /\ Intake!Scored(row.uem, row.id, row.audio.length) = ToSet(row.uem)
           /\ row.uem # << >>
           /\ \A s \in ToSet(row.rttm) :
                /\ s.file = row.id /\ s.to <= row.audio.length
                /\ Intake!Contained(s, ToSet(row.uem))
  <1>1. /\ \A x, y \in DOMAIN row.uem : x < y => row.uem[x].to <= row.uem[y].from
        /\ \A u \in ToSet(row.uem) : u.file = row.id /\ u.to <= row.audio.length
        /\ row.rttm # << >> /\ Cardinality({s.who : s \in ToSet(row.rttm)}) = row.count
        /\ \A s \in ToSet(row.rttm) : s.file = row.id /\ Intake!Contained(s, ToSet(row.uem))
    BY DEF GoodRow, ReferenceSound
  <1>2. row.uem \in Seq(ToSet(row.uem)) /\ row.audio.length \in Nat
    BY DEF GoodRow
  <1>3. \A x \in ToSet(row.rttm) \cup ToSet(row.uem) :
          x.from \in Nat /\ x.to \in Nat /\ x.from < x.to /\ x.channel = 1
    BY DEF GoodRow
  <1>4. /\ Intake!Scored(row.uem, row.id, row.audio.length) = ToSet(row.uem)
        /\ row.uem # << >> => ~Intake!UemFlawed(row.uem, row.id, row.audio.length)
    BY <1>1, <1>2, <1>3, AllScored
  <1>5. PICK s \in ToSet(row.rttm) : TRUE
    <2>1. row.rttm # << >>
      BY <1>1
    <2>2. Cardinality({s.who : s \in ToSet(row.rttm)}) \in {1, 2}
      BY <1>1 DEF GoodRow, RowComplete
    <2>3. ToSet(row.rttm) = {} => {s.who : s \in ToSet(row.rttm)} = {}
      OBVIOUS
    <2>4. Cardinality({}) = 0
      BY FS_EmptySet
    <2> QED
      BY <2>2, <2>3, <2>4
  <1>6. PICK u \in ToSet(row.uem) : u.from <= s.from /\ s.to <= u.to
    BY <1>1, <1>5 DEF Intake!Contained
  <1>7. row.uem # << >> /\ row.audio.length > 0
    <2>1. u.from \in Nat /\ u.to \in Nat /\ u.from < u.to /\ u.to <= row.audio.length
      BY <1>1, <1>3, <1>6
    <2>2. row.uem # << >>
      BY <1>6 DEF ToSet
    <2> QED
      BY <1>2, <2>1, <2>2
  <1>8. \A t \in ToSet(row.rttm) : t.to <= row.audio.length
    <2> SUFFICES ASSUME NEW t \in ToSet(row.rttm)
                 PROVE  t.to <= row.audio.length
      OBVIOUS
    <2>1. PICK v \in ToSet(row.uem) : v.from <= t.from /\ t.to <= v.to
      BY <1>1 DEF Intake!Contained
    <2>2. v.to <= row.audio.length /\ v.to \in Nat /\ t.to \in Nat
      BY <1>1, <1>3, <2>1
    <2> QED
      BY <1>2, <2>1, <2>2
  <1>9. Intake!Segments(row.rttm) = ToSet(row.rttm)
    <2>1. Intake!ToSet(row.rttm) = ToSet(row.rttm)
      BY DEF ToSet, Intake!ToSet
    <2> QED
      BY <1>3, <2>1 DEF Intake!Segments
  <1>10. ~Intake!RttmFlawed(row.rttm, row.id, row.audio.length)
    <2>1. \A t \in ToSet(row.rttm) : /\ ~(t.from >= t.to) /\ t.file = row.id /\ t.channel = 1
                                     /\ t.who # 0 /\ Intake!Opaque(t.who)
                                     /\ ~(t.to > row.audio.length)
      <3>1. \A t \in ToSet(row.rttm) : t.who # 0 /\ Intake!Opaque(t.who)
        BY DEF GoodRow, ReferenceSound
      <3> QED
        BY <1>1, <1>2, <1>3, <1>8, <3>1
    <2>2. Intake!ToSet(row.rttm) = ToSet(row.rttm)
      BY DEF ToSet, Intake!ToSet
    <2> QED
      BY <1>1, <2>1, <2>2 DEF Intake!RttmFlawed
  <1>11. ~Intake!AnnotationsFlawed(row, row.rttm, row.uem, row.audio.length)
    <2>1. Intake!Cardinality(Intake!Speakers(row.rttm)) = row.count
      BY <1>1, <1>9, SameCount DEF Intake!Speakers
    <2> QED
      BY <1>1, <1>4, <1>7, <1>9, <1>10, <2>1 DEF Intake!AnnotationsFlawed
  <1>12. ~Intake!RowFlawed(row)
    BY SameCount DEF Intake!RowFlawed, GoodRow, RowComplete
  <1>13. ~Intake!LayoutFlawed(row, row.audio)
    BY <1>2, <1>7 DEF Intake!LayoutFlawed, GoodRow
  <1> QED
    BY <1>1, <1>4, <1>7, <1>8, <1>11, <1>12, <1>13

LEMMA BlamelessRow ==
    ASSUME DocumentsOK, Blameless, NEW k \in DOMAIN Listed
    PROVE  /\ GoodRow(Listed[k])
           /\ \A kind \in {"audio", "rttm", "uem"} : documents[<< k, kind >>] = Listed[k][kind]
           /\ Listed[k].words # << >> =>
                /\ documents[<< k, "words" >>] = Listed[k].words
                /\ ~Intake!WordsFlawed(Listed[k].words, Listed[k].id, Listed[k].audio.length,
                                       ToSet(Listed[k].uem), Intake!Speakers(Listed[k].rttm))
           /\ Listed[k].policy = "FULL_AUDIO" /\ Listed[k].split = asked.split =>
                Len(Listed[k].uem) = 1 /\ Listed[k].uem[1].from = 0
                /\ Listed[k].uem[1].to = Listed[k].audio.length
  <1> DEFINE row == Listed[k]
  <1>1. SoundFiles(Listed)
    BY DEF Blameless, Listed
  <1>2. /\ \A kind \in {"audio", "rttm", "uem"} : documents[<< k, kind >>] = row[kind]
        /\ row.declares = {"audio", "rttm", "uem"} /\ RowComplete(row)
        /\ row.audio.wav /\ row.audio.mono /\ row.audio.rate = row.rate
        /\ ReferenceSound(row, row.rttm, row.uem) /\ \A s \in ToSet(row.rttm) : s.who # 0
        /\ \A x \in ToSet(row.rttm) \cup ToSet(row.uem) : x.from < x.to /\ x.channel = 1
    BY <1>1 DEF SoundFiles
  <1>3. /\ row.words # << >> =>
             /\ documents[<< k, "words" >>] = row.words
             /\ ~Intake!WordsFlawed(row.words, row.id, row.audio.length, ToSet(row.uem),
                                    Intake!Speakers(row.rttm))
        /\ row.policy = "FULL_AUDIO" /\ row.split = asked.split =>
             Len(row.uem) = 1 /\ row.uem[1].from = 0 /\ row.uem[1].to = row.audio.length
    BY <1>1 DEF SoundFiles
  <1>4. /\ row.uem \in Seq(ToSet(row.uem)) /\ row.audio.length \in Nat
        /\ \A x \in ToSet(row.rttm) \cup ToSet(row.uem) : x.from \in Nat /\ x.to \in Nat
    <2>1. row \in ToSet(Listed) /\ Listed \in Lists
      BY DEF ToSet, DocumentsOK, Listed
    <2> HIDE DEF row
    <2> QED
      BY <2>1, BenchmarkAssumption
  <1>5. GoodRow(row)
    <2> HIDE DEF row
    <2> QED
      BY <1>2, <1>4 DEF GoodRow
  <1> QED
    BY <1>2, <1>3, <1>5

LEMMA BlamelessList ==
    ASSUME DocumentsOK, Blameless
    PROVE  /\ Listed \in Lists /\ Listed \in Seq(ToSet(Listed)) /\ Len(Listed) \in Nat
           /\ DOMAIN Listed = 1..Len(Listed)
           /\ Intake!SplitsMissing(Listed) = {} /\ Recordings!SplitsApart(Manifests(Listed))
           /\ \A j, k \in DOMAIN Listed : Listed[j].id = Listed[k].id => j = k
  <1>1. SoundList(Listed) /\ Listed \in Lists
    BY DEF Blameless, Listed, DocumentsOK
  <1>2. Listed \in Seq(ToSet(Listed)) /\ Len(Listed) \in Nat /\ DOMAIN Listed = 1..Len(Listed)
    BY <1>1, ListsAreSequences
  <1>3. \A j, k \in DOMAIN Listed : Listed[j].id = Listed[k].id => j = k
    BY <1>1 DEF SoundList, IsInjective
  <1>4. \A j, k \in DOMAIN Listed : Listed[j].recording = Listed[k].recording => j = k
    BY <1>1 DEF SoundList, IsInjective
  <1>5. Recordings!SplitsApart(Manifests(Listed))
    <2> DEFINE m == Manifests(Listed)
    <2>1. /\ DOMAIN m = DOMAIN Listed
          /\ \A i \in DOMAIN Listed :
               /\ m[i].id = Listed[i].recording /\ m[i].session = Listed[i].session
               /\ m[i].split = Listed[i].split /\ m[i].speakers = Listed[i].groups
               /\ m[i].source = Listed[i].source /\ m[i].augmentation = Listed[i].augmentation
      BY DEF Manifests
    <2> HIDE DEF m
    <2>2. ASSUME NEW i \in DOMAIN Listed, NEW j \in DOMAIN Listed,
                 Listed[i].split # Listed[j].split
          PROVE  Recordings!Keys(m[i]) \cap Recordings!Keys(m[j]) = {}
      <3>1. /\ Listed[i].groups \cap Listed[j].groups = {}
            /\ Listed[i].session # Listed[j].session
            /\ Listed[i].augmentation # 0 => Listed[i].augmentation # Listed[j].augmentation
            /\ {Listed[i].recording, Listed[i].source} \cap {Listed[j].recording, Listed[j].source}
                 \subseteq {0}
        BY <1>1, <2>2 DEF SoundList
      <3>2. Listed[i].recording # Listed[j].recording
        BY <1>4, <2>2
      <3> DEFINE Source(r) == IF r.source = 0 THEN r.recording ELSE r.source
      <3>3. Source(Listed[i]) # Source(Listed[j])
        <4>1. \A a \in {Listed[i].recording, Listed[i].source},
                 b \in {Listed[j].recording, Listed[j].source} : a = b => a = 0
          BY <3>1
        <4>2. /\ Listed[i].recording = Listed[j].source => Listed[i].recording = 0
              /\ Listed[i].source = Listed[j].recording => Listed[i].source = 0
              /\ Listed[i].source = Listed[j].source => Listed[i].source = 0
          BY <4>1
        <4> QED
          BY <3>2, <4>2
      <3>4. \A k \in DOMAIN Listed :
              Recordings!Keys(m[k]) =
                {<< "session", Listed[k].session >>, << "recording", Listed[k].recording >>,
                 << "source", Source(Listed[k]) >>}
                \cup (IF Listed[k].augmentation = 0 THEN {}
                      ELSE {<< "augmentation", Listed[k].augmentation >>})
                \cup {<< "speaker", s >> : s \in Listed[k].groups}
        BY <2>1 DEF Recordings!Keys
      <3> HIDE DEF Source
      <3>5. \A x : x \in Recordings!Keys(m[i]) => x \notin Recordings!Keys(m[j])
        <4> SUFFICES ASSUME NEW x, x \in Recordings!Keys(m[i]), x \in Recordings!Keys(m[j])
                     PROVE  FALSE
          OBVIOUS
        <4> QED
          BY <3>1, <3>2, <3>3, <3>4
      <3> QED
        BY <3>5
    <2>3. \A i, j \in DOMAIN m : m[i].id = m[j].id => i = j
      BY <1>4, <2>1
    <2>4. \A i, j \in DOMAIN m :
            Recordings!Keys(m[i]) \cap Recordings!Keys(m[j]) # {} => m[i].split = m[j].split
      BY <2>1, <2>2
    <2>5. Recordings!IsInjective([i \in DOMAIN m |-> m[i].id])
      BY <2>3 DEF Recordings!IsInjective
    <2> QED
      BY <2>4, <2>5 DEF Recordings!SplitsApart, m
  <1> QED
    BY <1>1, <1>2, <1>3, <1>5 DEF SoundList

\* A step that replaces no file.
LEMMA AloneStays ==
    ASSUME LeftAloneOK, documents' = documents, asked' = asked, swaps' = swaps,
           swaps = 0 /\ Blameless /\ Untroubled(Listed, Predicted) => Untroubled(Listed, Predicted)'
    PROVE  LeftAloneOK'
  <1>1. Blameless' = Blameless
    BY DEF Blameless, SoundFiles, SoundGuesses
  <1>2. Listed' = Listed /\ Predicted' = Predicted
    BY DEF Listed, Predicted
  <1> QED
    BY <1>1, <1>2 DEF LeftAloneOK

\* Validation of a row that there is nothing against.
LEMMA AloneChecks ==
    ASSUME NEW list, NEW predicted, list = Listed, predicted = Predicted, BenchmarkInv, Blameless,
           Untroubled(list, predicted), BeginRun \/ ListRows \/ CheckRow
    PROVE  Untroubled(list, predicted)'
  <1>1. CASE BeginRun
    BY <1>1 DEF BeginRun, Untroubled, Listed, OfList, OnRow
  <1>2. CASE ListRows
    BY <1>2 DEF ListRows, Untroubled, Listed, OfList, OnRow
  <1>3. CASE CheckRow
    <2>1. stop \in {"rttm_digest", "uem_digest", "audio_digest"} /\ at \in 1..Len(list) /\ rows = list
      <3>1. stop \in {"rttm_digest", "uem_digest", "audio_digest"} /\ at <= Len(rows)
        BY <1>3 DEF CheckRow, CheckDigest
      <3>2. rows = list /\ at \in Nat \ {0}
        BY <3>1 DEF Untroubled, OfList
      <3>3. Len(list) \in Nat
        BY BlamelessList DEF BenchmarkInv
      <3> QED
        BY <3>1, <3>2, <3>3
    <2>2. at \in DOMAIN list
      BY <2>1, BlamelessList DEF BenchmarkInv
    <2>3. ~Intake!RowFlawed(list[at])
      BY <2>2, BlamelessRow, RowPasses DEF BenchmarkInv
    <2>4. \A k \in 1..(at - 1) : list[k].id # list[at].id
      <3>1. \A k \in 1..(at - 1) : k \in DOMAIN list /\ k # at
        BY <2>1, BlamelessList DEF BenchmarkInv
      <3> QED
        BY <2>2, <3>1, BlamelessList DEF BenchmarkInv
    <2>5. \A kind \in {"rttm", "uem", "audio"} : list[at][kind] = documents[<< at, kind >>]
      BY <2>2, BlamelessRow DEF BenchmarkInv
    <2>6. flaws' = flaws /\ stop' \in {"uem_digest", "audio_digest", "layout"}
          /\ UNCHANGED << first, rows, at, noted, loaded, guesses, verdict >>
      <3>1. CASE CheckDigest("rttm", "rttm_digest", "uem_digest",
                             at <= Len(rows) /\ (Intake!RowFlawed(Row) \/ \E k \in 1..(at - 1) : rows[k].id = Row.id))
        BY <2>1, <2>3, <2>4, <2>5, <3>1 DEF CheckDigest, Note, Row, Held
      <3>2. CASE CheckDigest("uem", "uem_digest", "audio_digest", FALSE)
        BY <2>1, <2>5, <3>2 DEF CheckDigest, Note, Row, Held
      <3>3. CASE CheckDigest("audio", "audio_digest", "layout", FALSE)
        BY <2>1, <2>5, <3>3 DEF CheckDigest, Note, Row, Held
      <3> QED
        BY <1>3, <3>1, <3>2, <3>3 DEF CheckRow
    <2> QED
      BY <2>1, <2>6 DEF Untroubled, OfList, OnRow
  <1> QED
    BY <1>1, <1>2, <1>3

\* What is known of the row that is worked on.
LEMMA AtRow ==
    ASSUME DocumentsOK, Blameless, stop \in OnRow, NEW list, NEW predicted, list = Listed,
           Untroubled(list, predicted)
    PROVE  /\ at \in DOMAIN list /\ Row = list[at] /\ GoodRow(list[at])
           /\ \A kind \in {"audio", "rttm", "uem"} : Held(kind) = list[at][kind]
           /\ list[at].words # << >> =>
                /\ Held("words") = list[at].words
                /\ ~Intake!WordsFlawed(list[at].words, list[at].id, list[at].audio.length,
                                       ToSet(list[at].uem), Intake!Speakers(list[at].rttm))
  <1>1. rows = list /\ at \in Nat \ {0} /\ at <= Len(list)
    BY DEF Untroubled, OnRow, OfList
  <1>2. at \in DOMAIN list
    BY <1>1, BlamelessList
  <1> QED
    BY <1>1, <1>2, BlamelessRow DEF Row, Held

LEMMA AloneReads ==
    ASSUME NEW list, NEW predicted, list = Listed, predicted = Predicted, BenchmarkInv, Blameless,
           Untroubled(list, predicted),
           ReadLayout \/ ReadUem \/ ReadRttm \/ ReadUemAgain \/ ReadWords
    PROVE  Untroubled(list, predicted)'
  <1>1. stop \in {"layout", "uem", "rttm", "words_uem", "words"} /\ stop \in OnRow /\ stop \in OfList
    BY DEF ReadLayout, ReadUem, ReadRttm, ReadUemAgain, ReadWords, OnRow, OfList
  <1>2. /\ at \in DOMAIN list /\ Row = list[at] /\ GoodRow(list[at])
        /\ \A kind \in {"audio", "rttm", "uem"} : Held(kind) = list[at][kind]
        /\ list[at].words # << >> =>
             /\ Held("words") = list[at].words
             /\ ~Intake!WordsFlawed(list[at].words, list[at].id, list[at].audio.length,
                                    ToSet(list[at].uem), Intake!Speakers(list[at].rttm))
    BY <1>1, AtRow DEF BenchmarkInv
  <1> DEFINE row == list[at]
  <1>3. /\ ~Intake!LayoutFlawed(row, row.audio) /\ row.audio.wav
        /\ ~Intake!AnnotationsFlawed(row, row.rttm, row.uem, row.audio.length)
        /\ Intake!Scored(row.uem, row.id, row.audio.length) = ToSet(row.uem)
    BY <1>2, RowPasses DEF GoodRow
  <1>4. Held("audio") = row.audio /\ Held("rttm") = row.rttm /\ Held("uem") = row.uem
    BY <1>2
  <1>5. /\ verdict.is # "refused" /\ flaws = {} /\ at \in Nat \ {0} /\ at <= Len(list)
        /\ DOMAIN noted = NotedFields /\ first = list /\ rows = list /\ guesses = << >>
        /\ stop # "layout" => noted.length = row.audio.length
        /\ stop = "rttm" => noted.uem = row.uem
        /\ stop \in {"words_uem", "words"} =>
             row.words # << >> /\ noted.speakers = Intake!Speakers(row.rttm)
        /\ stop = "words" => noted.scored = ToSet(row.uem)
    BY <1>1 DEF Untroubled
  <1>6. at + 1 \in Nat \ {0} /\ DOMAIN Unknown = NotedFields
    BY <1>5 DEF Unknown, NotedFields
  <1>7. UNCHANGED << first, rows, guesses, verdict >>
    BY DEF ReadLayout, ReadUem, ReadRttm, ReadUemAgain, ReadWords
  <1> HIDE DEF row
  <1>8. CASE ReadLayout
    <2>1. /\ stop = "layout" /\ stop' = "uem" /\ at' = at /\ flaws' = flaws
          /\ noted' = [noted EXCEPT !.length = row.audio.length]
      BY <1>2, <1>3, <1>4, <1>8 DEF ReadLayout, Note, row
    <2>2. DOMAIN noted' = NotedFields /\ noted'.length = row.audio.length
      BY <1>5, <2>1 DEF NotedFields
    <2> QED
      BY <1>5, <1>7, <2>1, <2>2 DEF Untroubled, OnRow, OfList, row
  <1>9. CASE ReadUem
    <2>1. /\ stop = "uem" /\ stop' = "rttm" /\ at' = at /\ flaws' = flaws
          /\ noted' = [noted EXCEPT !.uem = row.uem]
      BY <1>4, <1>9 DEF ReadUem
    <2>2. DOMAIN noted' = NotedFields /\ noted'.length = row.audio.length /\ noted'.uem = row.uem
      BY <1>5, <2>1 DEF NotedFields
    <2> QED
      BY <1>5, <1>7, <2>1, <2>2 DEF Untroubled, OnRow, OfList, row
  <1>10. CASE ReadRttm
    <2>1. /\ stop = "rttm" /\ flaws' = flaws
          /\ IF row.words = << >> THEN stop' = "rttm_digest" /\ NextRow
             ELSE /\ stop' = "words_uem" /\ at' = at
                  /\ noted' = [noted EXCEPT !.speakers = Intake!Speakers(row.rttm)]
      BY <1>2, <1>3, <1>4, <1>5, <1>10 DEF ReadRttm, Note, row
    <2>2. CASE row.words = << >>
      BY <1>5, <1>6, <1>7, <2>1, <2>2 DEF Untroubled, OnRow, OfList, NextRow
    <2>3. CASE row.words # << >>
      <3>1. /\ DOMAIN noted' = NotedFields /\ noted'.length = row.audio.length
            /\ noted'.speakers = Intake!Speakers(row.rttm)
        BY <1>5, <2>1, <2>3 DEF NotedFields
      <3> QED
        BY <1>5, <1>7, <2>1, <2>3, <3>1 DEF Untroubled, OnRow, OfList, row
    <2> QED
      BY <2>2, <2>3
  <1>11. CASE ReadUemAgain
    <2>1. /\ stop = "words_uem" /\ stop' = "words" /\ at' = at /\ flaws' = flaws
          /\ noted' = [noted EXCEPT !.scored = ToSet(row.uem)]
      BY <1>2, <1>3, <1>4, <1>5, <1>11 DEF ReadUemAgain, row
    <2>2. /\ DOMAIN noted' = NotedFields /\ noted'.length = row.audio.length
          /\ noted'.scored = ToSet(row.uem) /\ noted'.speakers = Intake!Speakers(row.rttm)
      BY <1>5, <2>1 DEF NotedFields
    <2> QED
      BY <1>5, <1>7, <2>1, <2>2 DEF Untroubled, OnRow, OfList, row
  <1>12. CASE ReadWords
    <2>1. stop = "words" /\ stop' = "rttm_digest" /\ NextRow /\ flaws' = flaws
      BY <1>2, <1>5, <1>12 DEF ReadWords, Note, row
    <2> QED
      BY <1>5, <1>6, <1>7, <2>1 DEF Untroubled, OnRow, OfList, NextRow
  <1> QED
    BY <1>8, <1>9, <1>10, <1>11, <1>12

LEMMA AloneLoads ==
    ASSUME NEW list, NEW predicted, list = Listed, predicted = Predicted, BenchmarkInv, Blameless,
           Untroubled(list, predicted),
           EndValidation \/ LoadReferences \/ LoadRttm \/ LoadUem \/ LoadAudio \/ EndReferences
    PROVE  Untroubled(list, predicted)'
  <1>1. /\ stop \in {"rttm_digest", "load", "load_rttm", "load_uem", "load_audio"} /\ stop \in OfList
        /\ UNCHANGED << first, flaws, noted, guesses >>
    BY DEF EndValidation, LoadReferences, Load, LoadRttm, LoadUem, LoadAudio, EndReferences, OfList
  <1>2. /\ verdict.is # "refused" /\ flaws = {} /\ at \in Nat \ {0} /\ DOMAIN noted = NotedFields
        /\ first = list /\ rows = list /\ guesses = << >>
    BY <1>1 DEF Untroubled
  <1>3. /\ list \in Seq(ToSet(list)) /\ Len(list) \in Nat /\ list \in Lists
        /\ Intake!SplitsMissing(list) = {} /\ Recordings!SplitsApart(Manifests(list))
    BY BlamelessList DEF BenchmarkInv
  <1>4. list # << >>
    <2>1. {r \in ToSet(list) : r.split = asked.split} # {}
      BY DEF Blameless, Listed
    <2> QED
      BY <2>1 DEF ToSet
  <1>5. CASE EndValidation
    BY <1>1, <1>2, <1>3, <1>5 DEF EndValidation, Untroubled, OfList, OnRow
  <1>6. CASE LoadReferences
    <2>1. rows' = list /\ at' = 1 /\ stop' = "load_rttm" /\ verdict' = verdict
      BY <1>6 DEF LoadReferences, Load, Listed, ReferenceList
    <2> QED
      BY <1>1, <1>2, <2>1 DEF Untroubled, OfList, OnRow
  <1>7. CASE LoadRttm
    <2> DEFINE l == [row |-> Row, rttm |-> Held("rttm"), uem |-> << >>, length |-> 0]
    <2>1. /\ stop = "load_rttm" /\ at <= Len(list) /\ stop' = "load_uem"
          /\ loaded' = Append(loaded, l) /\ UNCHANGED << rows, at, verdict >>
      BY <1>2, <1>7 DEF LoadRttm
    <2>2. loaded \in Seq(ToSet(loaded)) /\ Len(loaded) = at - 1
      BY <2>1 DEF BenchmarkInv, Loading, LoadingOK, Snapshots
    <2>3. l.rttm = list[at].rttm
      <3>1. at \in DOMAIN list
        BY <1>2, <1>3, <2>1
      <3>2. documents[<< at, "rttm" >>] = list[at]["rttm"]
        BY <3>1, BlamelessRow DEF BenchmarkInv
      <3> QED
        BY <3>2 DEF Held
    <2> HIDE DEF l
    <2>4. loaded'[at] = l
      BY <1>2, <2>1, <2>2, Appended
    <2> QED
      BY <1>1, <1>2, <2>1, <2>3, <2>4 DEF Untroubled, OfList, OnRow
  <1>8. CASE LoadUem
    <2>1. stop \in OnRow /\ at <= Len(list) /\ loaded[at].rttm = list[at].rttm
      BY <1>8 DEF LoadUem, OnRow, Untroubled
    <2>2. Row = list[at] /\ GoodRow(list[at]) /\ Held("uem") = list[at]["uem"]
      BY <2>1, AtRow DEF BenchmarkInv
    <2>3. AsDeclared(Row, loaded[at].rttm, Held("uem")) /\ RowComplete(Row)
      BY <2>1, <2>2 DEF AsDeclared, GoodRow
    <2>4. /\ (stop' = "load_audio" /\ at' = at) \/ (stop' = "load_rttm" /\ at' = at + 1)
          /\ rows' = rows /\ verdict' = verdict
      BY <1>8, <2>3 DEF LoadUem
    <2> QED
      BY <1>1, <1>2, <2>1, <2>4 DEF Untroubled, OfList, OnRow
  <1>9. CASE LoadAudio
    <2>1. stop \in OnRow /\ at <= Len(list)
      BY <1>9 DEF LoadAudio, OnRow, Untroubled
    <2>2. Row = list[at] /\ GoodRow(list[at]) /\ Held("audio") = list[at]["audio"]
      BY <2>1, AtRow DEF BenchmarkInv
    <2>3. Row.audio = Held("audio") /\ Held("audio").wav /\ ~Intake!LayoutFlawed(Row, Held("audio"))
      BY <2>2, RowPasses DEF GoodRow
    <2>4. stop' = "load_rttm" /\ at' = at + 1 /\ UNCHANGED << rows, verdict >>
      BY <1>9, <2>3 DEF LoadAudio
    <2> QED
      BY <1>1, <1>2, <2>1, <2>4 DEF Untroubled, OfList, OnRow
  <1>10. CASE EndReferences
    <2>1. stop' = "predictions" /\ UNCHANGED << rows, at, verdict >>
      BY <1>2, <1>4, <1>10 DEF EndReferences
    <2> QED
      BY <1>1, <1>2, <2>1 DEF Untroubled, OfList, OnRow
  <1> QED
    BY <1>5, <1>6, <1>7, <1>8, <1>9, <1>10

LEMMA AloneGuesses ==
    ASSUME NEW list, NEW predicted, list = Listed, predicted = Predicted, BenchmarkInv, Blameless,
           Untroubled(list, predicted), predicted \in Seq(ToSet(predicted)),
           LoadPredictions \/ LoadGuess
    PROVE  Untroubled(list, predicted)'
  <1>1. /\ stop \in {"predictions", "guess"} /\ UNCHANGED << first, flaws, noted, loaded >>
    BY DEF LoadPredictions, Load, LoadGuess
  <1>2. /\ verdict.is # "refused" /\ flaws = {} /\ at \in Nat \ {0} /\ DOMAIN noted = NotedFields
        /\ first = list
    BY <1>1 DEF Untroubled
  <1>3. Len(predicted) \in Nat
    OBVIOUS
  <1>4. CASE LoadPredictions
    <2>1. rows' = predicted /\ at' = 1 /\ stop' = "guess" /\ UNCHANGED << guesses, verdict >>
      BY <1>4 DEF LoadPredictions, Load, Predicted, PredictionList
    <2>2. guesses = << >> /\ guesses \in Seq(ToSet(guesses)) /\ Len(guesses) = 0
      BY <1>4 DEF Untroubled, LoadPredictions
    <2> QED
      BY <1>1, <1>2, <1>3, <2>1, <2>2 DEF Untroubled, OfList, OnRow
  <1>5. CASE LoadGuess
    <2> DEFINE guess == documents[<< Row.file, "guess" >>]
               g == [id |-> Row.id, rttm |-> guess]
    <2>1. /\ stop = "guess" /\ at <= Len(rows) /\ guesses' = Append(guesses, g) /\ rows' = rows
          /\ IF Row.rttm = guess THEN at' = at + 1 /\ stop' = stop /\ verdict' = verdict
             ELSE RefuseRun /\ at' = at
      BY <1>5 DEF LoadGuess
    <2>2. /\ rows = predicted /\ guesses \in Seq(ToSet(guesses)) /\ Len(guesses) = at - 1
          /\ \A k \in 1..Len(guesses) :
               guesses[k].id = predicted[k].id /\ guesses[k].rttm = predicted[k].rttm
      BY <2>1 DEF Untroubled
    <2>3. Row.rttm = guess
      <3>1. Row = predicted[at] /\ Row \in ToSet(predicted)
        BY <1>2, <1>3, <2>1, <2>2 DEF Row, ToSet
      <3>2. SoundGuesses(list, predicted)
        BY DEF Blameless, Listed, Predicted
      <3> QED
        BY <3>1, <3>2 DEF SoundGuesses
    <2>4. at' = at + 1 /\ stop' = stop /\ verdict' = verdict
      BY <2>1, <2>3
    <2>5. g.id = predicted[at].id /\ g.rttm = predicted[at].rttm
      BY <2>2, <2>3 DEF Row
    <2> HIDE DEF g
    <2>6. /\ guesses' \in Seq(ToSet(guesses')) /\ Len(guesses') = at' - 1
          /\ \A k \in 1..Len(guesses) : guesses'[k] = guesses[k]
          /\ guesses'[at] = g
      BY <1>2, <2>1, <2>2, <2>4, Appended
    <2>7. \A k \in 1..Len(guesses') :
            guesses'[k].id = predicted[k].id /\ guesses'[k].rttm = predicted[k].rttm
      <3> SUFFICES ASSUME NEW k \in 1..Len(guesses')
                   PROVE  guesses'[k].id = predicted[k].id /\ guesses'[k].rttm = predicted[k].rttm
        OBVIOUS
      <3>1. CASE k = at
        BY <2>5, <2>6, <3>1
      <3>2. CASE k # at
        <4>1. k \in 1..Len(guesses)
          BY <1>2, <2>2, <2>4, <2>6, <3>2
        <4> QED
          BY <2>2, <2>6, <4>1
      <3> QED
        BY <3>1, <3>2
    <2>8. Len(guesses') <= Len(predicted) /\ at' \in Nat \ {0}
      BY <1>2, <2>1, <2>2, <2>4, <2>6
    <2> QED
      BY <1>1, <1>2, <2>1, <2>2, <2>4, <2>6, <2>7, <2>8 DEF Untroubled, OfList, OnRow
  <1> QED
    BY <1>4, <1>5

\* The prediction of a recording is the one that was listed for it.
LEMMA GuessIsListed ==
    ASSUME NEW list, NEW predicted, SoundGuesses(list, predicted),
           NEW r, r \in ToSet(list), r.split = asked.split, list \in Seq(ToSet(list)),
           predicted \in Seq(ToSet(predicted)), guesses \in Seq(ToSet(guesses)),
           Len(guesses) = Len(predicted),
           \A k \in 1..Len(guesses) : guesses[k].id = predicted[k].id /\ guesses[k].rttm = predicted[k].rttm
    PROVE  \A g \in ToSet(GuessOf(r.id)) :
             /\ g.file = r.id /\ g.channel = 1 /\ g.from < g.to /\ g.to <= r.audio.length
             /\ g.who # -2
  <1>1. PICK k \in DOMAIN list : list[k] = r
    BY DEF ToSet
  <1>2. r.id \in Range(Ids(list))
    BY <1>1 DEF Range, Ids
  <1>3. PICK i \in DOMAIN predicted : predicted[i].id = r.id
    BY <1>2 DEF SoundGuesses, Range, Ids
  <1>4. \E g \in ToSet(guesses) : g.id = r.id
    <2>1. i \in 1..Len(guesses) /\ guesses[i].id = r.id
      BY <1>3
    <2> QED
      BY <2>1 DEF ToSet
  <1> DEFINE g == CHOOSE x \in ToSet(guesses) : x.id = r.id
  <1>5. g \in ToSet(guesses) /\ g.id = r.id /\ GuessOf(r.id) = g.rttm
    BY <1>4 DEF GuessOf
  <1> HIDE DEF g
  <1>6. PICK j \in 1..Len(guesses) : guesses[j] = g
    BY <1>5 DEF ToSet
  <1> DEFINE p == predicted[j]
  <1>7. p \in ToSet(predicted) /\ p.id = r.id /\ p.rttm = g.rttm
    <2>1. j \in DOMAIN predicted
      BY <1>6
    <2> QED
      BY <1>5, <1>6, <2>1 DEF ToSet
  <1> HIDE DEF p
  <1>8. \A x \in ToSet(p.rttm) :
          /\ x.file = p.id /\ x.channel = 1 /\ x.from < x.to /\ x.to <= r.audio.length
          /\ x.who # -2
    BY <1>7 DEF SoundGuesses
  <1> QED
    BY <1>5, <1>7, <1>8

LEMMA AloneJudges ==
    ASSUME NEW list, NEW predicted, list = Listed, predicted = Predicted, BenchmarkInv, Blameless,
           Untroubled(list, predicted), predicted \in Seq(ToSet(predicted)),
           NEW measured, Judge(measured)
    PROVE  Untroubled(list, predicted)'
  <1> DEFINE whole == {r \in ToSet(list) : r.split = asked.split}
  <1>1. /\ SoundGuesses(list, predicted) /\ asked.lock.manifest = list /\ asked.lock.splits = list
        /\ whole # {} /\ BootstrapWork(whole) <= MaxWork
        /\ asked.lock.role = "SILVER" => \A r \in whole : r.status \in {"SILVER", "CONVERTED_PROVISIONAL"}
        /\ asked.lock.role = "CHALLENGE" => \A r \in whole : r.status = "CHALLENGE"
    BY DEF Blameless, Listed, Predicted
  <1>2. /\ list \in Lists /\ list \in Seq(ToSet(list)) /\ Len(list) \in Nat /\ DOMAIN list = 1..Len(list)
        /\ Recordings!SplitsApart(Manifests(list))
        /\ \A j, k \in DOMAIN list : list[j].id = list[k].id => j = k
    BY BlamelessList DEF BenchmarkInv
  <1>3. stop = "guess" /\ at > Len(rows)
    BY DEF Judge
  <1>4. /\ verdict.is # "refused" /\ flaws = {} /\ at \in Nat \ {0} /\ DOMAIN noted = NotedFields
        /\ first = list /\ rows = predicted /\ guesses \in Seq(ToSet(guesses)) /\ Len(guesses) = at - 1
        /\ Len(guesses) <= Len(predicted)
        /\ \A k \in 1..Len(guesses) :
             guesses[k].id = predicted[k].id /\ guesses[k].rttm = predicted[k].rttm
    BY <1>3 DEF Untroubled
  <1>5. Len(predicted) \in Nat /\ Len(guesses) = Len(predicted)
    BY <1>3, <1>4
  <1>6. /\ DOMAIN loaded = DOMAIN list
        /\ \A k \in DOMAIN list : loaded[k].row = list[k] /\ Kept(loaded[k], asked.split)
    BY <1>3, <1>4 DEF BenchmarkInv, Guessing, LoadedOK
  <1>7. \A r \in ToSet(list) : \E k \in DOMAIN list : r = list[k]
    BY DEF ToSet
  <1>8. Ids(guesses) = Ids(predicted)
    <2>1. DOMAIN guesses = 1..Len(guesses) /\ DOMAIN predicted = 1..Len(guesses)
      BY <1>4, <1>5
    <2> QED
      BY <1>4, <2>1 DEF Ids
  <1>9. ReferenceIds = Ids(list)
    BY <1>6 DEF ReferenceIds, Ids
  <1>10. [k \in DOMAIN loaded |-> loaded[k].row] = list
    <2>1. [k \in DOMAIN loaded |-> loaded[k].row] = [k \in DOMAIN list |-> list[k]]
      BY <1>6
    <2>2. [k \in DOMAIN list |-> list[k]] = list
      BY <1>2
    <2> QED
      BY <2>1, <2>2
  <1>11. \A l \in Selected : \E k \in DOMAIN list : l = loaded[k] /\ list[k] \in whole /\ l.row = list[k]
    <2>1. \A k \in DOMAIN list : list[k] \in ToSet(list)
      BY DEF ToSet
    <2> QED
      BY <1>6, <2>1 DEF Selected, ToSet
  <1>12. Comparable
    <2>1. IsInjective(ReferenceIds) /\ IsInjective(Ids(guesses))
      <3>1. IsInjective(Ids(list))
        BY <1>2 DEF IsInjective, Ids
      <3> QED
        BY <1>1, <1>8, <1>9, <3>1 DEF SoundGuesses
    <2>2. Recordings!SplitsApart(Manifests([k \in DOMAIN loaded |-> loaded[k].row]))
      BY <1>2, <1>10
    <2>3. Range(ReferenceIds) = Range(Ids(guesses))
      BY <1>1, <1>8, <1>9 DEF SoundGuesses
    <2>4. Selected # {}
      <3>1. PICK r \in ToSet(list) : r.split = asked.split
        BY <1>1
      <3>2. PICK k \in DOMAIN list : r = list[k]
        BY <1>7
      <3>3. loaded[k] \in ToSet(loaded) /\ loaded[k].row.split = asked.split
        BY <1>6, <3>1, <3>2 DEF ToSet
      <3> QED
        BY <3>3 DEF Selected
    <2>5. RolesFit
      <3> HIDE DEF whole
      <3> QED
        BY <1>1, <1>11 DEF RolesFit
    <2>6. {l.row : l \in Selected} = whole
      <3>1. \A r \in whole : \E k \in DOMAIN list : r = list[k] /\ loaded[k] \in Selected
        BY <1>6, <1>7 DEF Selected, ToSet
      <3> QED
        BY <1>6, <1>11, <3>1
    <2>7. BootstrapWork({l.row : l \in Selected}) <= MaxWork
      BY <1>1, <2>6
    <2> QED
      BY <1>1, <1>4, <2>1, <2>2, <2>3, <2>4, <2>5, <2>7 DEF Comparable
  <1>13. ASSUME NEW l \in Selected
         PROVE  Scorable(l)
    <2>1. PICK k \in DOMAIN list : l = loaded[k] /\ list[k] \in whole /\ l.row = list[k]
      BY <1>11
    <2> DEFINE row == list[k]
    <2>2. /\ GoodRow(row)
          /\ row.policy = "FULL_AUDIO" /\ row.split = asked.split =>
               Len(row.uem) = 1 /\ row.uem[1].from = 0 /\ row.uem[1].to = row.audio.length
      BY BlamelessRow DEF BenchmarkInv
    <2>3. row.split = asked.split /\ row \in ToSet(list)
      BY <2>1
    <2>4. /\ l.rttm = row.rttm /\ l.uem = row.uem /\ l.length = row.audio.length
          /\ l.row.id = row.id /\ l.row.policy = row.policy /\ l.row.count = row.count
      BY <1>6, <2>1, <2>3 DEF Kept
    <2> HIDE DEF row
    <2>5. /\ \A s \in ToSet(row.rttm) :
               s.file = row.id /\ s.to <= row.audio.length /\ Intake!Contained(s, ToSet(row.uem))
      BY <2>2, RowPasses
    <2>6. /\ \A x \in ToSet(row.rttm) \cup ToSet(row.uem) : x.from < x.to /\ x.channel = 1
          /\ \A u \in ToSet(row.uem) : u.file = row.id /\ u.to <= row.audio.length
          /\ \A x, y \in DOMAIN row.uem : x < y => row.uem[x].to <= row.uem[y].from
          /\ Cardinality({s.who : s \in ToSet(row.rttm)}) = row.count
          /\ row.uem \in Seq(ToSet(row.uem))
      BY <2>2 DEF GoodRow, ReferenceSound
    <2>7. \A g \in ToSet(GuessOf(row.id)) :
            /\ g.file = row.id /\ g.channel = 1 /\ g.from < g.to /\ g.to <= row.audio.length
            /\ g.who # -2
      <3>1. /\ row \in ToSet(list) /\ row.split = asked.split /\ SoundGuesses(list, predicted)
            /\ list \in Seq(ToSet(list)) /\ predicted \in Seq(ToSet(predicted))
            /\ guesses \in Seq(ToSet(guesses)) /\ Len(guesses) = Len(predicted)
        BY <1>1, <1>2, <1>4, <1>5, <2>3
      <3>2. \A j \in 1..Len(guesses) :
              guesses[j].id = predicted[j].id /\ guesses[j].rttm = predicted[j].rttm
        BY <1>4
      <3> QED
        BY <3>1, <3>2, GuessIsListed
    <2>8. UemInOrder(row.uem)
      <3>1. \A j \in 2..Len(row.uem) : j - 1 \in DOMAIN row.uem /\ j \in DOMAIN row.uem /\ j - 1 < j
        BY <2>6
      <3> QED
        BY <2>6, <3>1 DEF UemInOrder
    <2>9. LabelsFit(ToSet(row.rttm), ToSet(GuessOf(row.id)))
      BY <2>2, <2>7 DEF LabelsFit, GoodRow, ReferenceSound, Intake!Opaque
    <2> QED
      BY <2>2, <2>3, <2>4, <2>5, <2>6, <2>7, <2>8, <2>9 DEF Scorable
  <1>14. rows # << >>
    <2>1. PICK k \in DOMAIN list : TRUE
      BY <1>1, <1>7
    <2>2. list[k].id \in Range(Ids(predicted))
      BY <1>1, <2>1 DEF SoundGuesses, Range, Ids
    <2>3. DOMAIN predicted # {}
      BY <2>2 DEF Range, Ids
    <2> QED
      BY <1>4, <2>3
  <1>15. /\ stop' = "done" /\ verdict'.is = "scored"
         /\ UNCHANGED << at, flaws, noted, first >>
    BY <1>12, <1>13, <1>14 DEF Judge
  <1> QED
    BY <1>4, <1>15 DEF Untroubled, OfList, OnRow

LEMMA AloneStarts == BenchmarkInit => LeftAloneOK
  <1> SUFFICES ASSUME BenchmarkInit
               PROVE  LeftAloneOK
    OBVIOUS
  <1>1. PICK b \in Benchmarks : documents = b.documents
    BY DEF BenchmarkInit
  <1>2. Predicted \in Seq(ToSet(Predicted))
    BY <1>1, BenchmarkAssumption DEF Predicted
  <1>3. Untroubled(Listed, Predicted)
    BY DEF BenchmarkInit, Untroubled, OfList, OnRow, Nothing, Unknown, NotedFields
  <1> QED
    BY <1>2, <1>3 DEF LeftAloneOK, BenchmarkInit

LEMMA AloneSteps == LeftAloneOK /\ BenchmarkInv /\ [BenchmarkNext]_benchmarkVars => LeftAloneOK'
  <1> SUFFICES ASSUME LeftAloneOK, BenchmarkInv, [BenchmarkNext]_benchmarkVars
               PROVE  LeftAloneOK'
    OBVIOUS
  <1>1. CASE RunStep
    <2>1. documents' = documents /\ asked' = asked /\ swaps' = swaps
      BY <1>1 DEF RunStep, BeginRun, ListRows, CheckRow, CheckDigest, ReadLayout, ReadUem, ReadRttm,
         ReadUemAgain, ReadWords, EndValidation, LoadReferences, LoadRttm, LoadUem, LoadAudio,
         EndReferences, LoadPredictions, LoadGuess, Load, Judge
    <2>2. ASSUME swaps = 0, Blameless, Untroubled(Listed, Predicted)
          PROVE  Untroubled(Listed, Predicted)'
      <3>1. PICK list : list = Listed
        OBVIOUS
      <3>2. PICK predicted : predicted = Predicted
        OBVIOUS
      <3>3. Untroubled(list, predicted) /\ predicted \in Seq(ToSet(predicted))
        BY <2>2, <3>1, <3>2 DEF LeftAloneOK
      <3>4. CASE BeginRun \/ ListRows \/ CheckRow
        <4>1. Untroubled(list, predicted)'
          BY <2>2, <3>1, <3>2, <3>3, <3>4, AloneChecks
        <4> QED
          BY <2>1, <3>1, <3>2, <4>1 DEF Listed, Predicted
      <3>5. CASE ReadLayout \/ ReadUem \/ ReadRttm \/ ReadUemAgain \/ ReadWords
        <4>1. Untroubled(list, predicted)'
          BY <2>2, <3>1, <3>2, <3>3, <3>5, AloneReads
        <4> QED
          BY <2>1, <3>1, <3>2, <4>1 DEF Listed, Predicted
      <3>6. CASE EndValidation \/ LoadReferences \/ LoadRttm \/ LoadUem \/ LoadAudio \/ EndReferences
        <4>1. Untroubled(list, predicted)'
          BY <2>2, <3>1, <3>2, <3>3, <3>6, AloneLoads
        <4> QED
          BY <2>1, <3>1, <3>2, <4>1 DEF Listed, Predicted
      <3>7. CASE LoadPredictions \/ LoadGuess
        <4>1. Untroubled(list, predicted)'
          BY <2>2, <3>1, <3>2, <3>3, <3>7, AloneGuesses
        <4> QED
          BY <2>1, <3>1, <3>2, <4>1 DEF Listed, Predicted
      <3>8. CASE \E measured \in Measures : Judge(measured)
        <4>1. Untroubled(list, predicted)'
          BY <2>2, <3>1, <3>2, <3>3, <3>8, AloneJudges
        <4> QED
          BY <2>1, <3>1, <3>2, <4>1 DEF Listed, Predicted
      <3> QED
        BY <1>1, <3>4, <3>5, <3>6, <3>7, <3>8 DEF RunStep
    <2> QED
      BY <2>1, <2>2, AloneStays
  <1>2. CASE \E place \in DOMAIN Replacements : Swap(place)
    <2>1. swaps' = swaps + 1 /\ swaps \in Nat
      BY <1>2 DEF Swap, LeftAloneOK
    <2> QED
      BY <2>1 DEF LeftAloneOK
  <1>3. CASE UNCHANGED benchmarkVars
    <2>1. Untroubled(Listed, Predicted) => Untroubled(Listed, Predicted)'
      BY <1>3 DEF Untroubled, Listed, Predicted, benchmarkVars
    <2> QED
      BY <1>3, <2>1, AloneStays DEF benchmarkVars
  <1> QED
    BY <1>1, <1>2, <1>3 DEF BenchmarkNext

\* A benchmark that nobody disturbs is refused for a cause that lies in the corpus, the
\* predictions or the lock: each check of _read_reference_rows, _snapshot_wav and
\* evaluate_korean_benchmark passes whatever validate_annotation_dataset passes, for
\* corpora of any size.
THEOREM BenchmarkRefusesForCause == BenchmarkSpec => []BenchmarkRefusedForCause
  <1>1. LeftAloneOK => BenchmarkRefusedForCause
    BY DEF LeftAloneOK, BenchmarkRefusedForCause, Untroubled
  <1>2. BenchmarkSpec => []LeftAloneOK
    BY BenchmarkInvariant, AloneStarts, AloneSteps, PTL DEF BenchmarkSpec
  <1> QED
    BY <1>1, <1>2, PTL

=============================================================================
