---------------------------- MODULE WordPathProofs ----------------------------
(***************************************************************************)
(* From tokens to turns for transcripts and diarizations of any length:    *)
(* no token is lost, words end where white space says so, names follow     *)
(* the evidence, and turns partition the words.                            *)
(***************************************************************************)
EXTENDS WordPath, FiniteSetTheorems, SequenceTheorems, WellFoundedInduction, TLAPS

-----------------------------------------------------------------------------
(* The inductive invariant.  Its parts are about values, not variables: most *)
(* of them stay as they are in most of the stages.                          *)

\* What the reader let through: r is the output, in order.
IsText(r, i) == r[i].type \in {"piece", "mark"}
IsKept(r, i) == r[i].type # "special"

Orderly(r) ==
    \A i \in 1..Len(r) : IsKept(r, i) =>
        /\ r[i].type # "invalid" /\ r[i].from <= r[i].to /\ r[i].to * PerMs <= Duration
        /\ \A j \in 1..Len(r) : i < j /\ IsKept(r, j) => r[i].to <= r[j].from

\* The positions of what was kept.
Positions(r, ts) ==
    /\ ts \in Seq(1..Len(r))
    /\ \A n \in 1..Len(ts) : IsKept(r, ts[n])
    /\ \A m, n \in 1..Len(ts) : m < n => ts[m] < ts[n]
    /\ \A i \in 1..Len(r) : IsKept(r, i) => \E n \in 1..Len(ts) : ts[n] = i

\* The word that is made of some tokens.
Made(r, text) ==
    Timed([text |-> text, start |-> r[text[1]].from * PerMs, end |-> r[text[Len(text)]].to * PerMs])

\* Which texts follow each other, and whether they belong together.
Follows(r, i, j) == IsText(r, i) /\ IsText(r, j) /\ i < j /\ \A k \in (i+1)..(j-1) : ~IsText(r, k)
Joins(r, i, j) ==
    \/ r[j].type = "mark"
    \/ ~r[i].trailing /\ ~r[j].leading /\ \A b \in (i+1)..(j-1) : r[b].type # "blank"
In(w, i) == \E m \in 1..Len(w.text) : w.text[m] = i

\* The words made of the first f tokens.
WellMade(r, w, f) ==
    /\ w.text \in Seq(1..f) /\ w.text # << >> /\ w = Made(r, w.text)
    /\ \A m \in 1..Len(w.text) : IsText(r, w.text[m])
    /\ \A m, n \in 1..Len(w.text) : m < n => w.text[m] < w.text[n]

Holding(r, ws, f) ==
    /\ ws \in Seq(Word)
    /\ \A k \in 1..Len(ws) : WellMade(r, ws[k], f)
    /\ \A k, l \in 1..Len(ws) : k < l => \A i, j \in 1..f : In(ws[k], i) /\ In(ws[l], j) => i < j
    /\ \A i \in 1..f : IsText(r, i) => \E k \in 1..Len(ws) : In(ws[k], i)
    /\ \A i, j \in 1..f : Follows(r, i, j) =>
         ((\E k \in 1..Len(ws) : In(ws[k], i) /\ In(ws[k], j)) <=> Joins(r, i, j))

\* The word at work, and whether white space was seen after it.
Open(r, w, f, p) ==
    \/ w = NoWord
    \/ /\ w.text \in Seq(1..f) /\ w.text # << >>
       /\ w = [text |-> w.text, start |-> r[w.text[1]].from * PerMs,
               end |-> r[w.text[Len(w.text)]].to * PerMs]
       /\ LET last == w.text[Len(w.text)]
          IN  p <=> r[last].trailing \/ \E b \in (last+1)..f : r[b].type = "blank"

Full(ws, w) == IF w.text = << >> THEN ws ELSE Append(ws, Timed(w))

Joined(r, ws, w, p, f) ==
    /\ Open(r, w, f, p)
    /\ Holding(r, Full(ws, w), f)
    /\ w = NoWord => ws = << >>

\* Words that the provider accepts.
InTurn(ws) ==
    /\ \A k \in 2..Len(ws) : Before(ws[k-1], ws[k]) /\ ws[k-1].end <= ws[k].start
    /\ \A k \in 1..Len(ws) : ws[k].end <= Duration

\* The evidence for a name, in units of time.
Units(sp, w, label) ==
    {t \in w.start..(w.end - 1) :
       \E k \in 1..Len(sp) : sp[k].label = label /\ sp[k].start <= t /\ t < sp[k].end}
ShareOf(sp, w, label) == Cardinality(Units(sp, w, label))
Clear(sp, w, none, s) ==
    /\ ~none /\ ~w.inferred
    /\ ShareOf(sp, w, "OVERLAP") = 0
    /\ 100 * ShareOf(sp, w, s) >= Percent.dominant * (w.end - w.start)
    /\ \A other \in SpeakerIds \ {s} : 100 * ShareOf(sp, w, other) < Percent.material * (w.end - w.start)
    /\ 100 * (ShareOf(sp, w, "UNKNOWN") + ShareOf(sp, w, "NON_SPEECH")) <= Percent.unknown * (w.end - w.start)
Claims(a, sp, w, none) == \A s \in SpeakerIds : a.speaker = s <=> Clear(sp, w, none, s)

\* The first c words are in turns.
Alike(ws, at, k) == at[k] = at[k+1] /\ ws[k+1].start - ws[k].end <= TurnGap
Final(turn) == turn[Len(turn)]
Grouped(ws, at, tn, c) ==
    /\ tn \in Seq(Seq(1..c))
    /\ \A n \in 1..Len(tn) :
         /\ tn[n] # << >>
         /\ \A m \in 1..(Len(tn[n]) - 1) : tn[n][m+1] = tn[n][m] + 1 /\ Alike(ws, at, tn[n][m])
         /\ \A l, m \in 1..Len(tn[n]) : l < m => tn[n][l] < tn[n][m]
    /\ \A n \in 1..(Len(tn) - 1) : tn[n+1][1] = Final(tn[n]) + 1 /\ ~Alike(ws, at, Final(tn[n]))
    /\ \A m, n \in 1..Len(tn) : m < n =>
         \A k \in 1..Len(tn[m]), l \in 1..Len(tn[n]) : tn[m][k] < tn[n][l]
    /\ \A k \in 1..c : \E n \in 1..Len(tn) : \E m \in 1..Len(tn[n]) : tn[n][m] = k
    /\ c > 0 => tn # << >> /\ Final(tn[Len(tn)]) = c

Stages == {"reading", "joining", "checking", "waiting", "mapping", "grouping", "done", "refused"}
Statuses == {"ASSIGNED", "OTHER", "OVERLAP_UNATTRIBUTED", "UNKNOWN_BOUNDARY",
             "UNKNOWN_TIMEWARP_BOUNDARY", "UNKNOWN_INSUFFICIENT_EVIDENCE"}
Attributed == [speaker : SpeakerIds \cup {"UNKNOWN", "OVERLAP", "OTHER"}, status : Statuses, support : SUBSET Nat]

TypesOK ==
    /\ origin \in {"stt", "supplied"} /\ stage \in Stages /\ cursor \in Nat
    /\ raw \in Seq(Tokens) /\ Positions(raw, tokens) /\ pending \in BOOLEAN
    /\ words \in Seq(Word) /\ \A k \in 1..Len(words) : words[k].start < words[k].end
    /\ spans \in Timelines \cup {<< >>} /\ (failed => spans = << >>) /\ failed \in BOOLEAN
    /\ attributed \in Seq(Attributed)

ReadingOK ==
    /\ origin = "stt" /\ (stage # "refused" \/ words # << >>) => Orderly(raw)
    /\ stage = "reading" => words = << >> /\ current = NoWord /\ pending = FALSE /\ cursor = 0
    /\ origin = "supplied" => stage \notin {"reading", "joining"}

Reached(ts, c) == IF c = 0 THEN 0 ELSE ts[c]
Dealt == Reached(tokens, cursor)
JoiningOK ==
    stage = "joining" =>
        /\ cursor <= Len(tokens)
        /\ Joined(raw, words, current, pending, Dealt)

Checked == {"checking", "waiting", "mapping", "grouping", "done"}
WordsOK ==
    /\ origin = "stt" /\ (stage \in Checked \/ (stage = "refused" /\ words # << >>)) =>
         Holding(raw, words, Len(raw))
    /\ stage = "refused" /\ words # << >> => ~InTurn(words)
    /\ stage \in {"waiting", "mapping", "grouping", "done"} => InTurn(words)
    /\ stage \in {"checking", "waiting"} => cursor = 0

NamesOK ==
    /\ stage \notin {"mapping", "grouping", "done"} => attributed = << >>
    /\ stage = "mapping" => Len(attributed) = cursor /\ cursor <= Len(words)
    /\ stage \in {"grouping", "done"} => Len(attributed) = Len(words)
    /\ \A k \in 1..Len(attributed) : Claims(attributed[k], spans, words[k], failed)

TurnsOK ==
    /\ stage \notin {"grouping", "done"} => turns = << >>
    /\ stage = "grouping" => cursor <= Len(words) /\ Grouped(words, attributed, turns, cursor)
    /\ stage = "done" => Grouped(words, attributed, turns, Len(words))

WordInv == TypesOK /\ ReadingOK /\ JoiningOK /\ WordsOK /\ NamesOK /\ TurnsOK

-----------------------------------------------------------------------------
(* Reading *)

LEMMA TokenFacts ==
    ASSUME NEW r \in Seq(Tokens), NEW i \in 1..Len(r)
    PROVE  r[i] \in Tokens /\ r[i] \in Token /\ r[i].from \in Nat /\ r[i].to \in Nat
  <1>1. r[i] \in Tokens
    BY ElementOfSeq
  <1>2. r[i] \in Token
    BY <1>1, WordAssumption
  <1>3. QED
    BY <1>1, <1>2 DEF Token

LEMMA PositionsRead ==
    ASSUME NEW r \in Seq(Tokens), NEW ts, Positions(r, ts), NEW t \in Tokens
    PROVE  Positions(Append(r, t), IF t.type = "special" THEN ts ELSE Append(ts, Len(r) + 1))
  <1> DEFINE n == Len(r)
             q == Append(r, t)
  <1>1. /\ n \in Nat /\ q \in Seq(Tokens) /\ Len(q) = n + 1 /\ q[n + 1] = t
        /\ \A i \in 1..n : q[i] = r[i]
    BY AppendProperties
  <1>2. /\ ts \in Seq(1..n) /\ Len(ts) \in Nat /\ \A m \in 1..Len(ts) : ts[m] \in 1..n
        /\ \A m \in 1..Len(ts) : IsKept(r, ts[m])
    BY LenProperties, ElementOfSeq DEF Positions
  <1> HIDE DEF q, n
  <1>3. \A i \in 1..n : IsKept(q, i) <=> IsKept(r, i)
    BY <1>1 DEF IsKept
  <1>4. CASE t.type = "special"
    <2>1. ts \in Seq(1..(n + 1))
      <3>1. 1..n \subseteq 1..(n + 1)
        BY <1>1
      <3>2. QED
        BY <1>2, <3>1, SeqMonotonic
    <2>2. ~IsKept(q, n + 1)
      BY <1>1, <1>4 DEF IsKept
    <2>3. \A i \in 1..(n + 1) : IsKept(q, i) => \E m \in 1..Len(ts) : ts[m] = i
      <3>1. ASSUME NEW i \in 1..(n + 1), IsKept(q, i) PROVE \E m \in 1..Len(ts) : ts[m] = i
        <4>1. i \in 1..n
          BY <1>1, <2>2, <3>1
        <4>2. IsKept(r, i)
          BY <1>3, <3>1, <4>1
        <4>3. QED
          BY <4>1, <4>2 DEF Positions, n
      <3>2. QED
        BY <3>1
    <2>4. Positions(q, ts)
      BY <1>1, <1>2, <1>3, <2>1, <2>3 DEF Positions
    <2>5. QED
      BY <1>4, <2>4 DEF q, n
  <1>5. CASE t.type # "special"
    <2> DEFINE u == Append(ts, n + 1)
    <2>1. ts \in Seq(1..(n + 1))
      <3>1. 1..n \subseteq 1..(n + 1)
        BY <1>1
      <3>2. QED
        BY <1>2, <3>1, SeqMonotonic
    <2>2. /\ u \in Seq(1..(n + 1)) /\ Len(u) = Len(ts) + 1 /\ u[Len(ts) + 1] = n + 1
          /\ \A m \in 1..Len(ts) : u[m] = ts[m]
      BY <1>1, <2>1, AppendProperties
    <2> HIDE DEF u
    <2>3. IsKept(q, n + 1)
      BY <1>1, <1>5 DEF IsKept
    <2>4. \A m \in 1..Len(u) : IsKept(q, u[m])
      BY <1>2, <1>3, <2>2, <2>3
    <2>5. \A l, m \in 1..Len(u) : l < m => u[l] < u[m]
      <3>1. ASSUME NEW l \in 1..Len(u), NEW m \in 1..Len(u), l < m PROVE u[l] < u[m]
        <4>1. l \in 1..Len(ts) /\ u[l] = ts[l] /\ u[l] \in 1..n
          BY <1>2, <2>2, <3>1
        <4>2. CASE m = Len(ts) + 1
          BY <1>1, <2>2, <4>1, <4>2
        <4>3. CASE m \in 1..Len(ts)
          BY <2>2, <3>1, <4>1, <4>3 DEF Positions
        <4>4. QED
          BY <1>2, <2>2, <4>2, <4>3
      <3>2. QED
        BY <3>1
    <2>6. \A i \in 1..(n + 1) : IsKept(q, i) => \E m \in 1..Len(u) : u[m] = i
      <3>1. ASSUME NEW i \in 1..(n + 1), IsKept(q, i) PROVE \E m \in 1..Len(u) : u[m] = i
        <4>1. CASE i = n + 1
          BY <1>2, <2>2, <4>1
        <4>2. CASE i \in 1..n
          <5>1. PICK m \in 1..Len(ts) : ts[m] = i
            BY <1>3, <3>1, <4>2 DEF Positions, n
          <5>2. m \in 1..Len(u) /\ u[m] = i
            BY <1>2, <2>2, <5>1
          <5>3. QED
            BY <5>2
        <4>3. QED
          BY <1>1, <4>1, <4>2
      <3>2. QED
        BY <3>1
    <2>7. Positions(q, u)
      BY <1>1, <2>2, <2>4, <2>5, <2>6 DEF Positions
    <2>8. QED
      BY <1>5, <2>7 DEF q, u, n
  <1>6. QED
    BY <1>4, <1>5

\* A token that is let through keeps the output in order.
LEMMA OrderlyRead ==
    ASSUME NEW r \in Seq(Tokens), NEW ts, Positions(r, ts), Orderly(r), NEW t \in Tokens,
           \/ t.type = "special"
           \/ /\ t.type # "invalid" /\ t.from <= t.to /\ t.to * PerMs <= Duration
              /\ ts = << >> \/ t.from >= r[ts[Len(ts)]].to
    PROVE  Orderly(Append(r, t))
  <1> DEFINE n == Len(r)
             q == Append(r, t)
  <1>1. /\ n \in Nat /\ q \in Seq(Tokens) /\ Len(q) = n + 1 /\ q[n + 1] = t
        /\ \A i \in 1..n : q[i] = r[i]
    BY AppendProperties
  <1>2. /\ Len(ts) \in Nat /\ \A m \in 1..Len(ts) : ts[m] \in 1..n
        /\ \A m \in 1..Len(ts) : IsKept(r, ts[m])
    BY LenProperties, ElementOfSeq DEF Positions
  <1>3. \A i \in 1..n : r[i].from \in Nat /\ r[i].to \in Nat
    BY TokenFacts
  <1>4. t.from \in Nat /\ t.to \in Nat
    BY WordAssumption DEF Token
  <1>5. ASSUME NEW i \in 1..n, IsKept(r, i), t.type # "special" PROVE r[i].to <= t.from
    <2>1. PICK m \in 1..Len(ts) : ts[m] = i
      BY <1>5 DEF Positions
    <2>2. ts # << >> /\ Len(ts) \in 1..Len(ts)
      BY <1>2, <2>1, EmptySeq
    <2>3. t.from >= r[ts[Len(ts)]].to
      BY <1>5, <2>2
    <2>4. CASE m = Len(ts)
      BY <2>1, <2>3, <2>4, <1>3, <1>4
    <2>5. CASE m # Len(ts)
      <3> DEFINE j == ts[Len(ts)]
      <3>1. j \in 1..n /\ IsKept(r, j)
        BY <1>2, <2>2
      <3>2. i < j
        <4>1. \A l, k \in 1..Len(ts) : l < k => ts[l] < ts[k]
          BY DEF Positions
        <4>2. m < Len(ts)
          BY <1>2, <2>1, <2>5
        <4>3. QED
          BY <2>1, <2>2, <4>1, <4>2
      <3> HIDE DEF j
      <3>3. r[i].to <= r[j].from /\ r[j].from <= r[j].to
        BY <1>5, <3>1, <3>2 DEF Orderly, n
      <3>4. t.from >= r[j].to
        BY <2>3 DEF j
      <3>5. QED
        BY <1>3, <1>4, <3>1, <3>3, <3>4
    <2>6. QED
      BY <2>4, <2>5
  <1> HIDE DEF q, n
  <1>6. ASSUME NEW i \in 1..(n + 1), IsKept(q, i)
        PROVE  /\ q[i].type # "invalid" /\ q[i].from <= q[i].to /\ q[i].to * PerMs <= Duration
               /\ \A j \in 1..(n + 1) : i < j /\ IsKept(q, j) => q[i].to <= q[j].from
    <2>1. CASE i = n + 1
      BY <1>1, <1>6, <2>1 DEF IsKept
    <2>2. CASE i # n + 1
      <3>1. i \in 1..n /\ q[i] = r[i] /\ IsKept(r, i)
        BY <1>1, <1>6, <2>2 DEF IsKept
      <3>2. q[i].type # "invalid" /\ q[i].from <= q[i].to /\ q[i].to * PerMs <= Duration
        BY <3>1 DEF Orderly, n
      <3>3. ASSUME NEW j \in 1..(n + 1), i < j, IsKept(q, j) PROVE q[i].to <= q[j].from
        <4>1. CASE j = n + 1
          BY <1>1, <1>5, <3>1, <3>3, <4>1 DEF IsKept
        <4>2. CASE j # n + 1
          <5>1. j \in 1..n /\ q[j] = r[j] /\ IsKept(r, j)
            BY <1>1, <3>3, <4>2 DEF IsKept
          <5>2. QED
            BY <3>1, <3>3, <5>1 DEF Orderly, n
        <4>3. QED
          BY <4>1, <4>2
      <3>4. QED
        BY <3>2, <3>3
    <2>3. QED
      BY <2>1, <2>2
  <1>7. Orderly(q)
    BY <1>1, <1>6 DEF Orderly
  <1>8. QED
    BY <1>7 DEF q

-----------------------------------------------------------------------------
(* Joining *)

LEMMA TextBounds ==
    ASSUME NEW r \in Seq(Tokens), NEW f \in 0..Len(r), NEW text \in Seq(1..f), text # << >>
    PROVE  /\ f \in Nat /\ Len(text) \in Nat \ {0} /\ 1 \in 1..Len(text) /\ Len(text) \in 1..Len(text)
           /\ \A m \in 1..Len(text) : text[m] \in 1..f /\ text[m] \in 1..Len(r)
           /\ \A m \in 1..Len(text) : r[text[m]].from \in Nat /\ r[text[m]].to \in Nat
  <1>1. Len(text) \in Nat \ {0} /\ Len(r) \in Nat /\ f \in Nat
    BY EmptySeq, LenProperties
  <1>2. \A m \in 1..Len(text) : text[m] \in 1..f
    BY ElementOfSeq
  <1>3. \A m \in 1..Len(text) : text[m] \in 1..Len(r)
    BY <1>1, <1>2
  <1>4. QED
    BY <1>1, <1>2, <1>3, TokenFacts

\* Times of the decoder in units of the source.
LEMMA Scaled ==
    ASSUME NEW a \in Nat, NEW b \in Nat, a <= b
    PROVE  a * PerMs \in Nat /\ b * PerMs \in Nat /\ a * PerMs <= b * PerMs
  <1>1. PICK d \in Nat : b = a + d
    <2>1. b - a \in Nat /\ b = a + (b - a)
      OBVIOUS
    <2>2. QED
      BY <2>1
  <1>2. PerMs \in Nat
    BY WordAssumption
  <1>3. a * PerMs \in Nat /\ d * PerMs \in Nat
    BY <1>2
  <1>4. (a + d) * PerMs = a * PerMs + d * PerMs
    BY <1>2
  <1>5. QED
    BY <1>1, <1>3, <1>4

\* Two texts of one output.
LEMMA TextOrder ==
    ASSUME NEW r \in Seq(Tokens), Orderly(r), NEW i \in 1..Len(r), IsText(r, i)
    PROVE  /\ r[i].from <= r[i].to /\ r[i].to * PerMs <= Duration
           /\ \A j \in 1..Len(r) : i < j /\ IsText(r, j) => r[i].to <= r[j].from
  BY DEF Orderly, IsText, IsKept

\* What a word is that was made of tokens in order.
LEMMA MadeFacts ==
    ASSUME NEW r \in Seq(Tokens), Orderly(r), NEW text \in Seq(1..Len(r)), text # << >>,
           \A m \in 1..Len(text) : IsText(r, text[m]),
           \A m, n \in 1..Len(text) : m < n => text[m] < text[n]
    PROVE  LET w == Made(r, text)
               s == r[text[1]].from * PerMs
               e == r[text[Len(text)]].to * PerMs
           IN  /\ w \in Word /\ w.text = text /\ w.start < w.end /\ w.end <= Duration
               /\ s \in Nat /\ e \in Nat /\ s <= e /\ e <= Duration
               /\ w.inferred \/ (w.start = s /\ w.end = e)
               /\ w.start <= s /\ e <= w.end /\ w.end <= e + 1 /\ s <= w.start + 1
               /\ w.start = s \/ w.start + 1 = Duration
  <1> DEFINE L == Len(text)
             s == r[text[1]].from * PerMs
             e == r[text[L]].to * PerMs
             w == Made(r, text)
  <1>1. /\ L \in Nat \ {0} /\ 1 \in 1..L /\ L \in 1..L /\ Len(r) \in Nat
        /\ text[1] \in 1..Len(r) /\ text[L] \in 1..Len(r)
        /\ r[text[1]].from \in Nat /\ r[text[L]].to \in Nat /\ r[text[1]].to \in Nat /\ r[text[L]].from \in Nat
    <2>1. Len(r) \in 0..Len(r)
      BY LenProperties
    <2>2. QED
      BY <2>1, TextBounds
  <1>2. r[text[1]].from <= r[text[L]].to
    <2>1. /\ r[text[1]].from <= r[text[1]].to /\ r[text[L]].from <= r[text[L]].to
      BY <1>1, TextOrder
    <2>2. L = 1 \/ r[text[1]].to <= r[text[L]].from
      <3>1. CASE L # 1
        <4>1. text[1] < text[L]
          <5>1. L \in Nat \ {0} /\ 1 \in 1..Len(text) /\ L \in 1..Len(text) /\ L # 1
            BY <1>1, <3>1, Zenon
          <5> HIDE DEF L
          <5>2. 1 < L
            BY <5>1
          <5>3. QED
            BY <5>1, <5>2
        <4>2. QED
          BY <1>1, <4>1, TextOrder
      <3>2. QED
        BY <3>1
    <2>3. QED
      BY <1>1, <2>1, <2>2
  <1>3. e <= Duration
    BY <1>1, TextOrder
  <1>4. s \in Nat /\ e \in Nat /\ s <= e
    BY <1>1, <1>2, Scaled
  <1>5. w = Timed([text |-> text, start |-> s, end |-> e])
    BY DEF Made
  <1>6. Duration \in Nat \ {0}
    BY WordAssumption
  <1>7. text \in Seq(Nat)
    <2>1. 1..Len(r) \subseteq Nat
      OBVIOUS
    <2>2. QED
      BY <2>1, SeqMonotonic
  <1> HIDE DEF s, e, w, L
  <1>8. /\ w = [text |-> text, inferred |-> (s = e),
                start |-> IF s = e /\ s >= Duration THEN Duration - 1 ELSE s,
                end |-> IF s # e THEN e ELSE IF s >= Duration THEN Duration ELSE s + 1]
    BY <1>5 DEF Timed
  <1>9. w \in Word /\ w.text = text /\ w.inferred = (s = e)
    BY <1>4, <1>6, <1>7, <1>8 DEF Word
  <1>10. /\ w.start = IF s = e /\ s >= Duration THEN Duration - 1 ELSE s
         /\ w.end = IF s # e THEN e ELSE IF s >= Duration THEN Duration ELSE s + 1
    BY <1>8
  <1>11. /\ w.start < w.end /\ w.end <= Duration
         /\ w.inferred \/ (w.start = s /\ w.end = e)
         /\ w.start <= s /\ e <= w.end /\ w.end <= e + 1 /\ s <= w.start + 1
         /\ w.start = s \/ w.start + 1 = Duration
    <2>1. CASE s # e
      <3>1. w.start = s /\ w.end = e
        BY <1>10, <2>1
      <3>2. QED
        BY <1>3, <1>4, <1>6, <2>1, <3>1
    <2>2. CASE s = e /\ s >= Duration
      <3>1. w.start = Duration - 1 /\ w.end = Duration /\ w.inferred
        BY <1>9, <1>10, <2>2
      <3>2. QED
        BY <1>3, <1>4, <1>6, <2>2, <3>1
    <2>3. CASE s = e /\ ~(s >= Duration)
      <3>1. w.start = s /\ w.end = s + 1 /\ w.inferred
        BY <1>9, <1>10, <2>3
      <3>2. QED
        BY <1>3, <1>4, <1>6, <2>3, <3>1
    <2>4. QED
      BY <2>1, <2>2, <2>3
  <1>12. QED
    BY <1>3, <1>4, <1>9, <1>11 DEF w, s, e, L

LEMMA InBounds ==
    ASSUME NEW r, NEW w, NEW f \in Nat, WellMade(r, w, f)
    PROVE  /\ Len(w.text) \in Nat \ {0} /\ 1 \in 1..Len(w.text) /\ Len(w.text) \in 1..Len(w.text)
           /\ \A m \in 1..Len(w.text) : w.text[m] \in 1..f /\ IsText(r, w.text[m]) /\ In(w, w.text[m])
           /\ \A i : In(w, i) => i \in 1..f /\ IsText(r, i) /\ i <= Final(w.text)
           /\ Final(w.text) \in 1..f /\ IsText(r, Final(w.text)) /\ In(w, Final(w.text))
  <1> DEFINE L == Len(w.text)
  <1>1. L \in Nat \ {0}
    BY EmptySeq DEF WellMade
  <1>2. \A m \in 1..L : w.text[m] \in 1..f
    BY ElementOfSeq DEF WellMade
  <1>3. 1 \in 1..L /\ L \in 1..L
    BY <1>1
  <1>4. \A m \in 1..L : w.text[m] \in 1..f /\ IsText(r, w.text[m]) /\ In(w, w.text[m])
    BY <1>2 DEF WellMade, In
  <1>5. ASSUME NEW i, In(w, i) PROVE i \in 1..f /\ IsText(r, i) /\ i <= Final(w.text)
    <2>1. PICK m \in 1..L : w.text[m] = i
      BY <1>5 DEF In
    <2>2. CASE m = L
      BY <1>4, <2>1, <2>2 DEF Final
    <2>3. CASE m # L
      <3>1. w.text[m] < w.text[L]
        <4>1. m < L
          BY <1>1, <2>3
        <4>2. QED
          BY <1>3, <4>1 DEF WellMade
      <3>2. QED
        BY <1>3, <1>4, <2>1, <3>1 DEF Final
    <2>4. QED
      BY <2>2, <2>3
  <1>6. QED
    BY <1>1, <1>3, <1>4, <1>5 DEF Final

LEMMA HoldingFacts ==
    ASSUME NEW r, NEW ws, NEW f \in Nat, Holding(r, ws, f)
    PROVE  /\ Len(ws) \in Nat /\ ws \in Seq(Word)
           /\ \A k \in 1..Len(ws) : /\ ws[k] \in Word /\ WellMade(r, ws[k], f)
                                    /\ \A i : In(ws[k], i) => i \in 1..f /\ IsText(r, i)
  <1>1. Len(ws) \in Nat /\ ws \in Seq(Word)
    BY LenProperties DEF Holding
  <1>2. \A k \in 1..Len(ws) : ws[k] \in Word
    BY <1>1, ElementOfSeq
  <1>3. \A k \in 1..Len(ws) : WellMade(r, ws[k], f)
    BY DEF Holding
  <1>4. QED
    BY <1>1, <1>2, <1>3, InBounds

\* The last text of the last word is the last of all.
LEMMA LastText ==
    ASSUME NEW r, NEW ws, NEW f \in Nat, Holding(r, ws, f), ws # << >>
    PROVE  LET last == Final(ws[Len(ws)].text)
           IN  /\ last \in 1..f /\ IsText(r, last) /\ In(ws[Len(ws)], last)
               /\ \A i \in 1..f : IsText(r, i) => i <= last
  <1> DEFINE L == Len(ws)
             last == Final(ws[L].text)
  <1>1. L \in Nat \ {0} /\ L \in 1..L
    BY EmptySeq DEF Holding
  <1>2. \A k \in 1..L : WellMade(r, ws[k], f)
    BY DEF Holding
  <1>3. last \in 1..f /\ IsText(r, last) /\ In(ws[L], last)
    BY <1>1, <1>2, InBounds
  <1>4. ASSUME NEW i \in 1..f, IsText(r, i) PROVE i <= last
    <2>1. PICK k \in 1..L : In(ws[k], i)
      BY <1>4 DEF Holding
    <2>2. CASE k = L
      BY <1>1, <1>2, <2>1, <2>2, InBounds
    <2>3. CASE k # L
      <3>1. k < L
        BY <1>1, <2>3
      <3>2. i < last
        BY <1>1, <1>3, <1>4, <2>1, <3>1 DEF Holding
      <3>3. QED
        BY <1>3, <3>2
    <2>4. QED
      BY <2>2, <2>3
  <1>5. QED
    BY <1>3, <1>4

\* Tokens without text change no word.
LEMMA HoldingMoves ==
    ASSUME NEW r, NEW ws, NEW f \in Nat, NEW g \in Nat, f <= g, Holding(r, ws, f),
           \A b \in (f+1)..g : ~IsText(r, b)
    PROVE  Holding(r, ws, g)
  <1>1. 1..f \subseteq 1..g
    OBVIOUS
  <1>2. \A i \in 1..g : IsText(r, i) => i \in 1..f
    OBVIOUS
  <1>3. ASSUME NEW k \in 1..Len(ws) PROVE WellMade(r, ws[k], g)
    <2>1. WellMade(r, ws[k], f)
      BY DEF Holding
    <2>2. ws[k].text \in Seq(1..g)
      BY <1>1, <2>1, SeqMonotonic DEF WellMade
    <2>3. QED
      BY <2>1, <2>2 DEF WellMade
  <1>4. \A k \in 1..Len(ws) : \A i : In(ws[k], i) => i \in 1..f
    BY HoldingFacts
  <1>5. QED
    BY <1>2, <1>3, <1>4 DEF Holding, Follows

\* A word of one token, or of one token more.
LEMMA OneTextMade ==
    ASSUME NEW r \in Seq(Tokens), Orderly(r), NEW i \in 1..Len(r), IsText(r, i)
    PROVE  LET w == Made(r, << i >>)
           IN  w \in Word /\ WellMade(r, w, i) /\ \A j : In(w, j) <=> j = i
  <1> DEFINE text == << i >>
  <1>1. i \in Nat /\ i \in 1..i /\ Len(r) \in Nat
    BY LenProperties
  <1>2. text \in Seq(1..i) /\ text \in Seq(1..Len(r)) /\ text # << >> /\ Len(text) = 1 /\ text[1] = i
    BY <1>1
  <1>3. \A m \in 1..Len(text) : m = 1
    BY <1>2
  <1> HIDE DEF text
  <1>4. /\ \A m \in 1..Len(text) : IsText(r, text[m])
        /\ \A m, n \in 1..Len(text) : m < n => text[m] < text[n]
    BY <1>2, <1>3
  <1> DEFINE w == Made(r, text)
  <1>5. w \in Word /\ w.text = text
    BY <1>2, <1>4, MadeFacts
  <1> HIDE DEF w
  <1>6. WellMade(r, w, i)
    BY <1>2, <1>4, <1>5 DEF WellMade, w
  <1>7. ASSUME NEW j PROVE In(w, j) <=> j = i
    <2>1. In(w, j) <=> \E m \in 1..1 : text[m] = j
      BY <1>2, <1>5 DEF In
    <2>2. \A m \in 1..1 : m = 1
      OBVIOUS
    <2>3. 1 \in 1..1
      OBVIOUS
    <2>4. QED
      BY <1>2, <2>1, <2>2, <2>3, Zenon
  <1>8. QED
    BY <1>5, <1>6, <1>7 DEF w, text

LEMMA OneTextMore ==
    ASSUME NEW r \in Seq(Tokens), Orderly(r), NEW i \in 1..Len(r), IsText(r, i),
           NEW o, WellMade(r, Made(r, o), i - 1), o # << >>, o \in Seq(1..(i - 1))
    PROVE  LET w == Made(r, Append(o, i))
           IN  /\ w \in Word /\ WellMade(r, w, i)
               /\ \A j : In(w, j) <=> j = i \/ In(Made(r, o), j)
  <1> DEFINE L == Len(o)
             text == Append(o, i)
             v == Made(r, o)
  <1>1. i \in Nat /\ i - 1 \in Nat /\ i \in 1..i /\ Len(r) \in Nat /\ L \in Nat
    BY LenProperties
  <1>2. v.text = o
    BY DEF Made, Timed
  <1>3. 1..(i - 1) \subseteq 1..i /\ 1..i \subseteq 1..Len(r)
    BY <1>1
  <1>4. o \in Seq(1..i)
    BY <1>3, SeqMonotonic
  <1>5. /\ text \in Seq(1..i) /\ Len(text) = L + 1 /\ text[L + 1] = i
        /\ \A m \in 1..L : text[m] = o[m]
    BY <1>1, <1>4, AppendProperties
  <1> HIDE DEF text
  <1>6. text \in Seq(1..Len(r)) /\ text # << >>
    BY <1>1, <1>3, <1>5, SeqMonotonic, EmptySeq
  <1>7. \A m \in 1..L : o[m] \in 1..(i - 1) /\ IsText(r, o[m])
    BY <1>2, ElementOfSeq DEF WellMade
  <1>8. \A m, n \in 1..L : m < n => o[m] < o[n]
    BY <1>2 DEF WellMade
  <1>9. ASSUME NEW m \in 1..Len(text) PROVE IsText(r, text[m])
    <2>1. CASE m = L + 1
      BY <1>5, <2>1
    <2>2. CASE m \in 1..L
      BY <1>5, <1>7, <2>2
    <2>3. QED
      BY <1>1, <1>5, <2>1, <2>2
  <1>10. ASSUME NEW m \in 1..Len(text), NEW n \in 1..Len(text), m < n PROVE text[m] < text[n]
    <2>1. m \in 1..L
      BY <1>1, <1>5, <1>10
    <2>2. CASE n \in 1..L
      BY <1>5, <1>8, <1>10, <2>1, <2>2
    <2>3. CASE n = L + 1
      BY <1>1, <1>5, <1>7, <2>1, <2>3
    <2>4. QED
      BY <1>1, <1>5, <2>2, <2>3
  <1> DEFINE w == Made(r, text)
  <1>11. w \in Word /\ w.text = text
    BY <1>6, <1>9, <1>10, MadeFacts
  <1> HIDE DEF w
  <1>12. WellMade(r, w, i)
    BY <1>5, <1>6, <1>9, <1>10, <1>11 DEF WellMade, w
  <1> HIDE DEF v
  <1>13. ASSUME NEW j PROVE In(w, j) <=> j = i \/ In(v, j)
    <2>1. In(w, j) <=> \E m \in 1..(L + 1) : text[m] = j
      BY <1>5, <1>11 DEF In
    <2>2. In(v, j) <=> \E m \in 1..L : o[m] = j
      BY <1>2 DEF In
    <2>3. L + 1 \in 1..(L + 1) /\ \A m \in 1..(L + 1) : m = L + 1 \/ m \in 1..L
      BY <1>1
    <2>4. \A m \in 1..L : m \in 1..(L + 1)
      BY <1>1
    <2>5. QED
      BY <1>5, <2>1, <2>2, <2>3, <2>4
  <1>14. QED
    BY <1>11, <1>12, <1>13 DEF w, text, v

\* A text that begins a word.
LEMMA JoinNew ==
    ASSUME NEW r \in Seq(Tokens), Orderly(r), NEW i \in 1..Len(r), IsText(r, i),
           NEW ws, Holding(r, ws, i - 1),
           ws # << >> => ~Joins(r, Final(ws[Len(ws)].text), i)
    PROVE  Holding(r, Append(ws, Made(r, << i >>)), i)
  <1> DEFINE L == Len(ws)
             f == i - 1
             w == Made(r, << i >>)
             v == Append(ws, w)
  <1>1. i \in Nat /\ f \in Nat /\ i = f + 1 /\ Len(r) \in Nat
    BY LenProperties
  <1>2. w \in Word /\ WellMade(r, w, i) /\ \A j : In(w, j) <=> j = i
    BY OneTextMade
  <1> HIDE DEF w, f
  <1>3. Holding(r, ws, f)
    BY DEF f
  <1>4. /\ L \in Nat /\ ws \in Seq(Word)
        /\ \A k \in 1..L : WellMade(r, ws[k], f) /\ \A j : In(ws[k], j) => j \in 1..f /\ IsText(r, j)
    BY <1>1, <1>3, HoldingFacts
  <1>5. /\ v \in Seq(Word) /\ Len(v) = L + 1 /\ v[L + 1] = w
        /\ \A k \in 1..L : v[k] = ws[k]
    BY <1>2, <1>4, AppendProperties
  <1> HIDE DEF v
  <1>6. \A k \in 1..Len(v) : k = L + 1 \/ k \in 1..L
    BY <1>4, <1>5
  <1>7. \A k \in 1..L : k \in 1..Len(v) /\ k < L + 1
    BY <1>4, <1>5
  <1>8. L + 1 \in 1..Len(v)
    BY <1>4, <1>5
  <1> HIDE DEF L
  <1>9. \A k \in 1..L : WellMade(r, v[k], i)
    <2>1. 1..f \subseteq 1..i
      BY <1>1
    <2>2. ASSUME NEW k \in 1..L PROVE WellMade(r, ws[k], i)
      <3>1. WellMade(r, ws[k], f)
        BY <1>4
      <3>2. ws[k].text \in Seq(1..i)
        BY <2>1, <3>1, SeqMonotonic DEF WellMade
      <3>3. QED
        BY <3>1, <3>2 DEF WellMade
    <2>3. QED
      BY <1>5, <2>2
  <1>10. \A k \in 1..Len(v) : WellMade(r, v[k], i)
    BY <1>2, <1>5, <1>6, <1>9
  <1>11. ASSUME NEW k \in 1..Len(v), NEW l \in 1..Len(v), k < l, NEW a \in 1..i, NEW b \in 1..i,
                In(v[k], a), In(v[l], b)
         PROVE  a < b
    <2>1. k \in 1..L /\ In(ws[k], a) /\ a \in 1..f
      <3>1. k \in 1..L
        BY <1>4, <1>6, <1>11 DEF L
      <3>2. QED
        BY <1>4, <1>5, <1>11, <3>1
    <2>2. CASE l = L + 1
      BY <1>1, <1>2, <1>5, <1>11, <2>1, <2>2
    <2>3. CASE l \in 1..L
      <3>1. In(ws[l], b) /\ b \in 1..f
        BY <1>4, <1>5, <1>11, <2>3
      <3>2. QED
        BY <1>3, <1>11, <2>1, <2>3, <3>1 DEF Holding, L
    <2>4. QED
      BY <1>6, <2>2, <2>3
  <1>12. ASSUME NEW a \in 1..i, IsText(r, a) PROVE \E k \in 1..Len(v) : In(v[k], a)
    <2>1. CASE a = i
      BY <1>2, <1>5, <1>8, <2>1
    <2>2. CASE a # i
      <3>1. a \in 1..f
        BY <1>1, <2>2
      <3>2. PICK k \in 1..L : In(ws[k], a)
        BY <1>3, <1>12, <3>1 DEF Holding, L
      <3>3. QED
        BY <1>5, <1>7, <3>2
    <2>3. QED
      BY <2>1, <2>2
  <1>13. ASSUME NEW a \in 1..i, NEW b \in 1..i, Follows(r, a, b)
         PROVE  (\E k \in 1..Len(v) : In(v[k], a) /\ In(v[k], b)) <=> Joins(r, a, b)
    <2>1. a \in 1..f /\ a < b /\ IsText(r, a) /\ IsText(r, b)
      BY <1>1, <1>13 DEF Follows
    <2>2. CASE b # i
      <3>1. b \in 1..f
        BY <1>1, <2>2
      <3>2. (\E k \in 1..L : In(ws[k], a) /\ In(ws[k], b)) <=> Joins(r, a, b)
        BY <1>3, <1>13, <2>1, <3>1 DEF Holding, L
      <3>3. \A k \in 1..Len(v) : In(v[k], b) => k \in 1..L
        BY <1>2, <1>5, <1>6, <2>2
      <3>4. (\E k \in 1..Len(v) : In(v[k], a) /\ In(v[k], b)) <=> (\E k \in 1..L : In(ws[k], a) /\ In(ws[k], b))
        BY <1>5, <1>7, <3>3
      <3>5. QED
        BY <3>2, <3>4
    <2>3. CASE b = i
      <3>1. ws # << >>
        <4>1. PICK k \in 1..L : In(ws[k], a)
          BY <1>3, <2>1 DEF Holding, L
        <4>2. QED
          BY <1>4, <4>1, EmptySeq DEF L
      <3> DEFINE last == Final(ws[Len(ws)].text)
      <3>2. last \in 1..f /\ IsText(r, last) /\ a <= last
        BY <1>1, <1>3, <2>1, <3>1, LastText
      <3>3. last = a
        <4>1. \A k \in (a+1)..(b-1) : ~IsText(r, k)
          BY <1>13 DEF Follows
        <4> HIDE DEF last
        <4>2. QED
          BY <1>1, <2>1, <2>3, <3>2, <4>1
      <3>4. ~Joins(r, a, b)
        BY <2>3, <3>1, <3>3
      <3>5. \A k \in 1..Len(v) : ~(In(v[k], a) /\ In(v[k], b))
        <4>1. \A k \in 1..L : ~In(ws[k], b)
          BY <1>1, <1>4, <2>3
        <4>2. ~In(w, a)
          BY <1>2, <2>1, <2>3
        <4>3. QED
          BY <1>5, <1>6, <4>1, <4>2
      <3>6. QED
        BY <3>4, <3>5
    <2>4. QED
      BY <2>2, <2>3
  <1>14. Holding(r, v, i)
    BY <1>5, <1>10, <1>11, <1>12, <1>13 DEF Holding
  <1>15. QED
    BY <1>14 DEF v, w

\* A text that belongs to the word before it.
LEMMA JoinMore ==
    ASSUME NEW r \in Seq(Tokens), Orderly(r), NEW i \in 1..Len(r), IsText(r, i),
           NEW ws \in Seq(Word), NEW o \in Seq(1..(i - 1)), o # << >>, Made(r, o) \in Word,
           Holding(r, Append(ws, Made(r, o)), i - 1), Joins(r, o[Len(o)], i)
    PROVE  Holding(r, Append(ws, Made(r, Append(o, i))), i)
  <1> DEFINE L == Len(ws)
             f == i - 1
             old == Made(r, o)
             new == Made(r, Append(o, i))
             u == Append(ws, old)
             v == Append(ws, new)
  <1>1. i \in Nat /\ f \in Nat /\ i = f + 1 /\ Len(r) \in Nat /\ L \in Nat
    BY LenProperties
  <1>2. /\ u \in Seq(Word) /\ Len(u) = L + 1 /\ u[L + 1] = old
        /\ \A k \in 1..L : u[k] = ws[k]
    BY <1>1, AppendProperties
  <1>3. Holding(r, u, f)
    OBVIOUS
  <1>4. /\ \A k \in 1..(L + 1) : WellMade(r, u[k], f) /\ \A j : In(u[k], j) => j \in 1..f /\ IsText(r, j)
    <2> HIDE DEF u, f
    <2>1. QED
      BY <1>1, <1>2, <1>3, HoldingFacts
  <1>5. /\ L + 1 \in 1..(L + 1) /\ \A k \in 1..(L + 1) : k = L + 1 \/ k \in 1..L
        /\ \A k \in 1..L : k \in 1..(L + 1)
    <2> HIDE DEF L
    <2>1. QED
      BY <1>1
  <1>6. new \in Word /\ WellMade(r, new, i) /\ \A j : In(new, j) <=> j = i \/ In(old, j)
    <2>1. WellMade(r, old, f)
      BY <1>2, <1>4, <1>5
    <2>2. QED
      BY <2>1, OneTextMore
  <1>7. old.text = o
    BY DEF Made, Timed
  <1> HIDE DEF new, old
  <1>8. /\ v \in Seq(Word) /\ Len(v) = L + 1 /\ v[L + 1] = new
        /\ \A k \in 1..L : v[k] = u[k]
    BY <1>1, <1>2, <1>6, AppendProperties
  <1> HIDE DEF v, u, f, L
  <1>9. \A k \in 1..(L + 1) : \A j : In(v[k], j) <=> In(u[k], j) \/ (k = L + 1 /\ j = i)
    <2>1. ASSUME NEW k \in 1..L, NEW j PROVE In(v[k], j) <=> In(u[k], j) \/ (k = L + 1 /\ j = i)
      <3>1. k # L + 1 /\ v[k] = u[k]
        BY <1>1, <1>8
      <3>2. QED
        BY <3>1
    <2>2. ASSUME NEW j PROVE In(v[L + 1], j) <=> In(u[L + 1], j) \/ j = i
      BY <1>2, <1>6, <1>8
    <2>3. QED
      BY <1>5, <2>1, <2>2
  <1>10. \A k \in 1..(L + 1) : WellMade(r, v[k], i)
    <2>1. 1..f \subseteq 1..i
      BY <1>1
    <2>2. ASSUME NEW k \in 1..L PROVE WellMade(r, v[k], i)
      <3>1. WellMade(r, u[k], f) /\ v[k] = u[k]
        BY <1>4, <1>5, <1>8
      <3>2. u[k].text \in Seq(1..i)
        BY <2>1, <3>1, SeqMonotonic DEF WellMade
      <3>3. QED
        BY <3>1, <3>2 DEF WellMade
    <2>3. QED
      BY <1>5, <1>6, <1>8, <2>2
  <1>11. ASSUME NEW k \in 1..(L + 1), NEW l \in 1..(L + 1), k < l, NEW a \in 1..i, NEW b \in 1..i,
                In(v[k], a), In(v[l], b)
         PROVE  a < b
    <2>1. In(u[k], a) /\ a \in 1..f
      <3>1. k # L + 1
        BY <1>1, <1>11
      <3>2. QED
        BY <1>4, <1>9, <1>11, <3>1
    <2>2. CASE b = i
      BY <1>1, <2>1, <2>2
    <2>3. CASE b # i
      <3>1. In(u[l], b) /\ b \in 1..f
        BY <1>4, <1>9, <1>11, <2>3
      <3>2. QED
        BY <1>2, <1>3, <1>11, <2>1, <3>1 DEF Holding
    <2>4. QED
      BY <2>2, <2>3
  <1>12. ASSUME NEW a \in 1..i, IsText(r, a) PROVE \E k \in 1..(L + 1) : In(v[k], a)
    <2>1. CASE a = i
      BY <1>5, <1>9, <2>1
    <2>2. CASE a # i
      <3>1. a \in 1..f
        BY <1>1, <2>2
      <3>2. PICK k \in 1..(L + 1) : In(u[k], a)
        BY <1>2, <1>3, <1>12, <3>1 DEF Holding
      <3>3. QED
        BY <1>9, <3>2
    <2>3. QED
      BY <2>1, <2>2
  <1>13. ASSUME NEW a \in 1..i, NEW b \in 1..i, Follows(r, a, b)
         PROVE  (\E k \in 1..(L + 1) : In(v[k], a) /\ In(v[k], b)) <=> Joins(r, a, b)
    <2>1. a \in 1..f /\ a < b /\ IsText(r, a) /\ IsText(r, b) /\ a # i
      BY <1>1, <1>13 DEF Follows
    <2>2. \A k \in 1..(L + 1) : In(v[k], a) <=> In(u[k], a)
      BY <1>9, <2>1
    <2>3. CASE b # i
      <3>1. b \in 1..f
        BY <1>1, <2>3
      <3>2. (\E k \in 1..(L + 1) : In(u[k], a) /\ In(u[k], b)) <=> Joins(r, a, b)
        BY <1>2, <1>3, <1>13, <2>1, <3>1 DEF Holding
      <3>3. \A k \in 1..(L + 1) : In(v[k], b) <=> In(u[k], b)
        BY <1>9, <2>3
      <3>4. QED
        BY <2>2, <3>2, <3>3
    <2>4. CASE b = i
      <3> DEFINE last == Final(u[Len(u)].text)
      <3>1. u # << >>
        BY <1>1, <1>2, EmptySeq
      <3>2. last \in 1..f /\ IsText(r, last) /\ In(u[L + 1], last) /\ a <= last
        BY <1>1, <1>2, <1>3, <2>1, <3>1, LastText
      <3>3. last = o[Len(o)]
        BY <1>2, <1>7 DEF Final
      <3>4. last = a
        <4>1. \A k \in (a+1)..(b-1) : ~IsText(r, k)
          BY <1>13 DEF Follows
        <4> HIDE DEF last
        <4>2. QED
          BY <1>1, <2>1, <2>4, <3>2, <4>1
      <3>5. Joins(r, a, b)
        BY <2>4, <3>3, <3>4
      <3>6. In(v[L + 1], a) /\ In(v[L + 1], b)
        BY <1>5, <1>9, <2>4, <3>2, <3>4
      <3>7. QED
        BY <1>5, <3>5, <3>6
    <2>5. QED
      BY <2>3, <2>4
  <1>14. Holding(r, v, i)
    BY <1>8, <1>10, <1>11, <1>12, <1>13 DEF Holding
  <1>15. QED
    BY <1>14 DEF v, new

\* Only markers lie between what was dealt with and what is next.
LEMMA ReachedFacts ==
    ASSUME NEW r \in Seq(Tokens), NEW ts, Positions(r, ts), NEW c \in 0..Len(ts)
    PROVE  /\ Reached(ts, c) \in 0..Len(r)
           /\ c < Len(ts) =>
                /\ ts[c+1] \in 1..Len(r) /\ IsKept(r, ts[c+1]) /\ Reached(ts, c) < ts[c+1]
                /\ \A b \in (Reached(ts, c) + 1)..(ts[c+1] - 1) : ~IsKept(r, b)
           /\ c = Len(ts) => \A b \in (Reached(ts, c) + 1)..Len(r) : ~IsKept(r, b)
  <1> DEFINE n == Len(r)
             L == Len(ts)
             f == Reached(ts, c)
  <1>1. n \in Nat /\ L \in Nat /\ c \in Nat /\ \A m \in 1..L : ts[m] \in 1..n /\ IsKept(r, ts[m])
    BY LenProperties, ElementOfSeq DEF Positions
  <1>2. /\ \A l, m \in 1..L : l < m => ts[l] < ts[m]
        /\ \A i \in 1..n : IsKept(r, i) => \E m \in 1..L : ts[m] = i
    BY DEF Positions
  <1>3. c \in 0..L
    OBVIOUS
  <1>4. f = IF c = 0 THEN 0 ELSE ts[c]
    BY DEF Reached
  <1> HIDE DEF n, L, f
  <1>5. f \in 0..n /\ (c # 0 => c \in 1..L /\ f = ts[c])
    BY <1>1, <1>3, <1>4
  <1>6. ASSUME NEW b \in (f+1)..n, IsKept(r, b) PROVE \E m \in (c+1)..L : ts[m] = b
    <2>1. b \in 1..n
      BY <1>5
    <2>2. PICK m \in 1..L : ts[m] = b
      BY <1>2, <1>6, <2>1
    <2>3. c < m
      <3>1. CASE c = 0
        BY <2>2, <3>1
      <3>2. CASE c # 0 /\ m = c
        BY <1>5, <1>6, <2>2, <3>2
      <3>3. CASE c # 0 /\ m < c
        <4>1. ts[m] < ts[c]
          BY <1>2, <1>5, <3>3
        <4>2. QED
          BY <1>1, <1>5, <1>6, <2>2, <3>3, <4>1
      <3>4. QED
        BY <1>1, <3>1, <3>2, <3>3
    <2>4. m \in (c+1)..L
      BY <1>1, <2>3
    <2>5. QED
      BY <2>2, <2>4
  <1>7. ASSUME c < L
        PROVE  /\ ts[c+1] \in 1..n /\ IsKept(r, ts[c+1]) /\ f < ts[c+1]
               /\ \A b \in (f+1)..(ts[c+1] - 1) : ~IsKept(r, b)
    <2>1. c + 1 \in 1..L
      BY <1>1, <1>7
    <2>2. f < ts[c+1]
      <3>1. CASE c = 0
        BY <1>1, <1>4, <2>1, <3>1
      <3>2. CASE c # 0
        <4>1. c < c + 1
          BY <1>1
        <4>2. QED
          BY <1>2, <1>5, <2>1, <3>2, <4>1
      <3>3. QED
        BY <3>1, <3>2
    <2>3. ASSUME NEW b \in (f+1)..(ts[c+1] - 1), IsKept(r, b) PROVE FALSE
      <3>1. b \in (f+1)..n
        BY <1>1, <1>5, <2>1
      <3>2. PICK m \in (c+1)..L : ts[m] = b
        BY <1>6, <2>3, <3>1
      <3>3. m \in 1..L /\ (m = c + 1 \/ c + 1 < m)
        BY <1>1
      <3>4. ts[c+1] <= b
        <4>1. CASE m = c + 1
          BY <1>1, <2>1, <3>2, <4>1
        <4>2. CASE c + 1 < m
          <5>1. ts[c+1] < ts[m]
            BY <1>2, <2>1, <3>3, <4>2
          <5>2. QED
            BY <1>1, <2>1, <3>2, <3>3, <5>1
        <4>3. QED
          BY <3>3, <4>1, <4>2
      <3>5. QED
        BY <1>1, <1>5, <2>1, <3>4
    <2>4. QED
      BY <1>1, <2>1, <2>2, <2>3
  <1>8. ASSUME c = L, NEW b \in (f+1)..n, IsKept(r, b) PROVE FALSE
    <2>1. PICK m \in (c+1)..L : ts[m] = b
      BY <1>6, <1>8
    <2>2. QED
      BY <1>1, <1>8
  <1>9. QED
    BY <1>5, <1>7, <1>8 DEF n, L, f

\* The word at work is the last of those made so far.
LEMMA OpenFacts ==
    ASSUME NEW r \in Seq(Tokens), Orderly(r), NEW f \in 0..Len(r), NEW w, NEW p, NEW ws \in Seq(Word),
           Joined(r, ws, w, p, f), w # NoWord
    PROVE  LET o == w.text
               last == o[Len(o)]
           IN  /\ o \in Seq(1..f) /\ o # << >> /\ Timed(w) = Made(r, o) /\ Made(r, o) \in Word
               /\ Holding(r, Append(ws, Made(r, o)), f)
               /\ last \in 1..f /\ (p <=> r[last].trailing \/ \E b \in (last+1)..f : r[b].type = "blank")
               /\ w = [text |-> o, start |-> r[o[1]].from * PerMs, end |-> r[last].to * PerMs]
  <1> DEFINE o == w.text
             last == o[Len(o)]
  <1>1. /\ o \in Seq(1..f) /\ o # << >>
        /\ w = [text |-> o, start |-> r[o[1]].from * PerMs, end |-> r[last].to * PerMs]
        /\ (p <=> r[last].trailing \/ \E b \in (last+1)..f : r[b].type = "blank")
    BY DEF Joined, Open
  <1>2. Timed(w) = Made(r, o)
    BY <1>1 DEF Made
  <1>3. Holding(r, Append(ws, Made(r, o)), f)
    BY <1>1, <1>2 DEF Joined, Full
  <1>4. last \in 1..f /\ f \in Nat
    BY <1>1, TextBounds
  <1>5. Made(r, o) \in Word
    <2> DEFINE m == Made(r, o)
    <2>1. Timed(w) \in Word
      <3>1. r[o[1]].from \in Nat /\ r[last].to \in Nat
        BY <1>1, TextBounds
      <3>2. r[o[1]].from * PerMs \in Nat /\ r[last].to * PerMs \in Nat
        <4> HIDE DEF o, last
        <4>1. r[o[1]].from <= r[o[1]].from /\ r[last].to <= r[last].to
          BY <3>1
        <4>2. QED
          BY <3>1, <4>1, Scaled
      <3>3. o \in Seq(Nat)
        <4>1. 1..f \subseteq Nat
          OBVIOUS
        <4>2. QED
          BY <1>1, <4>1, SeqMonotonic
      <3> DEFINE s == r[o[1]].from * PerMs
                 e == r[last].to * PerMs
      <3>4. w.text = o /\ w.start = s /\ w.end = e /\ s \in Nat /\ e \in Nat
        BY <1>1, <3>2
      <3> HIDE DEF o, s, e, last
      <3>5. Duration \in Nat \ {0}
        BY WordAssumption
      <3>6. QED
        BY <3>3, <3>4, <3>5 DEF Timed, Word
    <2>2. QED
      BY <1>2, <2>1
  <1>6. QED
    BY <1>1, <1>2, <1>3, <1>4, <1>5

\* White space of its own.
LEMMA BlankJoined ==
    ASSUME NEW r \in Seq(Tokens), NEW f \in 0..Len(r), NEW i \in 1..Len(r), f < i,
           NEW w, NEW p, NEW ws, Joined(r, ws, w, p, f), r[i].type = "blank",
           \A b \in (f+1)..(i-1) : ~IsKept(r, b)
    PROVE  Joined(r, ws, w, TRUE, i)
  <1>1. i \in Nat /\ f \in Nat /\ f <= i
    BY LenProperties
  <1>2. \A b \in (f+1)..i : ~IsText(r, b)
    BY <1>1 DEF IsText, IsKept
  <1>3. Holding(r, Full(ws, w), i)
    BY <1>1, <1>2, HoldingMoves DEF Joined
  <1>4. Open(r, w, i, TRUE)
    <2>1. CASE w = NoWord
      BY <2>1 DEF Open
    <2>2. CASE w # NoWord
      <3> DEFINE last == w.text[Len(w.text)]
      <3>1. /\ w.text \in Seq(1..f) /\ w.text # << >>
            /\ w = [text |-> w.text, start |-> r[w.text[1]].from * PerMs, end |-> r[last].to * PerMs]
        BY <2>2 DEF Joined, Open
      <3>2. last \in 1..f
        BY <3>1, TextBounds
      <3>3. w.text \in Seq(1..i)
        <4>1. 1..f \subseteq 1..i
          BY <1>1
        <4>2. QED
          BY <3>1, <4>1, SeqMonotonic
      <3>4. \E b \in (last+1)..i : r[b].type = "blank"
        <4> HIDE DEF last
        <4>1. i \in (last+1)..i
          BY <1>1, <3>2
        <4>2. QED
          BY <4>1
      <3>5. QED
        BY <3>1, <3>3, <3>4 DEF Open
    <2>3. QED
      BY <2>1, <2>2
  <1>5. QED
    BY <1>3, <1>4 DEF Joined

\* The word of one token that is at work.
LEMMA OpenNew ==
    ASSUME NEW r, NEW i \in Nat \ {0}, NEW p, p <=> r[i].trailing
    PROVE  LET w == [text |-> << i >>, start |-> r[i].from * PerMs, end |-> r[i].to * PerMs]
           IN  /\ w # NoWord /\ Open(r, w, i, p) /\ Timed(w) = Made(r, << i >>)
               /\ \A ws : Full(ws, w) = Append(ws, Made(r, << i >>))
  <1> DEFINE o == << i >>
             w == [text |-> o, start |-> r[i].from * PerMs, end |-> r[i].to * PerMs]
  <1>1. o \in Seq(1..i) /\ o # << >> /\ Len(o) = 1 /\ o[1] = i /\ o[Len(o)] = i
    OBVIOUS
  <1> HIDE DEF o
  <1>2. w.text = o /\ w.text # NoWord.text
    BY <1>1 DEF NoWord
  <1>3. Timed(w) = Made(r, o)
    BY <1>1 DEF Made
  <1>4. ~\E b \in (i+1)..i : r[b].type = "blank"
    OBVIOUS
  <1>5. w = [text |-> o, start |-> r[o[1]].from * PerMs, end |-> r[o[Len(o)]].to * PerMs]
    BY <1>1
  <1> HIDE DEF w
  <1>6. Open(r, w, i, p)
    BY <1>1, <1>2, <1>4, <1>5 DEF Open
  <1>7. \A ws : Full(ws, w) = Append(ws, Made(r, o))
    BY <1>1, <1>2, <1>3 DEF Full
  <1>8. QED
    BY <1>2, <1>3, <1>6, <1>7 DEF w, o

\* A first word, or another one.
LEMMA NewJoined ==
    ASSUME NEW r \in Seq(Tokens), Orderly(r), NEW f \in 0..Len(r), NEW i \in 1..Len(r), f < i,
           NEW w, NEW p, NEW ws \in Seq(Word), Joined(r, ws, w, p, f), IsText(r, i),
           \A b \in (f+1)..(i-1) : ~IsKept(r, b),
           w # NoWord => r[i].type # "mark" /\ (p \/ r[i].leading),
           NEW q, q <=> r[i].trailing
    PROVE  Joined(r, Full(ws, w), [text |-> << i >>, start |-> r[i].from * PerMs, end |-> r[i].to * PerMs], q, i)
  <1> DEFINE full == Full(ws, w)
             new == [text |-> << i >>, start |-> r[i].from * PerMs, end |-> r[i].to * PerMs]
  <1>1. i \in Nat \ {0} /\ i - 1 \in Nat /\ f \in Nat /\ f <= i - 1
    BY LenProperties
  <1>2. \A b \in (f+1)..(i-1) : ~IsText(r, b) /\ r[b].type # "blank"
    BY DEF IsText, IsKept
  <1>3. Holding(r, full, i - 1)
    BY <1>1, <1>2, HoldingMoves DEF Joined
  <1>4. full # << >> => ~Joins(r, Final(full[Len(full)].text), i)
    <2>1. CASE w = NoWord
      BY <2>1 DEF Joined, Full, NoWord
    <2>2. CASE w # NoWord
      <3> DEFINE o == w.text
                 last == o[Len(o)]
      <3>1. /\ o \in Seq(1..f) /\ o # << >> /\ Timed(w) = Made(r, o) /\ Made(r, o) \in Word
            /\ last \in 1..f /\ (p <=> r[last].trailing \/ \E b \in (last+1)..f : r[b].type = "blank")
        BY <2>2, OpenFacts
      <3>2. full = Append(ws, Made(r, o))
        BY <3>1 DEF Full
      <3>3. Made(r, o).text = o
        BY DEF Made, Timed
      <3>4. Len(full) = Len(ws) + 1 /\ full[Len(ws) + 1] = Made(r, o)
        BY <3>1, <3>2, AppendProperties
      <3>5. Final(full[Len(full)].text) = last
        BY <3>3, <3>4 DEF Final
      <3> HIDE DEF last
      <3>6. (\E b \in (last+1)..f : r[b].type = "blank") => \E b \in (last+1)..(i-1) : r[b].type = "blank"
        BY <1>1, <3>1
      <3>7. ~Joins(r, last, i)
        BY <2>2, <3>1, <3>6 DEF Joins
      <3>8. QED
        BY <3>5, <3>7
    <2>3. QED
      BY <2>1, <2>2
  <1> HIDE DEF full
  <1>5. Holding(r, Append(full, Made(r, << i >>)), i)
    BY <1>3, <1>4, JoinNew
  <1>6. new # NoWord /\ Open(r, new, i, q) /\ Full(full, new) = Append(full, Made(r, << i >>))
    BY <1>1, OpenNew
  <1> HIDE DEF new
  <1>7. Joined(r, full, new, q, i)
    BY <1>5, <1>6 DEF Joined
  <1>8. QED
    BY <1>7 DEF full, new

\* A token more for the word at work.
LEMMA MoreJoined ==
    ASSUME NEW r \in Seq(Tokens), Orderly(r), NEW f \in 0..Len(r), NEW i \in 1..Len(r), f < i,
           NEW w, NEW p, NEW ws \in Seq(Word), Joined(r, ws, w, p, f), IsText(r, i),
           \A b \in (f+1)..(i-1) : ~IsKept(r, b),
           w # NoWord, r[i].type = "mark" \/ (~p /\ ~r[i].leading),
           NEW q, q <=> r[i].trailing
    PROVE  Joined(r, ws, [w EXCEPT !.text = Append(@, i), !.end = r[i].to * PerMs], q, i)
  <1> DEFINE o == w.text
             last == o[Len(o)]
             text == Append(o, i)
             new == [w EXCEPT !.text = Append(@, i), !.end = r[i].to * PerMs]
  <1>1. i \in Nat \ {0} /\ i - 1 \in Nat /\ f \in Nat /\ f <= i - 1
    BY LenProperties
  <1>2. \A b \in (f+1)..(i-1) : ~IsText(r, b) /\ r[b].type # "blank"
    BY DEF IsText, IsKept
  <1>3. /\ o \in Seq(1..f) /\ o # << >> /\ Timed(w) = Made(r, o) /\ Made(r, o) \in Word
        /\ Holding(r, Append(ws, Made(r, o)), f)
        /\ last \in 1..f /\ (p <=> r[last].trailing \/ \E b \in (last+1)..f : r[b].type = "blank")
        /\ w = [text |-> o, start |-> r[o[1]].from * PerMs, end |-> r[last].to * PerMs]
    BY OpenFacts
  <1>4. Holding(r, Append(ws, Made(r, o)), i - 1)
    BY <1>1, <1>2, <1>3, HoldingMoves
  <1>5. o \in Seq(1..(i-1)) /\ o \in Seq(1..i)
    <2>1. 1..f \subseteq 1..(i-1) /\ 1..f \subseteq 1..i
      BY <1>1
    <2>2. QED
      BY <1>3, <2>1, SeqMonotonic
  <1>6. Joins(r, last, i)
    <2> HIDE DEF last
    <2>1. \A b \in (last+1)..(i-1) : b \in (last+1)..f \/ b \in (f+1)..(i-1)
      BY <1>1, <1>3
    <2>2. QED
      BY <1>2, <1>3, <2>1 DEF Joins
  <1>7. Holding(r, Append(ws, Made(r, text)), i)
    BY <1>3, <1>4, <1>5, <1>6, JoinMore
  <1>8. /\ text \in Seq(1..i) /\ text # << >> /\ Len(text) = Len(o) + 1 /\ text[Len(text)] = i
        /\ text[1] = o[1]
    <2>1. i \in 1..i
      BY <1>1
    <2>2. /\ text \in Seq(1..i) /\ Len(text) = Len(o) + 1 /\ text[Len(o) + 1] = i
          /\ \A m \in 1..Len(o) : text[m] = o[m]
      BY <1>5, <2>1, AppendProperties
    <2>3. 1 \in 1..Len(o) /\ Len(o) \in Nat
      BY <1>3, TextBounds
    <2> HIDE DEF text, o
    <2>4. QED
      BY <2>2, <2>3, EmptySeq
  <1> HIDE DEF text, last
  <1>9. new = [text |-> text, start |-> r[text[1]].from * PerMs, end |-> r[text[Len(text)]].to * PerMs]
    <2>1. new = [text |-> text, start |-> r[o[1]].from * PerMs, end |-> r[i].to * PerMs]
      <3> DEFINE s == r[o[1]].from * PerMs
                 e == r[last].to * PerMs
                 d == r[i].to * PerMs
      <3>1. w = [text |-> o, start |-> s, end |-> e]
        BY <1>3
      <3>2. new = [w EXCEPT !.text = Append(w.text, i), !.end = d]
        OBVIOUS
      <3> HIDE DEF o, s, e, d, new
      <3>3. new = [text |-> Append(o, i), start |-> s, end |-> d]
        BY <3>1, <3>2
      <3>4. QED
        BY <3>3 DEF text, s, d
    <2>2. QED
      BY <1>8, <2>1
  <1> HIDE DEF new
  <1>10. new.text = text /\ new # NoWord
    BY <1>8, <1>9 DEF NoWord
  <1>11. Timed(new) = Made(r, text)
    BY <1>9 DEF Made
  <1>12. Open(r, new, i, q)
    <2>1. ~\E b \in (i+1)..i : r[b].type = "blank"
      BY <1>1
    <2>2. QED
      BY <1>8, <1>9, <1>10, <2>1 DEF Open
  <1>13. Joined(r, ws, new, q, i)
    BY <1>7, <1>8, <1>10, <1>11, <1>12 DEF Joined, Full
  <1>14. QED
    BY <1>13 DEF new

\* Nothing is joined yet.
LEMMA NothingHeld ==
    ASSUME NEW r
    PROVE  /\ Joined(r, << >>, NoWord, FALSE, 0)
           /\ \A k \in 1..Len(<< >>) : FALSE
  <1>1. Full(<< >>, NoWord) = << >>
    BY DEF Full, NoWord
  <1>2. Len(<< >>) = 0
    OBVIOUS
  <1>3. \A k \in 1..Len(<< >>) : FALSE
    BY <1>2
  <1>4. \A i \in 1..0 : FALSE
    OBVIOUS
  <1>5. << >> \in Seq(Word)
    OBVIOUS
  <1>6. Holding(r, << >>, 0)
    BY <1>3, <1>4, <1>5 DEF Holding
  <1>7. QED
    BY <1>1, <1>3, <1>6 DEF Joined, Open

\* The words that hold an output in order have a duration and end in time.
LEMMA HoldingTimes ==
    ASSUME NEW r \in Seq(Tokens), Orderly(r), NEW f \in 0..Len(r), NEW ws, Holding(r, ws, f)
    PROVE  \A k \in 1..Len(ws) : /\ ws[k] \in Word /\ ws[k].start < ws[k].end /\ ws[k].end <= Duration
                                 /\ ws[k].text \in Seq(1..Len(r)) /\ ws[k].text # << >>
                                 /\ ws[k] = Made(r, ws[k].text)
                                 /\ \A m \in 1..Len(ws[k].text) : IsText(r, ws[k].text[m])
                                 /\ \A m, n \in 1..Len(ws[k].text) : m < n => ws[k].text[m] < ws[k].text[n]
  <1> SUFFICES ASSUME NEW k \in 1..Len(ws)
               PROVE  /\ ws[k] \in Word /\ ws[k].start < ws[k].end /\ ws[k].end <= Duration
                      /\ ws[k].text \in Seq(1..Len(r)) /\ ws[k].text # << >>
                      /\ ws[k] = Made(r, ws[k].text)
                      /\ \A m \in 1..Len(ws[k].text) : IsText(r, ws[k].text[m])
                      /\ \A m, n \in 1..Len(ws[k].text) : m < n => ws[k].text[m] < ws[k].text[n]
    OBVIOUS
  <1>1. f \in Nat /\ 1..f \subseteq 1..Len(r)
    BY LenProperties
  <1>2. ws[k] \in Word /\ WellMade(r, ws[k], f)
    BY <1>1, HoldingFacts
  <1> DEFINE w == ws[k]
  <1>3. w.text \in Seq(1..Len(r)) /\ w.text # << >> /\ w = Made(r, w.text)
    BY <1>1, <1>2, SeqMonotonic DEF WellMade
  <1>4. /\ \A m \in 1..Len(w.text) : IsText(r, w.text[m])
        /\ \A m, n \in 1..Len(w.text) : m < n => w.text[m] < w.text[n]
    BY <1>2 DEF WellMade
  <1>5. Made(r, w.text).start < Made(r, w.text).end /\ Made(r, w.text).end <= Duration
    BY <1>3, <1>4, MadeFacts
  <1>6. QED
    BY <1>2, <1>3, <1>4, <1>5

-----------------------------------------------------------------------------
(* Each step keeps the invariant *)

LEMMA InitHolds == Init => WordInv
  <1> SUFFICES ASSUME Init
               PROVE  WordInv
    OBVIOUS
  <1>1. /\ raw = << >> /\ tokens = << >> /\ cursor = 0 /\ current = NoWord /\ pending = FALSE
        /\ spans = << >> /\ failed = FALSE /\ attributed = << >> /\ turns = << >>
        /\ \/ origin = "stt" /\ stage = "reading" /\ words = << >>
           \/ origin = "supplied" /\ stage = "checking" /\ words \in Supplied
    BY DEF Init
  <1>2. Len(<< >>) = 0 /\ \A k \in 1..0 : FALSE
    OBVIOUS
  <1>3. words \in Seq(Word) /\ \A k \in 1..Len(words) : words[k].start < words[k].end
    <2>1. CASE words = << >>
      BY <1>2, <2>1
    <2>2. CASE words \in Supplied
      <3>1. words \in Seq(Word) /\ \A k \in DOMAIN words : words[k].start < words[k].end
        BY <2>2, WordAssumption
      <3>2. DOMAIN words = 1..Len(words)
        BY <3>1, LenProperties
      <3>3. QED
        BY <3>1, <3>2
    <2>3. QED
      BY <1>1, <2>1, <2>2
  <1>4. TypesOK
    <2>1. Positions(raw, tokens)
      BY <1>1, <1>2 DEF Positions
    <2>2. attributed \in Seq(Attributed) /\ raw \in Seq(Tokens)
      BY <1>1
    <2>3. QED
      BY <1>1, <1>3, <2>1, <2>2 DEF TypesOK, Stages
  <1>5. ReadingOK
    BY <1>1, <1>2 DEF ReadingOK, Orderly
  <1>6. JoiningOK
    BY <1>1 DEF JoiningOK
  <1>7. WordsOK
    BY <1>1 DEF WordsOK, Checked
  <1>8. NamesOK
    BY <1>1, <1>2 DEF NamesOK
  <1>9. TurnsOK
    BY <1>1 DEF TurnsOK
  <1>10. QED
    BY <1>4, <1>5, <1>6, <1>7, <1>8, <1>9 DEF WordInv

LEMMA ReadTokenKeeps ==
    ASSUME WordInv, ReadToken
    PROVE  WordInv'
  <1>1. /\ stage = "reading" /\ words = << >> /\ current = NoWord /\ pending = FALSE /\ cursor = 0
        /\ origin = "stt" /\ attributed = << >> /\ turns = << >> /\ Orderly(raw)
        /\ raw \in Seq(Tokens) /\ Positions(raw, tokens) /\ TypesOK
    BY DEF WordInv, ReadToken, TypesOK, ReadingOK, NamesOK, TurnsOK
  <1>2. PICK t \in Tokens :
          /\ raw' = Append(raw, t)
          /\ tokens' = IF t.type = "special" THEN tokens ELSE Append(tokens, Len(raw) + 1)
          /\ stage' = IF t.type = "special" \/ (t.type # "invalid" /\ Timely(t))
                        THEN "reading" ELSE "refused"
    BY DEF ReadToken
  <1>3. UNCHANGED << origin, cursor, current, pending, words, spans, failed, attributed, turns >>
    BY DEF ReadToken, joining, diarized
  <1>4. raw' \in Seq(Tokens) /\ Positions(raw', tokens')
    BY <1>1, <1>2, PositionsRead, AppendProperties
  <1>5. \A k \in 1..Len(<< >>) : FALSE
    BY NothingHeld
  <1>6. TypesOK'
    BY <1>1, <1>2, <1>3, <1>4 DEF TypesOK, Stages
  <1>7. ASSUME stage' # "refused" PROVE Orderly(raw')
    <2>1. \/ t.type = "special"
          \/ /\ t.type # "invalid" /\ t.from <= t.to /\ t.to * PerMs <= Duration
             /\ tokens = << >> \/ t.from >= raw[tokens[Len(tokens)]].to
      BY <1>2, <1>7 DEF Timely, InOrder, Last
    <2>2. Orderly(Append(raw, t))
      BY <1>1, <2>1, OrderlyRead
    <2>3. QED
      BY <1>2, <2>2
  <1>8. ReadingOK'
    BY <1>1, <1>2, <1>3, <1>7 DEF ReadingOK
  <1>9. JoiningOK' /\ WordsOK'
    BY <1>1, <1>2, <1>3 DEF JoiningOK, WordsOK, Checked
  <1>10. NamesOK' /\ TurnsOK'
    BY <1>1, <1>2, <1>3, <1>5 DEF NamesOK, TurnsOK
  <1>11. QED
    BY <1>6, <1>8, <1>9, <1>10 DEF WordInv

LEMMA EndOutputKeeps ==
    ASSUME WordInv, EndOutput
    PROVE  WordInv'
  <1>1. /\ stage = "reading" /\ words = << >> /\ current = NoWord /\ pending = FALSE /\ cursor = 0
        /\ origin = "stt" /\ attributed = << >> /\ turns = << >> /\ Orderly(raw)
        /\ Positions(raw, tokens) /\ TypesOK
    BY DEF WordInv, EndOutput, TypesOK, ReadingOK, NamesOK, TurnsOK
  <1>2. /\ stage' = "joining"
        /\ UNCHANGED << origin, raw, tokens, cursor, current, pending, words, spans, failed, attributed, turns >>
    BY DEF EndOutput, reading, joining, diarized
  <1>3. \A k \in 1..Len(<< >>) : FALSE
    BY NothingHeld
  <1>4. TypesOK'
    BY <1>1, <1>2 DEF TypesOK, Stages
  <1>5. ReadingOK'
    BY <1>1, <1>2 DEF ReadingOK
  <1>6. JoiningOK'
    <2>1. Joined(raw', words', current', pending', Dealt')
      <3>1. Dealt' = 0
        BY <1>1, <1>2 DEF Dealt, Reached
      <3>2. QED
        BY <1>1, <1>2, <3>1, NothingHeld
    <2>2. cursor' <= Len(tokens')
      <3>1. Len(tokens) \in Nat
        BY <1>1, LenProperties DEF Positions
      <3>2. QED
        BY <1>1, <1>2, <3>1
    <2>3. QED
      BY <2>1, <2>2 DEF JoiningOK
  <1>7. WordsOK' /\ NamesOK' /\ TurnsOK'
    BY <1>1, <1>2, <1>3 DEF WordsOK, NamesOK, TurnsOK, Checked
  <1>8. QED
    BY <1>4, <1>5, <1>6, <1>7 DEF WordInv

LEMMA JoinTokenKeeps ==
    ASSUME WordInv, JoinToken
    PROVE  WordInv'
  <1> DEFINE i == tokens[cursor + 1]
             t == raw[i]
             f == Dealt
  <1>1. /\ stage = "joining" /\ cursor < Len(tokens) /\ cursor \in Nat
        /\ origin = "stt" /\ attributed = << >> /\ turns = << >> /\ Orderly(raw)
        /\ raw \in Seq(Tokens) /\ Positions(raw, tokens) /\ TypesOK /\ words \in Seq(Word)
        /\ \A k \in 1..Len(words) : words[k].start < words[k].end
        /\ Joined(raw, words, current, pending, f) /\ pending \in BOOLEAN
    BY DEF WordInv, JoinToken, TypesOK, ReadingOK, NamesOK, TurnsOK, JoiningOK
  <1>2. /\ UNCHANGED << origin, stage, raw, tokens, spans, failed, attributed, turns >>
        /\ cursor' = cursor + 1
    BY DEF JoinToken, reading, diarized
  <1>3. Len(tokens) \in Nat /\ cursor \in 0..Len(tokens) /\ cursor + 1 \in 1..Len(tokens)
    <2>1. Len(tokens) \in Nat
      BY <1>1, LenProperties DEF Positions
    <2>2. QED
      BY <1>1, <2>1
  <1>4. /\ f \in 0..Len(raw) /\ i \in 1..Len(raw) /\ IsKept(raw, i) /\ f < i
        /\ \A b \in (f+1)..(i-1) : ~IsKept(raw, b)
    BY <1>1, <1>3, ReachedFacts DEF Dealt
  <1>5. t \in Token /\ t.trailing \in BOOLEAN /\ t.leading \in BOOLEAN
    <2>1. t \in Token
      BY <1>1, <1>4, TokenFacts
    <2>2. QED
      BY <2>1 DEF Token
  <1>6. Dealt' = i
    BY <1>1, <1>2 DEF Dealt, Reached
  <1>7. /\ Joined(raw, words', current', pending', i) /\ pending' \in BOOLEAN
        /\ words' = words \/ words' = Full(words, current)
    <2>1. CASE t.type = "blank"
      <3>1. pending' = TRUE /\ current' = current /\ words' = words
        BY <2>1 DEF JoinToken
      <3>2. Joined(raw, words, current, TRUE, i)
        BY <1>1, <1>4, <2>1, BlankJoined
      <3>3. QED
        BY <3>1, <3>2
    <2>2. CASE t.type # "blank"
      <3> DEFINE begins == BeginsWord(t)
                 fresh == begins \/ current.text = << >>
      <3>1. /\ words' = IF begins THEN Full(words, current) ELSE words
            /\ current' = IF fresh
                            THEN [text |-> << i >>, start |-> From(i), end |-> To(i)]
                            ELSE [current EXCEPT !.text = Append(@, i), !.end = To(i)]
            /\ pending' = t.trailing
        <4>1. Flushed = Full(words, current)
          BY DEF Flushed, Full
        <4>2. QED
          BY <2>2, <4>1 DEF JoinToken
      <3>2. IsText(raw, i)
        <4>1. t.type # "special" /\ t.type # "invalid"
          BY <1>1, <1>4 DEF Orderly, IsKept
        <4>2. t.type \in {"piece", "mark", "blank", "special", "invalid"}
          BY <1>5 DEF Token
        <4>3. QED
          BY <2>2, <4>1, <4>2 DEF IsText
      <3>3. From(i) = raw[i].from * PerMs /\ To(i) = raw[i].to * PerMs
        BY DEF From, To
      <3>4. current.text = << >> <=> current = NoWord
        <4>1. current # NoWord => current.text # << >>
          BY <1>1 DEF Joined, Open
        <4>2. NoWord.text = << >>
          BY DEF NoWord
        <4>3. QED
          BY <4>1, <4>2
      <3>5. begins <=> current # NoWord /\ (pending \/ t.leading) /\ t.type # "mark"
        BY <3>4 DEF BeginsWord
      <3>6. pending' <=> raw[i].trailing
        BY <3>1
      <3>7. CASE fresh
        <4>1. words' = Full(words, current)
          <5>1. CASE begins
            BY <3>1, <5>1
          <5>2. CASE ~begins
            BY <3>1, <3>7, <5>2 DEF Full
          <5>3. QED
            BY <5>1, <5>2
        <4>2. current' = [text |-> << i >>, start |-> raw[i].from * PerMs, end |-> raw[i].to * PerMs]
          BY <3>1, <3>3, <3>7
        <4>3. current # NoWord => raw[i].type # "mark" /\ (pending \/ raw[i].leading)
          BY <3>4, <3>5, <3>7
        <4> HIDE DEF i, f, begins, fresh
        <4>4. Joined(raw, words', current', pending', i)
          BY <1>1, <1>4, <3>2, <3>6, <4>1, <4>2, <4>3, NewJoined
        <4>5. QED
          BY <1>5, <3>1, <4>1, <4>4
      <3>8. CASE ~fresh
        <4>1. words' = words
          BY <3>1, <3>8
        <4>2. current' = [current EXCEPT !.text = Append(@, i), !.end = raw[i].to * PerMs]
          BY <3>1, <3>3, <3>8
        <4>3. current # NoWord /\ (raw[i].type = "mark" \/ (~pending /\ ~raw[i].leading))
          BY <3>4, <3>5, <3>8
        <4> HIDE DEF i, f, begins, fresh
        <4>4. Joined(raw, words', current', pending', i)
          BY <1>1, <1>4, <3>2, <3>6, <4>1, <4>2, <4>3, MoreJoined
        <4>5. QED
          BY <1>5, <3>1, <4>1, <4>4
      <3>9. QED
        BY <3>7, <3>8
    <2>3. QED
      BY <2>1, <2>2
  <1> HIDE DEF i, f, t
  <1>8. words' \in Seq(Word) /\ \A k \in 1..Len(words') : words'[k].start < words'[k].end
    <2>1. CASE words' = words
      BY <1>1, <2>1
    <2>2. CASE words' = Full(words, current)
      <3>1. Holding(raw, words', f)
        BY <1>1, <2>2 DEF Joined
      <3>2. QED
        BY <1>1, <1>4, <3>1, HoldingTimes DEF Holding
    <2>3. QED
      BY <1>7, <2>1, <2>2
  <1>9. TypesOK'
    BY <1>1, <1>2, <1>7, <1>8 DEF TypesOK
  <1>10. ReadingOK'
    BY <1>1, <1>2 DEF ReadingOK
  <1>11. JoiningOK'
    BY <1>2, <1>3, <1>6, <1>7 DEF JoiningOK
  <1>12. \A k \in 1..Len(<< >>) : FALSE
    BY NothingHeld
  <1>13. WordsOK' /\ NamesOK' /\ TurnsOK'
    BY <1>1, <1>2, <1>12 DEF WordsOK, NamesOK, TurnsOK, Checked
  <1>14. QED
    BY <1>9, <1>10, <1>11, <1>13 DEF WordInv

LEMMA EndTokensKeeps ==
    ASSUME WordInv, EndTokens
    PROVE  WordInv'
  <1>1. /\ stage = "joining" /\ cursor = Len(tokens) /\ cursor \in Nat
        /\ origin = "stt" /\ attributed = << >> /\ turns = << >> /\ Orderly(raw)
        /\ raw \in Seq(Tokens) /\ Positions(raw, tokens) /\ TypesOK
        /\ Joined(raw, words, current, pending, Dealt)
    BY DEF WordInv, EndTokens, TypesOK, ReadingOK, NamesOK, TurnsOK, JoiningOK
  <1>2. /\ UNCHANGED << origin, raw, tokens, pending, spans, failed, attributed, turns >>
        /\ stage' = "checking" /\ cursor' = 0
        /\ words' = Full(words, current)
    BY DEF EndTokens, reading, diarized, Flushed, Full
  <1>3. Dealt \in 0..Len(raw) /\ \A b \in (Dealt + 1)..Len(raw) : ~IsKept(raw, b)
    <2>1. cursor \in 0..Len(tokens)
      BY <1>1
    <2>2. QED
      BY <1>1, <2>1, ReachedFacts DEF Dealt
  <1>4. Holding(raw, words', Len(raw))
    <2>1. Holding(raw, words', Dealt)
      BY <1>1, <1>2 DEF Joined
    <2>2. Dealt \in Nat /\ Len(raw) \in Nat /\ Dealt <= Len(raw)
      BY <1>1, <1>3, LenProperties
    <2>3. \A b \in (Dealt + 1)..Len(raw) : ~IsText(raw, b)
      BY <1>3 DEF IsText, IsKept
    <2>4. QED
      BY <2>1, <2>2, <2>3, HoldingMoves
  <1>5. words' \in Seq(Word) /\ \A k \in 1..Len(words') : words'[k].start < words'[k].end
    <2>1. Len(raw) \in 0..Len(raw)
      BY <1>1, LenProperties
    <2>2. QED
      BY <1>1, <1>4, <2>1, HoldingTimes DEF Holding
  <1>6. TypesOK'
    BY <1>1, <1>2, <1>5 DEF TypesOK, Stages
  <1>7. ReadingOK' /\ JoiningOK'
    BY <1>1, <1>2 DEF ReadingOK, JoiningOK
  <1>8. WordsOK'
    BY <1>2, <1>4 DEF WordsOK
  <1>9. \A k \in 1..Len(<< >>) : FALSE
    BY NothingHeld
  <1>10. NamesOK' /\ TurnsOK'
    BY <1>1, <1>2, <1>9 DEF NamesOK, TurnsOK
  <1>11. QED
    BY <1>6, <1>7, <1>8, <1>10 DEF WordInv

\* What the provider checks.
LEMMA AcceptableIsInTurn ==
    ASSUME words \in Seq(Word)
    PROVE  Acceptable <=> InTurn(words)
  <1>1. DOMAIN words = 1..Len(words)
    BY LenProperties
  <1>2. QED
    BY <1>1 DEF Acceptable, InTurn

LEMMA CheckWordsKeeps ==
    ASSUME WordInv, CheckWords
    PROVE  WordInv'
  <1>1. /\ stage = "checking" /\ cursor = 0 /\ attributed = << >> /\ turns = << >>
        /\ words \in Seq(Word) /\ TypesOK
        /\ origin = "stt" => Orderly(raw) /\ Holding(raw, words, Len(raw))
    BY DEF WordInv, CheckWords, TypesOK, ReadingOK, WordsOK, NamesOK, TurnsOK, Checked
  <1>2. /\ UNCHANGED << origin, raw, tokens, cursor, current, pending, words, spans, failed, attributed, turns >>
        /\ stage' = IF InTurn(words) THEN "waiting" ELSE "refused"
    BY <1>1, AcceptableIsInTurn DEF CheckWords, reading, joining, diarized
  <1>3. TypesOK'
    BY <1>1, <1>2 DEF TypesOK, Stages
  <1>4. ReadingOK' /\ JoiningOK'
    BY <1>1, <1>2 DEF ReadingOK, JoiningOK
  <1>5. WordsOK'
    BY <1>1, <1>2 DEF WordsOK
  <1>6. \A k \in 1..Len(<< >>) : FALSE
    BY NothingHeld
  <1>7. NamesOK' /\ TurnsOK'
    BY <1>1, <1>2, <1>6 DEF NamesOK, TurnsOK
  <1>8. QED
    BY <1>3, <1>4, <1>5, <1>7 DEF WordInv

LEMMA DiarizeKeeps ==
    ASSUME WordInv, Diarize
    PROVE  WordInv'
  <1>1. /\ stage = "waiting" /\ cursor = 0 /\ attributed = << >> /\ turns = << >>
        /\ words \in Seq(Word) /\ TypesOK /\ InTurn(words)
        /\ origin = "stt" => Orderly(raw) /\ Holding(raw, words, Len(raw))
    BY DEF WordInv, Diarize, TypesOK, ReadingOK, WordsOK, NamesOK, TurnsOK, Checked
  <1>2. /\ UNCHANGED << origin, raw, tokens, cursor, current, pending, words, attributed, turns >>
        /\ stage' = "mapping"
        /\ \/ spans' \in Timelines /\ failed' = FALSE
           \/ spans' = << >> /\ failed' = TRUE
    BY DEF Diarize, reading, joining
  <1>3. TypesOK'
    BY <1>1, <1>2 DEF TypesOK, Stages
  <1>4. ReadingOK' /\ JoiningOK'
    BY <1>1, <1>2 DEF ReadingOK, JoiningOK
  <1>5. WordsOK'
    BY <1>1, <1>2 DEF WordsOK
  <1>6. Len(<< >>) = 0 /\ \A k \in 1..Len(<< >>) : FALSE
    BY NothingHeld
  <1>7. NamesOK'
    <2>1. Len(words) \in Nat
      BY <1>1, LenProperties
    <2>2. QED
      BY <1>1, <1>2, <1>6, <2>1 DEF NamesOK
  <1>8. TurnsOK'
    BY <1>1, <1>2 DEF TurnsOK
  <1>9. QED
    BY <1>3, <1>4, <1>5, <1>7, <1>8 DEF WordInv

LEMMA EndWordsKeeps ==
    ASSUME WordInv, EndWords
    PROVE  WordInv'
  <1>1. /\ stage = "mapping" /\ cursor = Len(words) /\ turns = << >> /\ TypesOK /\ InTurn(words)
        /\ Len(attributed) = cursor /\ words \in Seq(Word)
        /\ \A k \in 1..Len(attributed) : Claims(attributed[k], spans, words[k], failed)
        /\ origin = "stt" => Orderly(raw) /\ Holding(raw, words, Len(raw))
    BY DEF WordInv, EndWords, TypesOK, ReadingOK, WordsOK, NamesOK, TurnsOK, Checked
  <1>2. /\ UNCHANGED << origin, raw, tokens, current, pending, words, spans, failed, attributed, turns >>
        /\ stage' = "grouping" /\ cursor' = 0
    BY DEF EndWords, reading, joining, diarized
  <1>3. TypesOK'
    BY <1>1, <1>2 DEF TypesOK, Stages
  <1>4. ReadingOK' /\ JoiningOK'
    BY <1>1, <1>2 DEF ReadingOK, JoiningOK
  <1>5. WordsOK'
    BY <1>1, <1>2 DEF WordsOK
  <1>6. NamesOK'
    BY <1>1, <1>2 DEF NamesOK
  <1>7. TurnsOK'
    <2>1. Grouped(words', attributed', turns', 0)
      <3>1. Len(<< >>) = 0 /\ \A k \in 1..0 : FALSE
        OBVIOUS
      <3>2. \A k \in 1..(0 - 1) : FALSE
        OBVIOUS
      <3>3. << >> \in Seq(Seq(1..0))
        OBVIOUS
      <3>4. QED
        BY <1>1, <1>2, <3>1, <3>2, <3>3 DEF Grouped
    <2>2. 0 <= Len(words)
      BY <1>1, LenProperties
    <2>3. QED
      BY <1>2, <2>1, <2>2 DEF TurnsOK
  <1>8. QED
    BY <1>3, <1>4, <1>5, <1>6, <1>7 DEF WordInv

LEMMA EndGroupsKeeps ==
    ASSUME WordInv, EndGroups
    PROVE  WordInv'
  <1>1. /\ stage = "grouping" /\ cursor = Len(words) /\ TypesOK /\ InTurn(words)
        /\ Len(attributed) = Len(words) /\ words \in Seq(Word)
        /\ \A k \in 1..Len(attributed) : Claims(attributed[k], spans, words[k], failed)
        /\ origin = "stt" => Orderly(raw) /\ Holding(raw, words, Len(raw))
        /\ Grouped(words, attributed, turns, cursor)
    BY DEF WordInv, EndGroups, TypesOK, ReadingOK, WordsOK, NamesOK, TurnsOK, Checked
  <1>2. /\ UNCHANGED << origin, raw, tokens, cursor, current, pending, words, spans, failed, attributed, turns >>
        /\ stage' = "done"
    BY DEF EndGroups, reading, joining, diarized
  <1>3. TypesOK'
    BY <1>1, <1>2 DEF TypesOK, Stages
  <1>4. ReadingOK' /\ JoiningOK'
    BY <1>1, <1>2 DEF ReadingOK, JoiningOK
  <1>5. WordsOK'
    BY <1>1, <1>2 DEF WordsOK
  <1>6. NamesOK'
    BY <1>1, <1>2 DEF NamesOK
  <1>7. TurnsOK'
    BY <1>1, <1>2 DEF TurnsOK
  <1>8. QED
    BY <1>3, <1>4, <1>5, <1>6, <1>7 DEF WordInv

-----------------------------------------------------------------------------
(* Turns *)

LEMMA GroupedFacts ==
    ASSUME NEW ws, NEW at, NEW tn, NEW c \in Nat, Grouped(ws, at, tn, c)
    PROVE  /\ Len(tn) \in Nat /\ tn \in Seq(Seq(1..c))
           /\ \A n \in 1..Len(tn) :
                /\ tn[n] \in Seq(1..c) /\ Len(tn[n]) \in Nat \ {0}
                /\ 1 \in 1..Len(tn[n]) /\ Len(tn[n]) \in 1..Len(tn[n])
                /\ \A m \in 1..Len(tn[n]) : tn[n][m] \in 1..c
                /\ Final(tn[n]) \in 1..c
           /\ tn # << >> => Len(tn) \in 1..Len(tn) /\ Final(tn[Len(tn)]) = c /\ c > 0
  <1>1. tn \in Seq(Seq(1..c)) /\ Len(tn) \in Nat
    BY LenProperties DEF Grouped
  <1>2. ASSUME NEW n \in 1..Len(tn)
        PROVE  /\ tn[n] \in Seq(1..c) /\ Len(tn[n]) \in Nat \ {0}
               /\ 1 \in 1..Len(tn[n]) /\ Len(tn[n]) \in 1..Len(tn[n])
               /\ \A m \in 1..Len(tn[n]) : tn[n][m] \in 1..c
               /\ Final(tn[n]) \in 1..c
    <2>1. tn[n] \in Seq(1..c) /\ tn[n] # << >>
      BY <1>1, ElementOfSeq DEF Grouped
    <2>2. Len(tn[n]) \in Nat \ {0}
      BY <2>1, EmptySeq, LenProperties
    <2>3. 1 \in 1..Len(tn[n]) /\ Len(tn[n]) \in 1..Len(tn[n])
      BY <2>2
    <2>4. \A m \in 1..Len(tn[n]) : tn[n][m] \in 1..c
      BY <2>1, ElementOfSeq
    <2>5. QED
      BY <2>1, <2>2, <2>3, <2>4 DEF Final
  <1>3. ASSUME tn # << >> PROVE Len(tn) \in 1..Len(tn) /\ Final(tn[Len(tn)]) = c /\ c > 0
    <2>1. Len(tn) # 0
      BY <1>1, <1>3, EmptySeq
    <2>2. Len(tn) \in 1..Len(tn)
      BY <1>1, <2>1
    <2>3. Final(tn[Len(tn)]) \in 1..c
      BY <1>2, <2>2
    <2>4. c > 0
      BY <2>3
    <2>5. QED
      BY <2>2, <2>4 DEF Grouped
  <1>4. QED
    BY <1>1, <1>2, <1>3

\* The last turn goes on.
LEMMA TurnGoesOn ==
    ASSUME NEW ws, NEW at, NEW tn, NEW c \in Nat, Grouped(ws, at, tn, c), tn # << >>, Alike(ws, at, c)
    PROVE  Grouped(ws, at, [tn EXCEPT ![Len(tn)] = Append(@, c + 1)], c + 1)
  <1> DEFINE N == Len(tn)
             d == c + 1
             old == tn[N]
             M == Len(old)
             new == Append(old, d)
             u == [tn EXCEPT ![N] = new]
  <1>1. /\ N \in Nat /\ tn \in Seq(Seq(1..c)) /\ N \in 1..N /\ d \in Nat /\ d \in 1..d /\ c \in 1..c
        /\ Final(old) = c
        /\ \A n \in 1..N : /\ tn[n] \in Seq(1..c) /\ Len(tn[n]) \in Nat \ {0}
                           /\ \A m \in 1..Len(tn[n]) : tn[n][m] \in 1..c
                           /\ Len(tn[n]) \in 1..Len(tn[n]) /\ Final(tn[n]) \in 1..c
    <2>1. c > 0
      BY GroupedFacts
    <2>2. QED
      BY <2>1, GroupedFacts
  <1>2. /\ \A n \in 1..N : /\ \A m \in 1..(Len(tn[n]) - 1) : tn[n][m+1] = tn[n][m] + 1 /\ Alike(ws, at, tn[n][m])
                           /\ \A l, m \in 1..Len(tn[n]) : l < m => tn[n][l] < tn[n][m]
        /\ \A n \in 1..(N - 1) : tn[n+1][1] = Final(tn[n]) + 1 /\ ~Alike(ws, at, Final(tn[n]))
        /\ \A m, n \in 1..N : m < n => \A k \in 1..Len(tn[m]), l \in 1..Len(tn[n]) : tn[m][k] < tn[n][l]
        /\ \A k \in 1..c : \E n \in 1..N : \E m \in 1..Len(tn[n]) : tn[n][m] = k
    BY DEF Grouped
  <1>3. 1..c \subseteq 1..d
    BY <1>1
  <1>4. \A n \in 1..N : tn[n] \in Seq(1..d)
    BY <1>1, <1>3, SeqMonotonic
  <1>5. /\ new \in Seq(1..d) /\ Len(new) = M + 1 /\ new[M + 1] = d /\ \A m \in 1..M : new[m] = old[m]
        /\ M \in Nat \ {0} /\ old[M] = c
    <2>1. old \in Seq(1..d) /\ M \in Nat \ {0} /\ old[M] = c
      BY <1>1, <1>4 DEF Final
    <2>2. QED
      BY <1>1, <2>1, AppendProperties
  <1>6. tn \in Seq(Seq(1..d))
    <2>1. Seq(1..c) \subseteq Seq(1..d)
      BY <1>3, SeqMonotonic
    <2>2. QED
      BY <1>1, <2>1, SeqMonotonic
  <1> HIDE DEF new, d
  <1>7. /\ u \in Seq(Seq(1..d)) /\ Len(u) = N /\ u[N] = new
        /\ \A n \in 1..N : n # N => u[n] = tn[n]
    BY <1>1, <1>5, <1>6, ExceptSeq
  <1>8. new # << >> /\ Final(new) = d /\ new[1] = old[1]
    <2>1. new # << >>
      BY <1>5, EmptySeq
    <2>2. 1 \in 1..M
      BY <1>5
    <2>3. QED
      BY <1>5, <2>1, <2>2 DEF Final
  <1> HIDE DEF u, N, M
  <1>9. /\ \A m \in 1..(Len(new) - 1) : new[m+1] = new[m] + 1 /\ Alike(ws, at, new[m])
        /\ \A l, m \in 1..Len(new) : l < m => new[l] < new[m]
    <2>1. ASSUME NEW m \in 1..(Len(new) - 1) PROVE new[m+1] = new[m] + 1 /\ Alike(ws, at, new[m])
      <3>1. m \in 1..M /\ new[m] = old[m]
        BY <1>5
      <3>2. CASE m = M
        BY <1>5, <3>1, <3>2 DEF d
      <3>3. CASE m # M
        <4>1. m \in 1..(M - 1) /\ m + 1 \in 1..M
          BY <1>5, <3>1, <3>3
        <4>2. old[m+1] = old[m] + 1 /\ Alike(ws, at, old[m])
          BY <1>1, <1>2, <4>1 DEF M
        <4>3. QED
          BY <1>5, <3>1, <4>1, <4>2
      <3>4. QED
        BY <3>2, <3>3
    <2>2. ASSUME NEW l \in 1..Len(new), NEW m \in 1..Len(new), l < m PROVE new[l] < new[m]
      <3>1. l \in 1..M /\ new[l] = old[l] /\ old[l] \in 1..c
        <4>1. l \in 1..M
          BY <1>5, <2>2
        <4>2. old[l] \in 1..c
          BY <1>1, <4>1 DEF M
        <4>3. QED
          BY <1>5, <4>1, <4>2
      <3>2. CASE m = M + 1
        BY <1>5, <3>1, <3>2 DEF d
      <3>3. CASE m \in 1..M
        <4>1. old[l] < old[m]
          BY <1>1, <1>2, <2>2, <3>1, <3>3 DEF M
        <4>2. QED
          BY <1>5, <3>1, <3>3, <4>1
      <3>4. QED
        BY <1>5, <3>2, <3>3
    <2>3. QED
      BY <2>1, <2>2
  <1> HIDE DEF old
  <1>10. \A n \in 1..N : /\ u[n] # << >>
                         /\ \A m \in 1..(Len(u[n]) - 1) : u[n][m+1] = u[n][m] + 1 /\ Alike(ws, at, u[n][m])
                         /\ \A l, m \in 1..Len(u[n]) : l < m => u[n][l] < u[n][m]
    <2> SUFFICES ASSUME NEW n \in 1..N
                 PROVE  /\ u[n] # << >>
                        /\ \A m \in 1..(Len(u[n]) - 1) : u[n][m+1] = u[n][m] + 1 /\ Alike(ws, at, u[n][m])
                        /\ \A l, m \in 1..Len(u[n]) : l < m => u[n][l] < u[n][m]
      OBVIOUS
    <2>1. CASE n = N
      <3>1. u[n] = new
        BY <1>7, <2>1
      <3>2. QED
        BY <1>8, <1>9, <3>1
    <2>2. CASE n # N
      <3>1. u[n] = tn[n]
        BY <1>7, <2>2
      <3>2. tn[n] # << >>
        BY DEF Grouped, N
      <3>3. QED
        BY <1>2, <3>1, <3>2
    <2>3. QED
      BY <2>1, <2>2
  <1>11. ASSUME NEW n \in 1..(N - 1) PROVE u[n+1][1] = Final(u[n]) + 1 /\ ~Alike(ws, at, Final(u[n]))
    <2>1. n \in 1..N /\ n # N /\ n + 1 \in 1..N
      BY <1>1
    <2>2. u[n] = tn[n] /\ u[n+1][1] = tn[n+1][1]
      <3>1. CASE n + 1 = N
        BY <1>7, <1>8, <2>1, <3>1 DEF old
      <3>2. CASE n + 1 # N
        BY <1>7, <2>1, <3>2
      <3>3. QED
        BY <1>7, <2>1, <3>1, <3>2
    <2>3. QED
      BY <1>2, <2>2
  <1>12. ASSUME NEW m \in 1..N, NEW n \in 1..N, m < n, NEW k \in 1..Len(u[m]), NEW l \in 1..Len(u[n])
         PROVE  u[m][k] < u[n][l]
    <2>1. m # N /\ u[m] = tn[m] /\ tn[m][k] \in 1..c
      <3>1. m # N
        BY <1>1, <1>12
      <3>2. u[m] = tn[m]
        BY <1>7, <3>1
      <3>3. QED
        BY <1>1, <1>12, <3>1, <3>2
    <2>2. \A j \in 1..Len(tn[n]) : tn[m][k] < tn[n][j]
      BY <1>2, <1>12, <2>1
    <2>3. CASE n # N
      BY <1>7, <1>12, <2>1, <2>2, <2>3
    <2>4. CASE n = N
      <3>1. CASE l = M + 1
        <4>1. u[n][l] = d /\ u[m][k] \in 1..c
          BY <1>5, <1>7, <2>1, <2>4, <3>1
        <4>2. QED
          BY <4>1 DEF d
      <3>2. CASE l \in 1..M
        BY <1>5, <1>7, <2>1, <2>2, <2>4, <3>2 DEF M, old
      <3>3. QED
        BY <1>5, <1>7, <1>12, <2>4, <3>1, <3>2
    <2>5. QED
      BY <2>3, <2>4
  <1>13. ASSUME NEW k \in 1..d PROVE \E n \in 1..N : \E m \in 1..Len(u[n]) : u[n][m] = k
    <2>1. CASE k = d
      <3>1. M + 1 \in 1..Len(new)
        BY <1>5
      <3>2. QED
        BY <1>1, <1>5, <1>7, <2>1, <3>1
    <2>2. CASE k # d
      <3>1. k \in 1..c
        BY <2>2 DEF d
      <3>2. PICK n \in 1..N : \E m \in 1..Len(tn[n]) : tn[n][m] = k
        BY <1>2, <3>1
      <3>3. PICK m \in 1..Len(tn[n]) : tn[n][m] = k
        BY <3>2
      <3>4. CASE n # N
        BY <1>7, <3>3, <3>4
      <3>5. CASE n = N
        <4>1. m \in 1..M /\ old[m] = k
          BY <3>3, <3>5 DEF M, old
        <4>2. m \in 1..Len(new) /\ new[m] = k
          BY <1>5, <4>1
        <4>3. QED
          BY <1>7, <3>5, <4>2
      <3>6. QED
        BY <3>4, <3>5
    <2>3. QED
      BY <2>1, <2>2
  <1>14. u # << >> /\ Final(u[Len(u)]) = d
    <2>1. u # << >>
      BY <1>1, <1>7, EmptySeq
    <2>2. QED
      BY <1>7, <1>8, <2>1
  <1>15. Grouped(ws, at, u, d)
    BY <1>7, <1>10, <1>11, <1>12, <1>13, <1>14 DEF Grouped
  <1>16. QED
    BY <1>15 DEF u, new, d, N, old

\* A turn begins.
LEMMA TurnBegins ==
    ASSUME NEW ws, NEW at, NEW tn, NEW c \in Nat, Grouped(ws, at, tn, c), tn # << >> => ~Alike(ws, at, c)
    PROVE  Grouped(ws, at, Append(tn, << c + 1 >>), c + 1)
  <1> DEFINE N == Len(tn)
             d == c + 1
             new == << d >>
             u == Append(tn, new)
  <1>1. /\ N \in Nat /\ tn \in Seq(Seq(1..c)) /\ d \in Nat /\ d \in 1..d
        /\ tn # << >> => Final(tn[N]) = c /\ N \in 1..N
        /\ \A n \in 1..N : /\ tn[n] \in Seq(1..c) /\ Len(tn[n]) \in Nat \ {0}
                           /\ \A m \in 1..Len(tn[n]) : tn[n][m] \in 1..c
                           /\ Len(tn[n]) \in 1..Len(tn[n]) /\ Final(tn[n]) \in 1..c
    BY GroupedFacts
  <1>2. /\ \A n \in 1..N : /\ tn[n] # << >>
                           /\ \A m \in 1..(Len(tn[n]) - 1) : tn[n][m+1] = tn[n][m] + 1 /\ Alike(ws, at, tn[n][m])
                           /\ \A l, m \in 1..Len(tn[n]) : l < m => tn[n][l] < tn[n][m]
        /\ \A n \in 1..(N - 1) : tn[n+1][1] = Final(tn[n]) + 1 /\ ~Alike(ws, at, Final(tn[n]))
        /\ \A m, n \in 1..N : m < n => \A k \in 1..Len(tn[m]), l \in 1..Len(tn[n]) : tn[m][k] < tn[n][l]
        /\ \A k \in 1..c : \E n \in 1..N : \E m \in 1..Len(tn[n]) : tn[n][m] = k
    BY DEF Grouped
  <1>3. tn \in Seq(Seq(1..d))
    <2>1. 1..c \subseteq 1..d
      BY <1>1
    <2>2. Seq(1..c) \subseteq Seq(1..d)
      BY <2>1, SeqMonotonic
    <2>3. QED
      BY <1>1, <2>2, SeqMonotonic
  <1>4. /\ new \in Seq(1..d) /\ Len(new) = 1 /\ new[1] = d /\ new # << >> /\ Final(new) = d
        /\ \A m \in 1..Len(new) : m = 1
        /\ \A m \in 1..(Len(new) - 1) : FALSE
    <2> HIDE DEF d
    <2>1. QED
      BY <1>1 DEF Final
  <1> HIDE DEF new, d
  <1>5. /\ u \in Seq(Seq(1..d)) /\ Len(u) = N + 1 /\ u[N + 1] = new
        /\ \A n \in 1..N : u[n] = tn[n]
    BY <1>3, <1>4, AppendProperties
  <1> HIDE DEF u, N
  <1>6. N + 1 \in 1..(N + 1) /\ \A n \in 1..(N + 1) : n = N + 1 \/ n \in 1..N
    BY <1>1
  <1>7. \A n \in 1..(N + 1) : /\ u[n] # << >>
                              /\ \A m \in 1..(Len(u[n]) - 1) : u[n][m+1] = u[n][m] + 1 /\ Alike(ws, at, u[n][m])
                              /\ \A l, m \in 1..Len(u[n]) : l < m => u[n][l] < u[n][m]
    <2>1. ASSUME NEW n \in 1..N
          PROVE  /\ u[n] # << >>
                 /\ \A m \in 1..(Len(u[n]) - 1) : u[n][m+1] = u[n][m] + 1 /\ Alike(ws, at, u[n][m])
                 /\ \A l, m \in 1..Len(u[n]) : l < m => u[n][l] < u[n][m]
      BY <1>2, <1>5
    <2>2. /\ new # << >>
          /\ \A m \in 1..(Len(new) - 1) : new[m+1] = new[m] + 1 /\ Alike(ws, at, new[m])
          /\ \A l, m \in 1..Len(new) : l < m => new[l] < new[m]
      BY <1>4
    <2>3. QED
      BY <1>5, <1>6, <2>1, <2>2
  <1>8. ASSUME NEW n \in 1..((N + 1) - 1) PROVE u[n+1][1] = Final(u[n]) + 1 /\ ~Alike(ws, at, Final(u[n]))
    <2>1. n \in 1..N
      BY <1>1
    <2>2. CASE n = N
      <3>1. tn # << >>
        BY <1>1, <2>1, EmptySeq DEF N
      <3>2. QED
        BY <1>1, <1>4, <1>5, <2>1, <2>2, <3>1 DEF d
    <2>3. CASE n # N
      <3>1. n \in 1..(N - 1) /\ n + 1 \in 1..N
        BY <1>1, <2>1, <2>3
      <3>2. QED
        BY <1>2, <1>5, <2>1, <3>1
    <2>4. QED
      BY <2>2, <2>3
  <1>9. ASSUME NEW m \in 1..(N + 1), NEW n \in 1..(N + 1), m < n, NEW k \in 1..Len(u[m]), NEW l \in 1..Len(u[n])
        PROVE  u[m][k] < u[n][l]
    <2>1. m \in 1..N /\ u[m] = tn[m]
      <3>1. m \in 1..N
        BY <1>1, <1>9
      <3>2. QED
        BY <1>5, <3>1
    <2>2. CASE n \in 1..N
      BY <1>2, <1>5, <1>9, <2>1, <2>2
    <2>3. CASE n = N + 1
      <3>1. tn[m][k] \in 1..c
        BY <1>1, <1>9, <2>1
      <3>2. u[n][l] = d
        BY <1>4, <1>5, <1>9, <2>3
      <3>3. QED
        BY <2>1, <3>1, <3>2 DEF d
    <2>4. QED
      BY <1>6, <2>2, <2>3
  <1>10. ASSUME NEW k \in 1..d PROVE \E n \in 1..(N + 1) : \E m \in 1..Len(u[n]) : u[n][m] = k
    <2>1. CASE k = d
      <3>1. 1 \in 1..Len(new)
        BY <1>4
      <3>2. QED
        BY <1>4, <1>5, <1>6, <2>1, <3>1
    <2>2. CASE k # d
      <3>1. k \in 1..c
        BY <2>2 DEF d
      <3>2. PICK n \in 1..N : \E m \in 1..Len(tn[n]) : tn[n][m] = k
        BY <1>2, <3>1
      <3>3. PICK m \in 1..Len(tn[n]) : tn[n][m] = k
        BY <3>2
      <3>4. n \in 1..(N + 1) /\ u[n] = tn[n]
        BY <1>1, <1>5
      <3>5. QED
        BY <3>3, <3>4
    <2>3. QED
      BY <2>1, <2>2
  <1>11. u # << >> /\ Final(u[Len(u)]) = d
    <2>1. u # << >>
      BY <1>1, <1>5, EmptySeq
    <2>2. QED
      BY <1>4, <1>5, <2>1
  <1>12. Grouped(ws, at, u, d)
    BY <1>5, <1>7, <1>8, <1>9, <1>10, <1>11 DEF Grouped
  <1>13. QED
    BY <1>12 DEF u, new, d

LEMMA GroupNextKeeps ==
    ASSUME WordInv, GroupNext
    PROVE  WordInv'
  <1>1. /\ stage = "grouping" /\ cursor < Len(words) /\ cursor \in Nat /\ TypesOK /\ InTurn(words)
        /\ Len(attributed) = Len(words) /\ words \in Seq(Word)
        /\ \A k \in 1..Len(attributed) : Claims(attributed[k], spans, words[k], failed)
        /\ origin = "stt" => Orderly(raw) /\ Holding(raw, words, Len(raw))
        /\ Grouped(words, attributed, turns, cursor)
    BY DEF WordInv, GroupNext, TypesOK, ReadingOK, WordsOK, NamesOK, TurnsOK, Checked
  <1>2. /\ UNCHANGED << origin, stage, raw, tokens, current, pending, words, spans, failed, attributed >>
        /\ cursor' = cursor + 1
        /\ turns' = IF Continues(cursor + 1)
                      THEN [turns EXCEPT ![Len(turns)] = Append(@, cursor + 1)]
                      ELSE Append(turns, << cursor + 1 >>)
    BY DEF GroupNext, reading, joining, diarized
  <1>3. Continues(cursor + 1) <=> turns # << >> /\ Alike(words, attributed, cursor)
    <2>1. turns # << >> => Last(Last(turns)) = cursor
      BY <1>1, GroupedFacts DEF Last, Final
    <2>2. QED
      BY <2>1 DEF Continues, Alike
  <1>4. Grouped(words, attributed, turns', cursor + 1)
    <2>1. CASE Continues(cursor + 1)
      BY <1>1, <1>2, <1>3, <2>1, TurnGoesOn
    <2>2. CASE ~Continues(cursor + 1)
      BY <1>1, <1>2, <1>3, <2>2, TurnBegins
    <2>3. QED
      BY <2>1, <2>2
  <1>5. TypesOK'
    BY <1>1, <1>2 DEF TypesOK
  <1>6. ReadingOK' /\ JoiningOK'
    BY <1>1, <1>2 DEF ReadingOK, JoiningOK
  <1>7. WordsOK'
    BY <1>1, <1>2 DEF WordsOK
  <1>8. NamesOK'
    BY <1>1, <1>2 DEF NamesOK
  <1>9. TurnsOK'
    <2>1. cursor + 1 <= Len(words)
      BY <1>1, LenProperties
    <2>2. QED
      BY <1>1, <1>2, <1>4, <2>1 DEF TurnsOK
  <1>10. QED
    BY <1>5, <1>6, <1>7, <1>8, <1>9 DEF WordInv

-----------------------------------------------------------------------------
(* Names *)

\* What is true of the first and handed on is true of all.
LEMMA Handed ==
    ASSUME NEW a \in Nat, NEW b \in Nat, NEW T,
           a <= b => a \in T,
           \A n \in a..b : n < b /\ n \in T => n + 1 \in T
    PROVE  \A n \in a..b : n \in T
  <1> DEFINE R == {ss \in Nat \X Nat : ss[1] < ss[2]}
             U == {n \in a..b : n \notin T}
  <1> SUFFICES ASSUME U # {}
               PROVE  FALSE
    OBVIOUS
  <1>1. IsWellFoundedOn(R, Nat)
    BY NatLessThanWellFounded DEF OpToRel
  <1>2. U \subseteq Nat
    OBVIOUS
  <1>3. PICK n \in U : \A m \in U : << m, n >> \notin R
    <2> HIDE DEF R, U
    <2>1. QED
      BY <1>1, <1>2, WFMin
  <1>4. n # a /\ n - 1 \in a..b /\ n - 1 < b /\ n - 1 \in Nat /\ (n - 1) + 1 = n
    OBVIOUS
  <1>5. n - 1 \notin U
    <2>1. << n - 1, n >> \in R
      BY <1>2, <1>4
    <2>2. QED
      BY <1>3, <2>1
  <1>6. QED
    BY <1>4, <1>5

\* Intervals each of which ends before the next begins are in order.
LEMMA Chained ==
    ASSUME NEW n \in Nat, NEW s,
           \A k \in 1..n : s[k].start \in Nat /\ s[k].end \in Nat /\ s[k].start < s[k].end,
           \A k \in 2..n : s[k-1].end <= s[k].start
    PROVE  \A k, l \in 1..n : k < l => s[k].end <= s[l].start
  <1> SUFFICES ASSUME NEW k \in 1..n
               PROVE  \A l \in 1..n : k < l => s[k].end <= s[l].start
    OBVIOUS
  <1> DEFINE T == {l \in 1..n : s[k].end <= s[l].start}
  <1>1. k + 1 \in Nat
    OBVIOUS
  <1>2. k + 1 <= n => k + 1 \in T
    <2>1. k + 1 <= n => k + 1 \in 2..n /\ k + 1 \in 1..n /\ (k + 1) - 1 = k
      OBVIOUS
    <2>2. QED
      BY <2>1
  <1>3. ASSUME NEW l \in (k+1)..n, l < n, l \in T PROVE l + 1 \in T
    <2>1. l + 1 \in 2..n /\ l + 1 \in 1..n /\ l \in 1..n /\ (l + 1) - 1 = l
      BY <1>3
    <2>2. s[l].end <= s[l+1].start
      BY <2>1
    <2>3. s[k].end <= s[l].start /\ s[l].start < s[l].end
      BY <1>3, <2>1
    <2>4. s[k].end <= s[l+1].start
      BY <2>1, <2>2, <2>3
    <2>5. QED
      BY <2>1, <2>4
  <1>4. \A l \in (k+1)..n : l \in T
    <2> HIDE DEF T
    <2>1. QED
      BY <1>1, <1>2, <1>3, Handed
  <1>5. QED
    BY <1>4

LEMMA SpanFacts ==
    ASSUME TypesOK
    PROVE  /\ spans \in Seq(Span) /\ Len(spans) \in Nat /\ DOMAIN spans = 1..Len(spans)
           /\ \A k \in 1..Len(spans) :
                spans[k].start \in Nat /\ spans[k].end \in Nat /\ spans[k].start < spans[k].end
           /\ \A k, l \in 1..Len(spans) : k < l => spans[k].end <= spans[l].start
  <1>1. spans \in Timelines \/ spans = << >>
    BY DEF TypesOK
  <1>2. /\ spans \in Seq(Span)
        /\ \A k \in DOMAIN spans : spans[k].start < spans[k].end
        /\ \A k \in 2..Len(spans) : spans[k-1].end <= spans[k].start
    <2>1. CASE spans \in Timelines
      BY <2>1, WordAssumption
    <2>2. CASE spans = << >>
      <3>1. << >> \in Seq(Span) /\ DOMAIN << >> = {} /\ 2..Len(<< >>) = {}
        OBVIOUS
      <3>2. QED
        BY <2>2, <3>1
    <2>3. QED
      BY <1>1, <2>1, <2>2
  <1>3. Len(spans) \in Nat /\ DOMAIN spans = 1..Len(spans)
    BY <1>2, LenProperties
  <1>4. \A k \in 1..Len(spans) : spans[k].start \in Nat /\ spans[k].end \in Nat
    <2>1. \A k \in 1..Len(spans) : spans[k] \in Span
      BY <1>2, ElementOfSeq
    <2>2. QED
      BY <2>1 DEF Span
  <1>5. \A k \in 1..Len(spans) : spans[k].start < spans[k].end
    BY <1>2, <1>3
  <1>6. \A k, l \in 1..Len(spans) : k < l => spans[k].end <= spans[l].start
    BY <1>2, <1>3, <1>4, <1>5, Chained
  <1>7. QED
    BY <1>2, <1>3, <1>4, <1>5, <1>6

\* The units of a word that the first n spans give to a label.
UnitsTo(sp, w, label, n) ==
    {t \in w.start..(w.end - 1) :
       \E k \in 1..n : sp[k].label = label /\ sp[k].start <= t /\ t < sp[k].end}

LEMMA UnitsStep ==
    ASSUME TypesOK, NEW w \in Word, NEW label, NEW n \in 1..Len(spans)
    PROVE  LET U == UnitsTo(spans, w, label, n)
               V == UnitsTo(spans, w, label, n - 1)
           IN  /\ IsFiniteSet(U) /\ IsFiniteSet(V) /\ Cardinality(V) \in Nat
               /\ Cardinality(U) = Cardinality(V) + (IF spans[n].label = label THEN Overlap(w, spans[n]) ELSE 0)
  <1> DEFINE U == UnitsTo(spans, w, label, n)
             V == UnitsTo(spans, w, label, n - 1)
             S == spans[n]
             P == {t \in w.start..(w.end - 1) : S.label = label /\ S.start <= t /\ t < S.end}
  <1>1. /\ Len(spans) \in Nat /\ S.start \in Nat /\ S.end \in Nat
        /\ \A k \in 1..(n-1) : k \in 1..Len(spans) /\ spans[k].end <= S.start
    <2>1. Len(spans) \in Nat
      BY SpanFacts
    <2>2. \A k \in 1..(n-1) : k \in 1..Len(spans) /\ k < n
      BY <2>1
    <2>3. QED
      BY <2>2, SpanFacts
  <1>2. w.start \in Nat /\ w.end \in Nat
    BY DEF Word
  <1>3. IsFiniteSet(w.start..(w.end - 1))
    <2>1. w.start \in Int /\ w.end - 1 \in Int
      BY <1>2
    <2>2. QED
      BY <2>1, FS_Interval
  <1>4. IsFiniteSet(U) /\ IsFiniteSet(V) /\ IsFiniteSet(P)
    <2>1. U \subseteq w.start..(w.end - 1) /\ V \subseteq w.start..(w.end - 1) /\ P \subseteq w.start..(w.end - 1)
      BY DEF UnitsTo
    <2>2. QED
      BY <1>3, <2>1, FS_Subset
  <1>5. U = V \cup P
    <2>1. \A k \in 1..n : k = n \/ k \in 1..(n-1)
      OBVIOUS
    <2>2. \A k \in 1..(n-1) : k \in 1..n
      OBVIOUS
    <2>3. n \in 1..n
      OBVIOUS
    <2>4. QED
      BY <2>1, <2>2, <2>3 DEF UnitsTo
  <1>6. V \cap P = {}
    <2>1. ASSUME NEW t \in V, t \in P PROVE FALSE
      <3>1. PICK k \in 1..(n-1) : spans[k].start <= t /\ t < spans[k].end
        BY <2>1 DEF UnitsTo
      <3>2. t \in Nat /\ S.start <= t
        BY <1>2, <2>1
      <3>3. spans[k].end <= S.start /\ spans[k].end \in Nat
        BY <1>1, SpanFacts
      <3>4. QED
        BY <1>1, <3>1, <3>2, <3>3
    <2>2. QED
      BY <2>1
  <1>7. Cardinality(V) \in Nat /\ Cardinality(P) \in Nat
    BY <1>4, FS_CardinalityType
  <1>8. Cardinality(U) = Cardinality(V) + Cardinality(P)
    <2>1. Cardinality(V \cup P) = Cardinality(V) + Cardinality(P) - Cardinality(V \cap P)
      BY <1>4, FS_Union
    <2>2. Cardinality(V \cap P) = 0
      BY <1>6, FS_EmptySet
    <2> HIDE DEF U, V, P
    <2>3. QED
      BY <1>5, <1>7, <2>1, <2>2
  <1>9. Cardinality(P) = IF S.label = label THEN Overlap(w, S) ELSE 0
    <2>1. CASE S.label # label
      <3>1. P = {}
        BY <2>1
      <3>2. QED
        BY <2>1, <3>1, FS_EmptySet
    <2>2. CASE S.label = label
      <3> DEFINE from == IF w.start > S.start THEN w.start ELSE S.start
                 to == IF w.end < S.end THEN w.end ELSE S.end
      <3>1. from \in Nat /\ to \in Nat /\ to - 1 \in Int
        BY <1>1, <1>2
      <3>2. P = from..(to - 1)
        <4> HIDE DEF S
        <4>1. \A t \in Int : (w.start <= t /\ t <= w.end - 1 /\ S.start <= t /\ t < S.end) <=> (from <= t /\ t <= to - 1)
          BY <1>1, <1>2
        <4>2. P = {t \in w.start..(w.end - 1) : S.start <= t /\ t < S.end}
          BY <2>2
        <4> HIDE DEF P, from, to
        <4>3. \A t : t \in P <=> t \in from..(to - 1)
          BY <1>1, <1>2, <3>1, <4>1, <4>2
        <4>4. QED
          BY <4>3
      <3>3. Overlap(w, S) = IF from < to THEN to - from ELSE 0
        BY DEF Overlap
      <3> HIDE DEF from, to, P
      <3>4. Cardinality(from..(to - 1)) = IF from > to - 1 THEN 0 ELSE (to - 1) - from + 1
        BY <3>1, FS_Interval
      <3>5. QED
        BY <2>2, <3>1, <3>2, <3>3, <3>4
    <2>3. QED
      BY <2>1, <2>2
  <1>10. QED
    BY <1>4, <1>7, <1>8, <1>9

\* map_word adds up, span by span, what the definition of a share counts.
LEMMA CoverageIsShare ==
    ASSUME TypesOK, NEW w \in Word, NEW label
    PROVE  Coverage(w, label) = ShareOf(spans, w, label) /\ Coverage(w, label) \in Nat
  <1> DEFINE L == Len(spans)
             add(n) == IF spans[n].label = label THEN Overlap(w, spans[n]) ELSE 0
             card(n) == Cardinality(UnitsTo(spans, w, label, n))
             Sum(s) == s = [n \in 0..L |-> IF n = 0 THEN 0 ELSE s[n-1] + add(n)]
             during == CHOOSE s : Sum(s)
             f == [n \in 0..L |-> card(n)]
  <1>1. L \in Nat
    BY SpanFacts
  <1>2. card(0) = 0
    <2>1. \A k \in 1..0 : FALSE
      OBVIOUS
    <2>2. UnitsTo(spans, w, label, 0) = {}
      BY <2>1 DEF UnitsTo
    <2>3. QED
      BY <2>2, FS_EmptySet
  <1>3. \A n \in 1..L : card(n) = card(n-1) + add(n) /\ card(n-1) \in Nat
    <2>1. ASSUME NEW n \in 1..L PROVE card(n) = card(n-1) + add(n) /\ card(n-1) \in Nat
      <3> DEFINE U == UnitsTo(spans, w, label, n)
                 V == UnitsTo(spans, w, label, n - 1)
                 more == IF spans[n].label = label THEN Overlap(w, spans[n]) ELSE 0
      <3>1. Cardinality(U) = Cardinality(V) + more /\ Cardinality(V) \in Nat
        BY UnitsStep
      <3>2. card(n) = Cardinality(U) /\ card(n-1) = Cardinality(V) /\ add(n) = more
        OBVIOUS
      <3> HIDE DEF U, V, more, card, add
      <3>3. QED
        BY <3>1, <3>2
    <2> HIDE DEF card, add
    <2>2. QED
      BY <2>1
  <1>4. Coverage(w, label) = during[L]
    BY DEF Coverage
  <1>5. card(L) \in Nat
    <2> DEFINE U == UnitsTo(spans, w, label, L)
    <2>1. w.start \in Nat /\ w.end \in Nat
      BY DEF Word
    <2>2. IsFiniteSet(w.start..(w.end - 1))
      BY <2>1, FS_Interval
    <2>3. U \subseteq w.start..(w.end - 1)
      BY DEF UnitsTo
    <2>4. IsFiniteSet(U)
      BY <2>2, <2>3, FS_Subset
    <2>5. QED
      BY <2>4, FS_CardinalityType
  <1>6. ShareOf(spans, w, label) = card(L)
    BY DEF ShareOf, Units, UnitsTo
  <1> HIDE DEF card, add, L
  <1>7. Sum(f)
    <2>1. ASSUME NEW n \in 0..L PROVE f[n] = IF n = 0 THEN 0 ELSE f[n-1] + add(n)
      <3>1. CASE n = 0
        BY <1>2, <3>1
      <3>2. CASE n # 0
        <4>1. n \in 1..L /\ n - 1 \in 0..L
          BY <1>1, <3>2
        <4>2. f[n] = card(n) /\ f[n-1] = card(n-1)
          BY <4>1
        <4>3. card(n) = card(n-1) + add(n)
          BY <1>3, <4>1
        <4>4. QED
          BY <3>2, <4>2, <4>3
      <3>3. QED
        BY <3>1, <3>2
    <2>2. f = [n \in 0..L |-> f[n]]
      OBVIOUS
    <2> HIDE DEF f
    <2>3. QED
      BY <2>1, <2>2
  <1>8. Sum(during)
    <2> HIDE DEF Sum, f
    <2>1. QED
      BY <1>7
  <1>9. \A n \in 0..L : during[n] = IF n = 0 THEN 0 ELSE during[n-1] + add(n)
    <2> HIDE DEF during
    <2>1. QED
      BY <1>8
  <1> HIDE DEF during, Sum
  <1>10. during[L] = card(L)
    <2> DEFINE T == {n \in 0..L : during[n] = card(n)}
    <2>1. 0 \in T
      BY <1>1, <1>2, <1>9
    <2>2. ASSUME NEW n \in 0..L, n < L, n \in T PROVE n + 1 \in T
      <3>1. n + 1 \in 1..L /\ n + 1 \in 0..L /\ (n + 1) - 1 = n /\ n + 1 # 0
        BY <1>1, <2>2
      <3>2. during[n+1] = during[n] + add(n+1)
        BY <1>9, <3>1
      <3>3. card(n+1) = card(n) + add(n+1)
        BY <1>3, <3>1
      <3>4. QED
        BY <2>2, <3>1, <3>2, <3>3
    <2>3. \A n \in 0..L : n \in T
      <3> HIDE DEF T
      <3>1. QED
        BY <1>1, <2>1, <2>2, Handed
    <2>4. QED
      BY <1>1, <2>3
  <1>11. QED
    BY <1>4, <1>5, <1>6, <1>10

\* Two speakers cannot both have the greater part of a word.
LEMMA SharesFit ==
    ASSUME TypesOK, NEW w \in Word, NEW a, NEW b, a # b
    PROVE  Coverage(w, a) + Coverage(w, b) <= w.end - w.start \/ w.end <= w.start
  <1> SUFFICES ASSUME w.start < w.end
               PROVE  Coverage(w, a) + Coverage(w, b) <= w.end - w.start
    BY DEF Word
  <1> DEFINE A == Units(spans, w, a)
             B == Units(spans, w, b)
             all == w.start..(w.end - 1)
  <1>1. w.start \in Int /\ w.end \in Int /\ w.end - 1 \in Int
    BY DEF Word
  <1>2. IsFiniteSet(all) /\ Cardinality(all) = w.end - w.start
    <2>1. IsFiniteSet(all) /\ Cardinality(all) = IF w.start > w.end - 1 THEN 0 ELSE (w.end - 1) - w.start + 1
      BY <1>1, FS_Interval
    <2> HIDE DEF all
    <2>2. QED
      BY <1>1, <2>1
  <1>3. A \subseteq all /\ B \subseteq all /\ A \cup B \subseteq all
    BY DEF Units
  <1>4. A \cap B = {}
    <2>1. ASSUME NEW t \in A, t \in B PROVE FALSE
      <3>1. PICK k \in 1..Len(spans) : spans[k].label = a /\ spans[k].start <= t /\ t < spans[k].end
        BY DEF Units
      <3>2. PICK l \in 1..Len(spans) : spans[l].label = b /\ spans[l].start <= t /\ t < spans[l].end
        BY <2>1 DEF Units
      <3>3. t \in Int
        BY <1>1 DEF Units
      <3>4. /\ spans[k].start \in Nat /\ spans[k].end \in Nat /\ spans[l].start \in Nat /\ spans[l].end \in Nat
            /\ k < l => spans[k].end <= spans[l].start
            /\ l < k => spans[l].end <= spans[k].start
        BY SpanFacts
      <3>5. k < l \/ l < k
        <4>1. k # l
          BY <3>1, <3>2
        <4>2. Len(spans) \in Nat
          BY SpanFacts
        <4>3. QED
          BY <4>1, <4>2
      <3>6. QED
        BY <3>1, <3>2, <3>3, <3>4, <3>5
    <2>2. QED
      BY <2>1
  <1>5. Coverage(w, a) = Cardinality(A) /\ Coverage(w, b) = Cardinality(B)
    BY CoverageIsShare DEF ShareOf
  <1> HIDE DEF all, A, B
  <1>6. IsFiniteSet(A) /\ IsFiniteSet(B) /\ Cardinality(A \cup B) <= Cardinality(all)
    BY <1>2, <1>3, FS_Subset
  <1>7. Cardinality(A) \in Nat /\ Cardinality(B) \in Nat
    BY <1>6, FS_CardinalityType
  <1>8. Cardinality(A \cup B) = Cardinality(A) + Cardinality(B)
    <2>1. Cardinality(A \cup B) = Cardinality(A) + Cardinality(B) - Cardinality(A \cap B)
      BY <1>6, FS_Union
    <2>2. Cardinality(A \cap B) = 0
      BY <1>4, FS_EmptySet
    <2>3. QED
      BY <1>7, <2>1, <2>2
  <1>9. QED
    BY <1>1, <1>2, <1>5, <1>6, <1>7, <1>8

\* A share of 51 % or more of a length.
LEMMA Majority ==
    ASSUME NEW length \in Nat \ {0}
    PROVE  /\ Percent.dominant * length \in Nat /\ Percent.dominant * length >= 51 * length
           /\ Percent.material * length \in Nat /\ Percent.unknown * length \in Nat
  <1>1. Percent.dominant \in 51..100 /\ Percent.material \in 1..100 /\ Percent.unknown \in 0..100
    BY WordAssumption
  <1>2. Percent.dominant - 51 \in Nat /\ Percent.dominant = 51 + (Percent.dominant - 51)
    BY <1>1
  <1>3. PICK d \in Nat : Percent.dominant = 51 + d
    BY <1>2
  <1>4. d * length \in Nat /\ (51 + d) * length = 51 * length + d * length
    OBVIOUS
  <1>5. Percent.material \in Nat /\ Percent.unknown \in Nat
    BY <1>1
  <1>6. Percent.material * length \in Nat /\ Percent.unknown * length \in Nat
    BY <1>5
  <1>7. QED
    BY <1>3, <1>4, <1>6

\* map_word names whom the evidence names, and nobody else.
LEMMA MapWordClaims ==
    ASSUME TypesOK, NEW w \in Word, w.start < w.end
    PROVE  MapWord(w) \in Attributed /\ Claims(MapWord(w), spans, w, FALSE)
  <1> DEFINE length == w.end - w.start
             c(l) == Coverage(w, l)
             support == Support(w)
             heard == {s \in SpeakerIds : c(s) > 0}
             material == {s \in SpeakerIds : AtLeast(c(s), w, Percent.material)}
             silent == c("UNKNOWN") + c("NON_SPEECH")
             dominant == {s \in heard : AtLeast(c(s), w, Percent.dominant)
                                        /\ 100 * silent <= Percent.unknown * length}
             chosen == CHOOSE s \in dominant : TRUE
             D == Percent.dominant * length
             M == Percent.material * length
             got == MapWord(w)
  <1>1. length \in Nat \ {0}
    BY DEF Word
  <1>2. \A l : c(l) \in Nat /\ ShareOf(spans, w, l) = c(l)
    BY CoverageIsShare
  <1>3. D \in Nat /\ D >= 51 * length /\ M \in Nat
    BY <1>1, Majority
  <1>4. \A a, b : a # b => c(a) + c(b) <= length
    BY <1>1, SharesFit DEF Word
  <1>5. /\ \A s : AtLeast(c(s), w, Percent.dominant) <=> 100 * c(s) >= D
        /\ \A s : AtLeast(c(s), w, Percent.material) <=> 100 * c(s) >= M
    BY DEF AtLeast
  <1>6. got = IF w.inferred THEN Attribution("UNKNOWN", "UNKNOWN_TIMEWARP_BOUNDARY", support)
              ELSE IF c("OVERLAP") > 0 THEN Attribution("OVERLAP", "OVERLAP_UNATTRIBUTED", support)
              ELSE IF material = SpeakerIds THEN Attribution("UNKNOWN", "UNKNOWN_BOUNDARY", support)
              ELSE IF dominant # {} THEN Attribution(chosen, "ASSIGNED", support)
              ELSE IF heard = {} /\ c("OTHER") > 0 THEN Attribution("OTHER", "OTHER", support)
              ELSE Attribution("UNKNOWN", "UNKNOWN_INSUFFICIENT_EVIDENCE", support)
    BY DEF MapWord
  <1>7. support \subseteq Nat
    <2>1. support \subseteq 1..Len(spans)
      BY SpanFacts DEF Support
    <2>2. 1..Len(spans) \subseteq Nat
      BY SpanFacts
    <2>3. QED
      BY <2>1, <2>2
  <1>8. dominant # {} => chosen \in dominant
    OBVIOUS
  <1>9. w.inferred \in BOOLEAN
    BY DEF Word
  <1>10. dominant \subseteq SpeakerIds
    OBVIOUS
  <1> DEFINE quiet == 100 * silent <= Percent.unknown * length
             firm == ~w.inferred /\ ~(c("OVERLAP") > 0) /\ material # SpeakerIds /\ dominant # {}
  <1>11. \A s : s \in material <=> s \in SpeakerIds /\ 100 * c(s) >= M
    BY <1>5
  <1>12. \A s : s \in dominant <=> s \in SpeakerIds /\ c(s) > 0 /\ 100 * c(s) >= D /\ quiet
    BY <1>5
  <1>13. "UNKNOWN" \notin SpeakerIds /\ "OVERLAP" \notin SpeakerIds /\ "OTHER" \notin SpeakerIds
    BY DEF SpeakerIds
  <1>14. \A s, a, b : Attribution(s, a, b).speaker = s
    BY DEF Attribution
  <1> HIDE DEF dominant, material, heard, chosen, got, support, silent
  <1>15. \A s \in SpeakerIds : got.speaker = s <=> firm /\ chosen = s
    <2>1. firm => got.speaker = chosen
      BY <1>6, <1>14
    <2>2. ~firm => got.speaker \in {"UNKNOWN", "OVERLAP", "OTHER"}
      BY <1>6, <1>14
    <2> HIDE DEF firm
    <2>3. QED
      BY <1>13, <2>1, <2>2
  <1>16. got \in Attributed
    <2>1. \A s \in SpeakerIds \cup {"UNKNOWN", "OVERLAP", "OTHER"}, a \in Statuses :
            Attribution(s, a, support) \in Attributed
      BY <1>7 DEF Attribution, Attributed
    <2>2. dominant # {} => chosen \in SpeakerIds
      BY <1>8, <1>10
    <2>3. dominant # {} => Attribution(chosen, "ASSIGNED", support) \in Attributed
      BY <2>1, <2>2 DEF Statuses
    <2>4. /\ Attribution("UNKNOWN", "UNKNOWN_TIMEWARP_BOUNDARY", support) \in Attributed
          /\ Attribution("OVERLAP", "OVERLAP_UNATTRIBUTED", support) \in Attributed
          /\ Attribution("UNKNOWN", "UNKNOWN_BOUNDARY", support) \in Attributed
          /\ Attribution("OTHER", "OTHER", support) \in Attributed
          /\ Attribution("UNKNOWN", "UNKNOWN_INSUFFICIENT_EVIDENCE", support) \in Attributed
      BY <2>1 DEF Statuses
    <2>5. QED
      BY <1>6, <2>3, <2>4
  <1> DEFINE rest(s) == \A o \in SpeakerIds \ {s} : 100 * c(o) < M
             clear(s) == ~w.inferred /\ c("OVERLAP") = 0 /\ 100 * c(s) >= D /\ rest(s) /\ quiet
  <1>17. \A s : Clear(spans, w, FALSE, s) <=> clear(s)
    BY <1>2 DEF Clear, silent
  <1> HIDE DEF D, M, c, length, quiet
  <1>18. \A a, b : a # b => ~(100 * c(a) >= D /\ 100 * c(b) >= D)
    <2>1. ASSUME NEW a, NEW b, a # b, 100 * c(a) >= D, 100 * c(b) >= D PROVE FALSE
      BY <1>1, <1>2, <1>3, <1>4, <2>1
    <2>2. QED
      BY <2>1
  <1>19. ASSUME NEW s \in SpeakerIds, firm, chosen = s PROVE clear(s)
    <2>1. s \in dominant /\ 100 * c(s) >= D /\ quiet
      BY <1>8, <1>12, <1>19
    <2>2. c("OVERLAP") = 0
      BY <1>2, <1>19
    <2>3. rest(s)
      <3>1. ASSUME NEW o \in SpeakerIds \ {s}, ~(100 * c(o) < M) PROVE FALSE
        <4>1. o \in material
          BY <1>2, <1>3, <1>11, <3>1
        <4>2. SpeakerIds = {s, o}
          BY DEF SpeakerIds
        <4>3. s \notin material
          BY <1>11, <1>19, <4>1, <4>2
        <4>4. 100 * c(s) < M
          BY <1>2, <1>3, <1>11, <4>3
        <4>5. c(s) + c(o) <= length
          BY <1>4
        <4>6. QED
          BY <1>1, <1>2, <1>3, <2>1, <3>1, <4>4, <4>5
      <3>2. QED
        BY <3>1
    <2>4. QED
      BY <1>19, <2>1, <2>2, <2>3
  <1>20. ASSUME NEW s \in SpeakerIds, clear(s) PROVE firm /\ chosen = s
    <2>1. c(s) > 0
      BY <1>1, <1>2, <1>3, <1>20
    <2>2. s \in dominant
      BY <1>12, <1>20, <2>1
    <2>3. chosen = s
      BY <1>8, <1>12, <1>18, <2>2
    <2>4. material # SpeakerIds
      <3>1. PICK o \in SpeakerIds : o # s
        BY DEF SpeakerIds
      <3>2. o \notin material
        BY <1>2, <1>3, <1>11, <1>20, <3>1
      <3>3. QED
        BY <3>2
    <2>5. QED
      BY <1>20, <2>2, <2>3, <2>4
  <1>21. Claims(got, spans, w, FALSE)
    BY <1>15, <1>17, <1>19, <1>20 DEF Claims
  <1>22. QED
    BY <1>16, <1>21 DEF got

LEMMA MapNextKeeps ==
    ASSUME WordInv, MapNext
    PROVE  WordInv'
  <1> DEFINE k == cursor + 1
             new == IF failed THEN NoClaim ELSE MapWord(words[k])
  <1>1. /\ stage = "mapping" /\ cursor < Len(words) /\ cursor \in Nat /\ turns = << >> /\ TypesOK /\ InTurn(words)
        /\ Len(attributed) = cursor /\ words \in Seq(Word) /\ attributed \in Seq(Attributed)
        /\ \A j \in 1..Len(attributed) : Claims(attributed[j], spans, words[j], failed)
        /\ origin = "stt" => Orderly(raw) /\ Holding(raw, words, Len(raw))
        /\ failed \in BOOLEAN /\ \A j \in 1..Len(words) : words[j].start < words[j].end
    BY DEF WordInv, MapNext, TypesOK, ReadingOK, WordsOK, NamesOK, TurnsOK, Checked
  <1>2. /\ UNCHANGED << origin, stage, raw, tokens, current, pending, words, spans, failed, turns >>
        /\ cursor' = cursor + 1
        /\ attributed' = Append(attributed, new)
    BY DEF MapNext, reading, joining, diarized
  <1>3. k \in 1..Len(words) /\ k <= Len(words) /\ Len(words) \in Nat
    BY <1>1, LenProperties
  <1>4. words[k] \in Word /\ words[k].start < words[k].end
    BY <1>1, <1>3, ElementOfSeq
  <1>5. new \in Attributed /\ Claims(new, spans, words[k], failed)
    <2>1. CASE failed
      <3>1. new = NoClaim
        BY <2>1
      <3>2. NoClaim \in Attributed /\ NoClaim.speaker = "UNKNOWN"
        BY DEF NoClaim, Attribution, Attributed, Statuses
      <3>3. \A s : ~Clear(spans, words[k], failed, s)
        BY <2>1 DEF Clear
      <3>4. "UNKNOWN" \notin SpeakerIds
        BY DEF SpeakerIds
      <3>5. QED
        BY <3>1, <3>2, <3>3, <3>4 DEF Claims
    <2>2. CASE ~failed
      <3>1. failed = FALSE /\ new = MapWord(words[k])
        BY <1>1, <2>2
      <3>2. QED
        BY <1>1, <1>4, <3>1, MapWordClaims
    <2>3. QED
      BY <2>1, <2>2
  <1> HIDE DEF new
  <1>6. /\ attributed' \in Seq(Attributed) /\ Len(attributed') = k /\ attributed'[k] = new
        /\ \A j \in 1..cursor : attributed'[j] = attributed[j]
    BY <1>1, <1>2, <1>5, AppendProperties
  <1>7. TypesOK'
    BY <1>1, <1>2, <1>6 DEF TypesOK
  <1>8. ReadingOK' /\ JoiningOK'
    BY <1>1, <1>2 DEF ReadingOK, JoiningOK
  <1>9. WordsOK'
    BY <1>1, <1>2 DEF WordsOK
  <1>10. NamesOK'
    <2>1. ASSUME NEW j \in 1..k PROVE Claims(attributed'[j], spans, words[j], failed)
      <3>1. CASE j = k
        BY <1>5, <1>6, <3>1
      <3>2. CASE j # k
        <4>1. j \in 1..cursor
          BY <1>1, <3>2
        <4>2. QED
          BY <1>1, <1>6, <4>1
      <3>3. QED
        BY <3>1, <3>2
    <2>2. Len(attributed') = cursor' /\ cursor' <= Len(words)
      BY <1>2, <1>3, <1>6
    <2>3. QED
      BY <1>1, <1>2, <1>6, <2>1, <2>2 DEF NamesOK
  <1>11. TurnsOK'
    BY <1>1, <1>2 DEF TurnsOK
  <1>12. QED
    BY <1>7, <1>8, <1>9, <1>10, <1>11 DEF WordInv

-----------------------------------------------------------------------------
(* Theorems *)

\* The output that was let through is in order, the words made so far hold all of
\* its text and nothing else and end where white space says so, every name has its
\* evidence, and the turns made so far partition the words that were dealt with
\* (whispercpp_backend._timeline_from_json, attribution.py, _build_turns).
THEOREM WordInvariant == Spec => []WordInv
  <1>1. Init => WordInv
    BY InitHolds
  <1>2. WordInv /\ [Next]_vars => WordInv'
    <2> SUFFICES ASSUME WordInv, [Next]_vars
                 PROVE  WordInv'
      OBVIOUS
    <2>1. CASE ReadToken
      BY <2>1, ReadTokenKeeps
    <2>2. CASE EndOutput
      BY <2>2, EndOutputKeeps
    <2>3. CASE JoinToken
      BY <2>3, JoinTokenKeeps
    <2>4. CASE EndTokens
      BY <2>4, EndTokensKeeps
    <2>5. CASE CheckWords
      BY <2>5, CheckWordsKeeps
    <2>6. CASE Diarize
      BY <2>6, DiarizeKeeps
    <2>7. CASE MapNext
      BY <2>7, MapNextKeeps
    <2>8. CASE EndWords
      BY <2>8, EndWordsKeeps
    <2>9. CASE GroupNext
      BY <2>9, GroupNextKeeps
    <2>10. CASE EndGroups
      BY <2>10, EndGroupsKeeps
    <2>11. CASE UNCHANGED vars
      <3>1. TypesOK'
        BY <2>11 DEF WordInv, vars, TypesOK
      <3>2. ReadingOK' /\ JoiningOK'
        BY <2>11 DEF WordInv, vars, ReadingOK, JoiningOK, Dealt, Reached
      <3>3. WordsOK' /\ NamesOK' /\ TurnsOK'
        BY <2>11 DEF WordInv, vars, WordsOK, NamesOK, TurnsOK
      <3>4. QED
        BY <3>1, <3>2, <3>3 DEF WordInv
    <2>12. QED
      BY <2>1, <2>2, <2>3, <2>4, <2>5, <2>6, <2>7, <2>8, <2>9, <2>10, <2>11 DEF Next
  <1>3. QED
    BY <1>1, <1>2, PTL DEF Spec

\* The texts of an output in order.
LEMMA TextsAre ==
    ASSUME WordInv
    PROVE  /\ ToSet(tokens) = {i \in 1..Len(raw) : IsKept(raw, i)}
           /\ Texts = {i \in 1..Len(raw) : IsText(raw, i)}
  <1>1. Positions(raw, tokens)
    BY DEF WordInv, TypesOK
  <1>2. /\ DOMAIN tokens = 1..Len(tokens)
        /\ \A n \in 1..Len(tokens) : tokens[n] \in 1..Len(raw) /\ IsKept(raw, tokens[n])
        /\ \A i \in 1..Len(raw) : IsKept(raw, i) => \E n \in 1..Len(tokens) : tokens[n] = i
    BY <1>1, LenProperties, ElementOfSeq DEF Positions
  <1>3. ToSet(tokens) = {i \in 1..Len(raw) : IsKept(raw, i)}
    BY <1>2 DEF ToSet
  <1>4. Texts = {i \in ToSet(tokens) : IsText(raw, i)}
    BY DEF Texts, IsText
  <1>5. \A i : IsText(raw, i) => IsKept(raw, i)
    BY DEF IsText, IsKept
  <1>6. QED
    BY <1>3, <1>4, <1>5

\* Each place of a token in the turns.
LEMMA PlacesAre ==
    ASSUME WordInv, stage = "done"
    PROVE  /\ Grouped(words, attributed, turns, Len(words)) /\ Len(words) \in Nat
           /\ DOMAIN turns = 1..Len(turns)
           /\ \A n \in 1..Len(turns) : DOMAIN turns[n] = 1..Len(turns[n])
           /\ \A k \in 1..Len(words) : words[k] \in Word /\ DOMAIN words[k].text = 1..Len(words[k].text)
           /\ \A p : p \in Places <=>
                \E n \in 1..Len(turns) : \E m \in 1..Len(turns[n]) :
                  \E l \in 1..Len(words[turns[n][m]].text) : p = << n, m, l >>
  <1>1. Grouped(words, attributed, turns, Len(words)) /\ words \in Seq(Word)
    BY DEF WordInv, TurnsOK, TypesOK
  <1>2. Len(words) \in Nat /\ \A k \in 1..Len(words) : words[k] \in Word
    BY <1>1, LenProperties, ElementOfSeq
  <1>3. /\ turns \in Seq(Seq(1..Len(words)))
        /\ \A n \in 1..Len(turns) : /\ turns[n] \in Seq(1..Len(words))
                                    /\ \A m \in 1..Len(turns[n]) : turns[n][m] \in 1..Len(words)
    BY <1>1, <1>2, GroupedFacts
  <1>4. /\ DOMAIN turns = 1..Len(turns)
        /\ \A n \in 1..Len(turns) : DOMAIN turns[n] = 1..Len(turns[n])
    BY <1>3, LenProperties
  <1>5. \A k \in 1..Len(words) : DOMAIN words[k].text = 1..Len(words[k].text)
    <2>1. \A k \in 1..Len(words) : words[k].text \in Seq(Nat)
      BY <1>2 DEF Word
    <2>2. QED
      BY <2>1, LenProperties
  <1>6. \A p : p \in Places <=>
          \E n \in DOMAIN turns : \E m \in DOMAIN turns[n] :
            \E l \in DOMAIN words[turns[n][m]].text : p = << n, m, l >>
    BY DEF Places
  <1>7. \A n \in DOMAIN turns : \A m \in DOMAIN turns[n] :
          DOMAIN words[turns[n][m]].text = 1..Len(words[turns[n][m]].text)
    BY <1>3, <1>4, <1>5
  <1>8. \A p : p \in Places <=>
                \E n \in 1..Len(turns) : \E m \in 1..Len(turns[n]) :
                  \E l \in 1..Len(words[turns[n][m]].text) : p = << n, m, l >>
    <2> DEFINE at(n, m, p) == \E l \in DOMAIN words[turns[n][m]].text : p = << n, m, l >>
               in(n, m, p) == \E l \in 1..Len(words[turns[n][m]].text) : p = << n, m, l >>
    <2>1. \A n \in 1..Len(turns) : \A m \in 1..Len(turns[n]) : \A p : at(n, m, p) <=> in(n, m, p)
      BY <1>4, <1>7
    <2>2. \A p : p \in Places <=> \E n \in DOMAIN turns : \E m \in DOMAIN turns[n] : at(n, m, p)
      BY <1>6
    <2> HIDE DEF at, in
    <2>3. \A p : p \in Places <=> \E n \in 1..Len(turns) : \E m \in 1..Len(turns[n]) : at(n, m, p)
      BY <1>4, <2>2
    <2>4. \A p : p \in Places <=> \E n \in 1..Len(turns) : \E m \in 1..Len(turns[n]) : in(n, m, p)
      BY <2>1, <2>3
    <2>5. QED
      BY <2>4 DEF in
  <1>9. QED
    BY <1>1, <1>2, <1>4, <1>5, <1>8

\* What the decoder said is what the turns say, in the same order and once
\* (TextKept): from the JSON of the decoder to the transcript.
THEOREM TextReachesTurns == Spec => []TextKept
  <1>1. WordInv => TextKept
    <2> SUFFICES ASSUME WordInv, stage = "done", origin = "stt"
                 PROVE  LET said(p) == words[turns[p[1]][p[2]]].text[p[3]]
                        IN  /\ {said(p) : p \in Places} = Texts
                            /\ \A p, q \in Places : Precedes(p, q) => said(p) < said(q)
      BY DEF TextKept
    <2> DEFINE said(p) == words[turns[p[1]][p[2]]].text[p[3]]
               W == Len(words)
               R == Len(raw)
    <2>1. Holding(raw, words, R) /\ Grouped(words, attributed, turns, W) /\ R \in Nat /\ W \in Nat
      <3>1. raw \in Seq(Tokens) /\ Holding(raw, words, R)
        BY DEF WordInv, WordsOK, Checked, TypesOK
      <3>2. QED
        BY <3>1, PlacesAre, LenProperties
    <2>2. \A k \in 1..W : WellMade(raw, words[k], R)
      BY <2>1 DEF Holding
    <2>3. \A n \in 1..Len(turns) : \A m \in 1..Len(turns[n]) : turns[n][m] \in 1..W
      BY <2>1, GroupedFacts
    <2>4. ASSUME NEW p \in Places
          PROVE  /\ p[1] \in 1..Len(turns) /\ p[2] \in 1..Len(turns[p[1]])
                 /\ turns[p[1]][p[2]] \in 1..W /\ p[3] \in 1..Len(words[turns[p[1]][p[2]]].text)
                 /\ said(p) \in 1..R /\ IsText(raw, said(p)) /\ In(words[turns[p[1]][p[2]]], said(p))
      <3>1. PICK n \in 1..Len(turns) : \E m \in 1..Len(turns[n]) :
              \E l \in 1..Len(words[turns[n][m]].text) : p = << n, m, l >>
        BY PlacesAre
      <3>2. PICK m \in 1..Len(turns[n]) : \E l \in 1..Len(words[turns[n][m]].text) : p = << n, m, l >>
        BY <3>1
      <3>3. PICK l \in 1..Len(words[turns[n][m]].text) : p = << n, m, l >>
        BY <3>2
      <3>4. p[1] = n /\ p[2] = m /\ p[3] = l
        BY <3>3
      <3>5. turns[n][m] \in 1..W
        BY <2>3
      <3>6. WellMade(raw, words[turns[n][m]], R)
        BY <2>2, <3>5
      <3>7. words[turns[n][m]].text[l] \in 1..R /\ IsText(raw, words[turns[n][m]].text[l])
            /\ In(words[turns[n][m]], words[turns[n][m]].text[l])
        BY <2>1, <3>6, InBounds
      <3>8. QED
        BY <3>4, <3>5, <3>7
    <2>5. ASSUME NEW i \in 1..R, IsText(raw, i) PROVE \E p \in Places : said(p) = i
      <3>1. PICK k \in 1..W : In(words[k], i)
        BY <2>1, <2>5 DEF Holding
      <3>2. PICK l \in 1..Len(words[k].text) : words[k].text[l] = i
        BY <3>1 DEF In
      <3>3. PICK n \in 1..Len(turns) : \E m \in 1..Len(turns[n]) : turns[n][m] = k
        BY <2>1 DEF Grouped
      <3>4. PICK m \in 1..Len(turns[n]) : turns[n][m] = k
        BY <3>3
      <3> DEFINE p == << n, m, l >>
      <3>5. p \in Places
        BY <3>2, <3>4, PlacesAre
      <3>6. said(p) = i
        BY <3>2, <3>4
      <3>7. QED
        BY <3>5, <3>6
    <2>6. {said(p) : p \in Places} = Texts
      <3> HIDE DEF said
      <3>1. Texts = {i \in 1..R : IsText(raw, i)}
        BY TextsAre
      <3>2. QED
        BY <2>4, <2>5, <3>1
    <2>7. ASSUME NEW p \in Places, NEW q \in Places, Precedes(p, q) PROVE said(p) < said(q)
      <3> DEFINE a == turns[p[1]][p[2]]
                 b == turns[q[1]][q[2]]
      <3>1. /\ a \in 1..W /\ b \in 1..W /\ In(words[a], said(p)) /\ In(words[b], said(q))
            /\ said(p) \in 1..R /\ said(q) \in 1..R
        BY <2>4
      <3>2. /\ p[1] \in 1..Len(turns) /\ p[2] \in 1..Len(turns[p[1]])
            /\ q[1] \in 1..Len(turns) /\ q[2] \in 1..Len(turns[q[1]])
        BY <2>4
      <3>3. CASE p[1] < q[1] \/ (p[1] = q[1] /\ p[2] < q[2])
        <4>1. a < b
          <5> DEFINE x == p[1]
                     y == q[1]
          <5>1. x < y \/ (x = y /\ p[2] < q[2])
            BY <3>3
          <5>2. CASE x < y
            <6>1. \A k \in 1..Len(turns[x]), l \in 1..Len(turns[y]) : turns[x][k] < turns[y][l]
              BY <2>1, <3>2, <5>2 DEF Grouped
            <6>2. QED
              BY <3>2, <6>1
          <5>3. CASE x = y /\ p[2] < q[2]
            <6>1. \A l, m \in 1..Len(turns[x]) : l < m => turns[x][l] < turns[x][m]
              BY <2>1, <3>2 DEF Grouped
            <6> HIDE DEF x, y
            <6>2. p[2] \in 1..Len(turns[x]) /\ q[2] \in 1..Len(turns[x])
              BY <3>2, <5>3 DEF x, y
            <6>3. turns[x][p[2]] < turns[x][q[2]]
              BY <5>3, <6>1, <6>2
            <6>4. QED
              BY <5>3, <6>3 DEF x, y
          <5>4. QED
            BY <5>1, <5>2, <5>3
        <4> HIDE DEF said, a, b
        <4>2. QED
          BY <2>1, <3>1, <4>1 DEF Holding
      <3>4. CASE p[1] = q[1] /\ p[2] = q[2] /\ p[3] < q[3]
        <4>1. a = b
          BY <3>4
        <4>2. p[3] \in 1..Len(words[a].text) /\ q[3] \in 1..Len(words[b].text)
          BY <2>4
        <4>3. said(p) = words[a].text[p[3]] /\ said(q) = words[b].text[q[3]]
          OBVIOUS
        <4> HIDE DEF said, a, b
        <4>4. \A m, n \in 1..Len(words[a].text) : m < n => words[a].text[m] < words[a].text[n]
          BY <2>2, <3>1 DEF WellMade
        <4>5. words[a].text[p[3]] < words[a].text[q[3]]
          BY <3>4, <4>1, <4>2, <4>4
        <4>6. QED
          BY <4>1, <4>3, <4>5
      <3> HIDE DEF said, a, b
      <3>5. QED
        BY <2>7, <3>3, <3>4 DEF Precedes
    <2>8. QED
      BY <2>6, <2>7
  <1>2. QED
    BY <1>1, WordInvariant, PTL

\* Words end where white space says so, and only there, and punctuation stays with
\* the word before it (SplitAtSpaces): the flush of _timeline_from_json.
THEOREM WordsEndAtSpaces == Spec => []SplitAtSpaces
  <1>1. WordInv => SplitAtSpaces
    <2> SUFFICES ASSUME WordInv, words # << >>, origin = "stt", stage # "joining",
                        NEW i \in Texts, NEW j \in Texts,
                        i < j, ~(\E k \in Texts : i < k /\ k < j)
                 PROVE  LET spaced == \/ raw[i].trailing \/ raw[j].leading
                                      \/ \E b \in ToSet(tokens) : i < b /\ b < j
                            together == \E k \in DOMAIN words : {i, j} \subseteq ToSet(words[k].text)
                        IN  together <=> (~spaced \/ raw[j].type = "mark")
      BY DEF SplitAtSpaces
    <2> DEFINE R == Len(raw)
               between == \E b \in ToSet(tokens) : i < b /\ b < j
               together == \E k \in DOMAIN words : {i, j} \subseteq ToSet(words[k].text)
    <2>1. /\ stage \in Checked \/ (stage = "refused" /\ words # << >>)
          /\ raw \in Seq(Tokens) /\ words \in Seq(Word)
      BY DEF WordInv, TypesOK, Stages, Checked, ReadingOK
    <2>2. Holding(raw, words, R) /\ Orderly(raw) /\ R \in Nat
      <3>1. Holding(raw, words, R) /\ Orderly(raw)
        BY <2>1 DEF WordInv, WordsOK, ReadingOK, Checked
      <3>2. QED
        BY <2>1, <3>1, LenProperties
    <2>3. i \in 1..R /\ j \in 1..R /\ IsText(raw, i) /\ IsText(raw, j)
      BY TextsAre
    <2>4. Follows(raw, i, j)
      <3>1. ASSUME NEW k \in (i+1)..(j-1), IsText(raw, k) PROVE FALSE
        <4>1. k \in 1..R /\ i < k /\ k < j
          BY <2>2, <2>3
        <4>2. k \in Texts
          BY <3>1, <4>1, TextsAre
        <4>3. QED
          BY <4>1, <4>2
      <3>2. QED
        BY <2>3, <3>1 DEF Follows
    <2>5. between <=> \E b \in (i+1)..(j-1) : raw[b].type = "blank"
      <3>1. ASSUME NEW b \in ToSet(tokens), i < b, b < j PROVE b \in (i+1)..(j-1) /\ raw[b].type = "blank"
        <4>1. b \in 1..R /\ IsKept(raw, b)
          BY TextsAre
        <4>2. b \in (i+1)..(j-1)
          BY <2>3, <3>1, <4>1
        <4>3. ~IsText(raw, b)
          BY <2>4, <4>2 DEF Follows
        <4>4. raw[b].type # "invalid" /\ raw[b].type # "special"
          BY <2>2, <4>1 DEF Orderly, IsKept
        <4>5. raw[b].type \in {"piece", "mark", "blank", "special", "invalid"}
          <5>1. raw[b] \in Token
            BY <2>1, <4>1, TokenFacts
          <5>2. QED
            BY <5>1 DEF Token
        <4>6. QED
          BY <4>2, <4>3, <4>4, <4>5 DEF IsText
      <3>2. ASSUME NEW b \in (i+1)..(j-1), raw[b].type = "blank" PROVE b \in ToSet(tokens) /\ i < b /\ b < j
        <4>1. b \in 1..R /\ i < b /\ b < j
          BY <2>2, <2>3
        <4>2. IsKept(raw, b)
          BY <3>2 DEF IsKept
        <4>3. QED
          BY <4>1, <4>2, TextsAre
      <3>3. QED
        BY <3>1, <3>2
    <2>6. together <=> \E k \in 1..Len(words) : In(words[k], i) /\ In(words[k], j)
      <3>1. DOMAIN words = 1..Len(words)
        BY <2>1, LenProperties
      <3>2. ASSUME NEW k \in 1..Len(words), NEW x PROVE x \in ToSet(words[k].text) <=> In(words[k], x)
        <4>1. DOMAIN words[k].text = 1..Len(words[k].text)
          <5>1. words[k] \in Word
            BY <2>1, ElementOfSeq
          <5>2. words[k].text \in Seq(Nat)
            BY <5>1 DEF Word
          <5>3. QED
            BY <5>2, LenProperties
        <4>2. QED
          BY <4>1 DEF ToSet, In
      <3>3. \A k \in 1..Len(words) : {i, j} \subseteq ToSet(words[k].text) <=> In(words[k], i) /\ In(words[k], j)
        BY <3>2
      <3>4. QED
        BY <3>1, <3>3
    <2>7. together <=> Joins(raw, i, j)
      BY <2>2, <2>3, <2>4, <2>6 DEF Holding
    <2> HIDE DEF between, together
    <2>8. together <=> (~(raw[i].trailing \/ raw[j].leading \/ between) \/ raw[j].type = "mark")
      <3>1. Joins(raw, i, j) <=> (raw[j].type = "mark" \/ (~raw[i].trailing /\ ~raw[j].leading /\ ~between))
        BY <2>5 DEF Joins
      <3>2. QED
        BY <2>7, <3>1
    <2>9. QED
      BY <2>8 DEF between, together
  <1>2. QED
    BY <1>1, WordInvariant, PTL

\* Two words that follow each other, of an output in order.
LEMMA NextWord ==
    ASSUME NEW r \in Seq(Tokens), Orderly(r), NEW ws, Holding(r, ws, Len(r)), NEW k \in 2..Len(ws)
    PROVE  /\ ws[k-1].end <= ws[k].start + 1
           /\ ws[k-1].inferred \/ ws[k].inferred \/ ws[k-1].end <= ws[k].start
  <1> DEFINE a == ws[k-1]
             b == ws[k]
             last == a.text[Len(a.text)]
             first == b.text[1]
             e == r[last].to * PerMs
             s == r[first].from * PerMs
  <1>1. Len(r) \in Nat /\ Len(ws) \in Nat /\ k \in 1..Len(ws) /\ k - 1 \in 1..Len(ws) /\ k - 1 < k
    <2>1. Len(r) \in Nat
      BY LenProperties
    <2>2. Len(ws) \in Nat
      BY <2>1, HoldingFacts
    <2>3. QED
      BY <2>1, <2>2
  <1> DEFINE Sound(w) ==
               /\ w \in Word /\ w.text \in Seq(1..Len(r)) /\ w.text # << >> /\ w = Made(r, w.text)
               /\ \A m \in 1..Len(w.text) : IsText(r, w.text[m])
               /\ \A m, n \in 1..Len(w.text) : m < n => w.text[m] < w.text[n]
  <1>0. \A j \in 1..Len(ws) : Sound(ws[j])
    <2>1. Len(r) \in 0..Len(r)
      BY <1>1
    <2>2. QED
      BY <2>1, HoldingTimes
  <1>2. Sound(a)
    <2> HIDE DEF Sound
    <2>1. QED
      BY <1>0, <1>1
  <1>3. Sound(b)
    <2> HIDE DEF Sound
    <2>1. QED
      BY <1>0, <1>1
  <1>4. /\ e \in Nat /\ a.end <= Duration /\ a.end <= e + 1 /\ (a.inferred \/ a.end = e)
    <2> DEFINE w == Made(r, a.text)
    <2>1. /\ e \in Nat /\ w.end <= Duration /\ w.end <= e + 1 /\ (w.inferred \/ w.end = e)
      BY <1>2, MadeFacts
    <2> HIDE DEF e
    <2>2. QED
      BY <1>2, <2>1
  <1>5. /\ s \in Nat /\ (b.start = s \/ b.start + 1 = Duration) /\ (b.inferred \/ b.start = s)
    <2> DEFINE w == Made(r, b.text)
    <2>1. /\ s \in Nat /\ (w.start = s \/ w.start + 1 = Duration) /\ (w.inferred \/ w.start = s)
      BY <1>3, MadeFacts
    <2> HIDE DEF s
    <2>2. QED
      BY <1>3, <2>1
  <1>6. last \in 1..Len(r) /\ first \in 1..Len(r) /\ IsText(r, last) /\ IsText(r, first) /\ last < first
    <2>1. WellMade(r, a, Len(r)) /\ WellMade(r, b, Len(r))
      BY <1>1, HoldingFacts
    <2>2. last \in 1..Len(r) /\ IsText(r, last) /\ In(a, last)
      BY <1>1, <2>1, InBounds DEF Final
    <2>3. first \in 1..Len(r) /\ IsText(r, first) /\ In(b, first)
      BY <1>1, <2>1, InBounds
    <2> HIDE DEF last, first
    <2>4. last < first
      BY <1>1, <2>2, <2>3 DEF Holding
    <2>5. QED
      BY <2>2, <2>3, <2>4
  <1>7. e <= s
    <2>1. r[last].to <= r[first].from /\ r[last].to \in Nat /\ r[first].from \in Nat
      <3> HIDE DEF last, first
      <3>1. QED
        BY <1>6, TextOrder, TokenFacts
    <2>2. QED
      BY <2>1, Scaled
  <1>8. a.end \in Nat /\ b.start \in Nat /\ Duration \in Nat
    BY <1>2, <1>3, WordAssumption DEF Word
  <1> HIDE DEF a, b, e, s
  <1>9. a.end <= b.start + 1 /\ (a.inferred \/ b.inferred \/ a.end <= b.start)
    BY <1>4, <1>5, <1>7, <1>8
  <1>10. QED
    BY <1>9 DEF a, b

\* The provider refuses the decoder's own words only where a word without duration
\* was given a unit (RefusedOnlyWhenWidened): SuppliedWordTimelineProvider.words
\* against the flush of _timeline_from_json.
THEOREM OnlyWidenedIsRefused == Spec => []RefusedOnlyWhenWidened
  <1>1. WordInv => RefusedOnlyWhenWidened
    <2> SUFFICES ASSUME WordInv, stage = "refused", origin = "stt", words # << >>
                 PROVE  /\ \A k \in DOMAIN words : words[k].end <= Duration
                        /\ \E k \in 2..Len(words) :
                             /\ words[k-1].end > words[k].start
                             /\ words[k-1].inferred \/ words[k].inferred
                        /\ \A k \in 2..Len(words) : words[k-1].end <= words[k].start + 1
      BY DEF RefusedOnlyWhenWidened
    <2>1. /\ raw \in Seq(Tokens) /\ Orderly(raw) /\ Holding(raw, words, Len(raw)) /\ ~InTurn(words)
          /\ words \in Seq(Word)
      BY DEF WordInv, WordsOK, ReadingOK, TypesOK
    <2>2. Len(raw) \in 0..Len(raw) /\ Len(words) \in Nat /\ DOMAIN words = 1..Len(words)
      BY <2>1, LenProperties
    <2>3. \A k \in 1..Len(words) : /\ words[k].start \in Nat /\ words[k].end \in Nat
                                   /\ words[k].start < words[k].end /\ words[k].end <= Duration
      BY <2>1, <2>2, HoldingTimes DEF Word
    <2>4. \A k \in 2..Len(words) : words[k-1].end <= words[k].start + 1
      BY <2>1, NextWord
    <2>5. PICK k \in 2..Len(words) : ~(Before(words[k-1], words[k]) /\ words[k-1].end <= words[k].start)
      BY <2>1, <2>3 DEF InTurn
    <2>6. words[k-1].end > words[k].start
      <3>1. k - 1 \in 1..Len(words) /\ k \in 1..Len(words)
        BY <2>2
      <3>2. words[k-1].end <= words[k].start => Before(words[k-1], words[k])
        BY <2>3, <3>1 DEF Before
      <3>3. QED
        BY <2>3, <2>5, <3>1, <3>2
    <2>7. words[k-1].inferred \/ words[k].inferred
      <3>1. k - 1 \in 1..Len(words) /\ k \in 1..Len(words)
        BY <2>2
      <3>2. words[k-1].inferred \/ words[k].inferred \/ words[k-1].end <= words[k].start
        BY <2>1, NextWord
      <3>3. QED
        BY <2>3, <2>6, <3>1, <3>2
    <2>8. QED
      BY <2>2, <2>3, <2>4, <2>6, <2>7
  <1>2. QED
    BY <1>1, WordInvariant, PTL

\* A word has a speaker's name exactly when the whole of it says so
\* (NamesByEvidence): map_word and _diarization_failed_words.
THEOREM NamesAreEarned == Spec => []NamesByEvidence
  <1>1. WordInv => NamesByEvidence
    <2> SUFFICES ASSUME WordInv, NEW k \in DOMAIN attributed
                 PROVE  LET w == words[k]
                            length == w.end - w.start
                            clear(s) ==
                              /\ ~failed /\ ~w.inferred
                              /\ Share(w, "OVERLAP") = 0
                              /\ 100 * Share(w, s) >= Percent.dominant * length
                              /\ \A other \in SpeakerIds \ {s} :
                                   100 * Share(w, other) < Percent.material * length
                              /\ 100 * (Share(w, "UNKNOWN") + Share(w, "NON_SPEECH"))
                                   <= Percent.unknown * length
                        IN  \A s \in SpeakerIds : attributed[k].speaker = s <=> clear(s)
      BY DEF NamesByEvidence
    <2>1. TypesOK /\ attributed \in Seq(Attributed)
      BY DEF WordInv, TypesOK
    <2>2. k \in 1..Len(attributed)
      BY <2>1, LenProperties
    <2>3. Claims(attributed[k], spans, words[k], failed)
      BY <2>2 DEF WordInv, NamesOK
    <2>4. \A w, label : Share(w, label) = ShareOf(spans, w, label)
      <3>1. DOMAIN spans = 1..Len(spans)
        BY <2>1, SpanFacts
      <3>2. QED
        BY <3>1 DEF Share, ShareOf, Units
    <2>5. QED
      BY <2>3, <2>4 DEF Claims, Clear
  <1>2. QED
    BY <1>1, WordInvariant, PTL

\* The turns partition the words in order, are as long as they can be and do not
\* overlap (TurnsPartition): _build_turns.
THEOREM TurnsAreAPartition == Spec => []TurnsPartition
  <1>1. WordInv => TurnsPartition
    <2> DEFINE alike(k) == /\ attributed[k] = attributed[k+1]
                           /\ words[k+1].start - words[k].end <= TurnGap
               W == Len(words)
               N == Len(turns)
    <2> SUFFICES ASSUME WordInv, stage = "done"
                 PROVE  /\ UNION {ToSet(turns[n]) : n \in DOMAIN turns} = DOMAIN words
                        /\ \A n \in DOMAIN turns :
                             /\ turns[n] # << >>
                             /\ \A m \in 1..(Len(turns[n]) - 1) :
                                  turns[n][m+1] = turns[n][m] + 1 /\ alike(turns[n][m])
                        /\ \A n \in 1..(N - 1) :
                             /\ Head(turns[n+1]) = Last(turns[n]) + 1
                             /\ ~alike(Last(turns[n]))
                             /\ \A k \in ToSet(turns[n]), l \in ToSet(turns[n+1]) :
                                  words[k].end <= words[l].start
      BY DEF TurnsPartition
    <2>1. /\ Grouped(words, attributed, turns, W) /\ W \in Nat /\ DOMAIN turns = 1..N
          /\ \A n \in 1..N : DOMAIN turns[n] = 1..Len(turns[n])
      BY PlacesAre
    <2>2. InTurn(words) /\ words \in Seq(Word) /\ DOMAIN words = 1..W
      <3>1. InTurn(words) /\ words \in Seq(Word)
        BY DEF WordInv, WordsOK, TypesOK
      <3>2. QED
        BY <3>1, LenProperties
    <2>3. \A k, l \in 1..W : k < l => words[k].end <= words[l].start
      <3>1. \A k \in 1..W : words[k].start \in Nat /\ words[k].end \in Nat /\ words[k].start < words[k].end
        <4>1. \A k \in 1..W : words[k] \in Word
          BY <2>2, ElementOfSeq
        <4>2. \A k \in 1..W : words[k].start < words[k].end
          BY DEF WordInv, TypesOK
        <4>3. QED
          BY <4>1, <4>2 DEF Word
      <3>2. \A k \in 2..W : words[k-1].end <= words[k].start
        BY <2>2 DEF InTurn
      <3> HIDE DEF W
      <3>3. QED
        BY <2>1, <3>1, <3>2, Chained
    <2>4. /\ N \in Nat
          /\ \A n \in 1..N : \A m \in 1..Len(turns[n]) : turns[n][m] \in 1..W
      BY <2>1, GroupedFacts
    <2>5. \A n \in 1..N : ToSet(turns[n]) = {turns[n][m] : m \in 1..Len(turns[n])}
      BY <2>1 DEF ToSet
    <2>6. UNION {ToSet(turns[n]) : n \in DOMAIN turns} = DOMAIN words
      <3>1. ASSUME NEW n \in 1..N, NEW k \in ToSet(turns[n]) PROVE k \in 1..W
        BY <2>4, <2>5, <3>1
      <3>2. ASSUME NEW k \in 1..W PROVE \E n \in 1..N : k \in ToSet(turns[n])
        <4>1. PICK n \in 1..N : \E m \in 1..Len(turns[n]) : turns[n][m] = k
          BY <2>1 DEF Grouped
        <4>2. QED
          BY <2>5, <4>1
      <3> HIDE DEF N, W
      <3>3. QED
        BY <2>1, <2>2, <3>1, <3>2
    <2>7. \A n \in 1..N : /\ turns[n] # << >>
                          /\ \A m \in 1..(Len(turns[n]) - 1) :
                               turns[n][m+1] = turns[n][m] + 1 /\ alike(turns[n][m])
      BY <2>1 DEF Grouped, Alike
    <2>8. ASSUME NEW n \in 1..(N - 1)
          PROVE  /\ Head(turns[n+1]) = Last(turns[n]) + 1
                 /\ ~alike(Last(turns[n]))
                 /\ \A k \in ToSet(turns[n]), l \in ToSet(turns[n+1]) : words[k].end <= words[l].start
      <3>1. n \in 1..N /\ n + 1 \in 1..N /\ n < n + 1
        BY <2>4
      <3>2. Head(turns[n+1]) = turns[n+1][1]
        <4>1. turns[n+1] \in Seq(1..W) /\ turns[n+1] # << >>
          BY <2>1, <2>7, <3>1, GroupedFacts
        <4>2. QED
          BY <4>1, HeadTailProperties
      <3>3. Last(turns[n]) = Final(turns[n])
        BY DEF Last, Final
      <3>4. turns[n+1][1] = Final(turns[n]) + 1 /\ ~Alike(words, attributed, Final(turns[n]))
        BY <2>1 DEF Grouped
      <3>5. ASSUME NEW k \in ToSet(turns[n]), NEW l \in ToSet(turns[n+1]) PROVE words[k].end <= words[l].start
        <4>1. PICK m \in 1..Len(turns[n]) : turns[n][m] = k
          BY <2>5, <3>1
        <4>2. PICK o \in 1..Len(turns[n+1]) : turns[n+1][o] = l
          BY <2>5, <3>1
        <4>3. k < l
          BY <2>1, <3>1, <4>1, <4>2 DEF Grouped
        <4>4. QED
          BY <2>3, <2>4, <3>1, <4>1, <4>2, <4>3
      <3>6. QED
        BY <3>2, <3>3, <3>4, <3>5 DEF Alike
    <2>9. QED
      BY <2>1, <2>6, <2>7, <2>8
  <1>2. QED
    BY <1>1, WordInvariant, PTL

=============================================================================
