------------------------------ MODULE WordPath ------------------------------
(***************************************************************************)
(* From decoder output to speaker turns: the whisper.cpp timeline          *)
(* (whispercpp_backend._timeline_from_json), the word provider, the        *)
(* mapping of words to speakers (attribution.py) and the turns             *)
(* (production_orchestrator._build_turns).                                 *)
(*                                                                         *)
(* The text of a token is its position in the output; what matters of its  *)
(* characters is whether it is white space or punctuation and has white    *)
(* space at its ends.  Identifiers, confidences and chunk names are left   *)
(* out.  A millisecond of the decoder is PerMs units of source time.       *)
(***************************************************************************)
EXTENDS Integers, FiniteSets, SequencesExt

CONSTANTS
    Tokens,     \* what the decoder may emit next, see Token
    MaxTokens,  \* bound: tokens of one output
    Supplied,   \* sequences of words a caller may supply instead
    Timelines,  \* sequences of spans the diarizer may return
    PerMs,      \* units in a millisecond, 1000 in the code
    Duration,   \* of the recording, in units
    Percent,    \* WordMappingConfig: [material, dominant, unknown]
    TurnGap     \* longest pause inside a turn, 1_000_000 in the code

SpeakerIds == {"SPEAKER_00", "SPEAKER_01"}
SpanLabels == SpeakerIds \cup {"UNKNOWN", "OVERLAP", "OTHER", "NON_SPEECH"}

\* "special" tokens are allowed markers, "invalid" ones whatever breaks the shape.
Token == [type : {"piece", "mark", "blank", "special", "invalid"},
          leading : BOOLEAN, trailing : BOOLEAN, from : Nat, to : Nat]
Span == [start : Nat, end : Nat, label : SpanLabels]
Word == [start : Nat, end : Nat, text : Seq(Nat), inferred : BOOLEAN]

\* The thresholds of the code are 20, 80 and 20 %; no one but the dominant speaker of a
\* word has as much, which a threshold of a half would not ensure.
ASSUME WordAssumption ==
    /\ Tokens \subseteq Token
    /\ MaxTokens \in Nat /\ PerMs \in Nat \ {0, 1} /\ Duration \in Nat \ {0}
    /\ Percent \in [material : 1..100, dominant : 51..100, unknown : 0..100]
    /\ TurnGap \in Nat
    /\ \A s \in Supplied : s \in Seq(Word) /\ \A k \in DOMAIN s : s[k].start < s[k].end
    /\ \A t \in Timelines :
         /\ t \in Seq(Span)
         /\ \A k \in DOMAIN t : t[k].start < t[k].end /\ t[k].end <= Duration
         /\ \A k \in 2..Len(t) : t[k-1].end <= t[k].start

VARIABLES
    origin,     \* "stt" or "supplied"
    stage,      \* "reading", "joining", "checking", "waiting", "mapping",
                \* "grouping", "done" or "refused"
    raw,        \* tokens of the output, read so far
    tokens,     \* positions in raw of those that are kept
    cursor,     \* elements the loop of the stage has dealt with
    current,    \* the word being joined: [text, start, end]
    pending,    \* pending_boundary
    words,      \* the word timeline
    spans,      \* the diarization
    failed,     \* whether diarization failed
    attributed, \* the words with [speaker, status, support]
    turns       \* the turns, each a sequence of positions in attributed

reading == << raw, tokens >>
joining == << current, pending, words >>
diarized == << spans, failed >>
vars == << origin, stage, raw, tokens, cursor, current, pending, words, spans,
           failed, attributed, turns >>

NoWord == [text |-> << >>, start |-> 0, end |-> 0]

Init ==
    /\ \/ origin = "stt" /\ stage = "reading" /\ words = << >>
       \/ origin = "supplied" /\ stage = "checking" /\ words \in Supplied
    /\ raw = << >> /\ tokens = << >>
    /\ cursor = 0
    /\ current = NoWord /\ pending = FALSE
    /\ spans = << >> /\ failed = FALSE
    /\ attributed = << >> /\ turns = << >>

-----------------------------------------------------------------------------
(* _timeline_from_json: reading *)

From(i) == raw[i].from * PerMs
To(i) == raw[i].to * PerMs

\* Mutant: a token may begin inside the one before.
InOrder_StartsOnly(t) == tokens = << >> \/ t.from >= raw[Last(tokens)].from

InOrder(t) == tokens = << >> \/ t.from >= raw[Last(tokens)].to

\* A token with text, white space included, at a possible time.
Timely(t) ==
    /\ t.from * PerMs <= Duration /\ t.to * PerMs <= Duration
    /\ t.from <= t.to
    /\ InOrder(t)

ReadToken ==
    /\ stage = "reading"
    /\ Len(raw) < MaxTokens
    /\ \E t \in Tokens :
         /\ raw' = Append(raw, t)
         /\ tokens' = IF t.type = "special" THEN tokens ELSE Append(tokens, Len(raw) + 1)
         /\ stage' = IF t.type = "special" \/ (t.type # "invalid" /\ Timely(t))
                       THEN "reading" ELSE "refused"
    /\ UNCHANGED << origin, cursor, joining, diarized, attributed, turns >>

EndOutput ==
    /\ stage = "reading"
    /\ stage' = "joining"
    /\ UNCHANGED << origin, reading, cursor, joining, diarized, attributed, turns >>

-----------------------------------------------------------------------------
(* _timeline_from_json: joining tokens to words *)

\* flush: a word without duration gets a unit, and is marked.
Timed(w) ==
    LET inferred == w.start = w.end
        atEnd == w.start >= Duration
    IN  [text |-> w.text, inferred |-> inferred,
         start |-> IF inferred /\ atEnd THEN Duration - 1 ELSE w.start,
         end |-> IF ~inferred THEN w.end
                 ELSE IF atEnd THEN Duration ELSE w.start + 1]

\* Mutant: the word before is forgotten when a new one begins.
Flushed_Overwrites == IF current.text = << >> THEN words ELSE << Timed(current) >>

Flushed == IF current.text = << >> THEN words ELSE Append(words, Timed(current))

\* Mutant: white space that a token of its own holds is forgotten.
BeginsWord_OwnSpaceOnly(t) == current.text # << >> /\ t.leading /\ t.type # "mark"

\* Punctuation stays with the word before it, whatever space is between.
BeginsWord(t) == current.text # << >> /\ (pending \/ t.leading) /\ t.type # "mark"

JoinToken ==
    /\ stage = "joining"
    /\ cursor < Len(tokens)
    /\ cursor' = cursor + 1
    /\ LET i == tokens[cursor + 1]
           t == raw[i]
           fresh == BeginsWord(t) \/ current.text = << >>
       IN  IF t.type = "blank"
             THEN /\ pending' = TRUE
                  /\ UNCHANGED << current, words >>
             ELSE /\ words' = IF BeginsWord(t) THEN Flushed ELSE words
                  /\ current' = IF fresh
                                  THEN [text |-> << i >>, start |-> From(i), end |-> To(i)]
                                  ELSE [current EXCEPT !.text = Append(@, i), !.end = To(i)]
                  /\ pending' = t.trailing
    /\ UNCHANGED << origin, stage, reading, diarized, attributed, turns >>

EndTokens ==
    /\ stage = "joining"
    /\ cursor = Len(tokens)
    /\ words' = Flushed
    /\ current' = NoWord
    /\ stage' = "checking"
    /\ cursor' = 0
    /\ UNCHANGED << origin, reading, pending, diarized, attributed, turns >>

-----------------------------------------------------------------------------
(* SuppliedWordTimelineProvider.words *)

Before(v, w) == v.start < w.start \/ (v.start = w.start /\ v.end <= w.end)

\* Ordered, disjoint and inside the recording.
Acceptable ==
    /\ \A k \in 2..Len(words) : /\ Before(words[k-1], words[k])
                                /\ words[k-1].end <= words[k].start
    /\ \A k \in DOMAIN words : words[k].end <= Duration

CheckWords ==
    /\ stage = "checking"
    /\ stage' = IF Acceptable THEN "waiting" ELSE "refused"
    /\ UNCHANGED << origin, reading, cursor, joining, diarized, attributed, turns >>

\* The diarizer returns its spans, or fails and leaves none.
Diarize ==
    /\ stage = "waiting"
    /\ \/ spans' \in Timelines /\ failed' = FALSE
       \/ spans' = << >> /\ failed' = TRUE
    /\ stage' = "mapping"
    /\ UNCHANGED << origin, reading, cursor, joining, attributed, turns >>

-----------------------------------------------------------------------------
(* map_word *)

Overlap(a, b) ==
    LET from == IF a.start > b.start THEN a.start ELSE b.start
        to == IF a.end < b.end THEN a.end ELSE b.end
    IN  IF from < to THEN to - from ELSE 0

Support(w) == {k \in DOMAIN spans : Overlap(w, spans[k]) > 0}

\* How long a label holds during a word.
Coverage(w, label) ==
    LET during[n \in 0..Len(spans)] ==
          IF n = 0 THEN 0
          ELSE during[n-1] + (IF spans[n].label = label THEN Overlap(w, spans[n]) ELSE 0)
    IN  during[Len(spans)]

AtLeast(part, w, percent) == 100 * part >= percent * (w.end - w.start)

Attribution(speaker, status, support) ==
    [speaker |-> speaker, status |-> status, support |-> support]

\* Mutant: the speaker of the middle of the word.
MapWord_Midpoint(w) ==
    LET at == {k \in Support(w) : /\ 2 * spans[k].start <= w.start + w.end
                                  /\ w.start + w.end < 2 * spans[k].end}
        named == {s \in SpeakerIds : \E k \in at : spans[k].label = s}
    IN  IF named = {} THEN Attribution("UNKNOWN", "UNKNOWN_INSUFFICIENT_EVIDENCE", Support(w))
        ELSE Attribution(CHOOSE s \in named : TRUE, "ASSIGNED", Support(w))

MapWord(w) ==
    LET support == Support(w)
        heard == {s \in SpeakerIds : Coverage(w, s) > 0}
        material == {s \in SpeakerIds : AtLeast(Coverage(w, s), w, Percent.material)}
        silent == Coverage(w, "UNKNOWN") + Coverage(w, "NON_SPEECH")
        dominant == {s \in heard :
                       /\ AtLeast(Coverage(w, s), w, Percent.dominant)
                       /\ 100 * silent <= Percent.unknown * (w.end - w.start)}
    IN  IF w.inferred
          THEN Attribution("UNKNOWN", "UNKNOWN_TIMEWARP_BOUNDARY", support)
        ELSE IF Coverage(w, "OVERLAP") > 0
          THEN Attribution("OVERLAP", "OVERLAP_UNATTRIBUTED", support)
        ELSE IF material = SpeakerIds
          THEN Attribution("UNKNOWN", "UNKNOWN_BOUNDARY", support)
        ELSE IF dominant # {}
          THEN Attribution(CHOOSE s \in dominant : TRUE, "ASSIGNED", support)
        ELSE IF heard = {} /\ Coverage(w, "OTHER") > 0
          THEN Attribution("OTHER", "OTHER", support)
        ELSE Attribution("UNKNOWN", "UNKNOWN_INSUFFICIENT_EVIDENCE", support)

\* _diarization_failed_words
NoClaim == Attribution("UNKNOWN", "UNKNOWN_INSUFFICIENT_EVIDENCE", {})

MapNext ==
    /\ stage = "mapping"
    /\ cursor < Len(words)
    /\ cursor' = cursor + 1
    /\ attributed' = Append(attributed, IF failed THEN NoClaim ELSE MapWord(words[cursor + 1]))
    /\ UNCHANGED << origin, stage, reading, joining, diarized, turns >>

EndWords ==
    /\ stage = "mapping"
    /\ cursor = Len(words)
    /\ cursor' = 0
    /\ stage' = "grouping"
    /\ UNCHANGED << origin, reading, joining, diarized, attributed, turns >>

-----------------------------------------------------------------------------
(* _build_turns *)

\* Mutant: pauses and evidence are not looked at.
Continues_SameSpeaker(k) ==
    /\ turns # << >>
    /\ LET previous == Last(Last(turns))
       IN  attributed[previous].speaker = attributed[k].speaker

\* Word k continues the last turn.
Continues(k) ==
    /\ turns # << >>
    /\ LET previous == Last(Last(turns))
       IN  /\ attributed[previous] = attributed[k]
           /\ words[k].start - words[previous].end <= TurnGap

GroupNext ==
    /\ stage = "grouping"
    /\ cursor < Len(words)
    /\ cursor' = cursor + 1
    /\ LET k == cursor + 1
       IN  turns' = IF Continues(k)
                      THEN [turns EXCEPT ![Len(turns)] = Append(@, k)]
                      ELSE Append(turns, << k >>)
    /\ UNCHANGED << origin, stage, reading, joining, diarized, attributed >>

EndGroups ==
    /\ stage = "grouping"
    /\ cursor = Len(words)
    /\ stage' = "done"
    /\ UNCHANGED << origin, reading, cursor, joining, diarized, attributed, turns >>

Next ==
    \/ ReadToken \/ EndOutput \/ JoinToken \/ EndTokens \/ CheckWords \/ Diarize
    \/ MapNext \/ EndWords \/ GroupNext \/ EndGroups

Spec == Init /\ [][Next]_vars

-----------------------------------------------------------------------------
(* Properties *)

\* The tokens that hold text.
Texts == {i \in ToSet(tokens) : raw[i].type \in {"piece", "mark"}}

\* Where the turns hold a token: turn, word of the turn, token of the word.
Places ==
    UNION {UNION {{<< n, m, l >> : l \in DOMAIN words[turns[n][m]].text} : m \in DOMAIN turns[n]} :
             n \in DOMAIN turns}
Precedes(p, q) ==
    \/ p[1] < q[1]
    \/ p[1] = q[1] /\ p[2] < q[2]
    \/ p[1] = q[1] /\ p[2] = q[2] /\ p[3] < q[3]

\* What the decoder said is what the turns say: no token is lost, doubled or
\* moved between the JSON, the words, their speakers and the turns.
TextKept ==
    stage = "done" /\ origin = "stt" =>
        LET said(p) == words[turns[p[1]][p[2]]].text[p[3]]
        IN  /\ {said(p) : p \in Places} = Texts
            /\ \A p, q \in Places : Precedes(p, q) => said(p) < said(q)

\* Two tokens that follow each other belong to one word exactly when no white
\* space is between them, at their ends or in a token of its own, or when the
\* second is punctuation.
SplitAtSpaces ==
    words # << >> /\ origin = "stt" /\ stage # "joining" =>
        \A i, j \in Texts :
            i < j /\ ~(\E k \in Texts : i < k /\ k < j) =>
              LET spaced == \/ raw[i].trailing \/ raw[j].leading
                            \/ \E b \in ToSet(tokens) : i < b /\ b < j
                  together == \E k \in DOMAIN words : {i, j} \subseteq ToSet(words[k].text)
              IN  together <=> (~spaced \/ raw[j].type = "mark")

\* The provider refuses the words of the local decoder only because of the unit
\* that a word without duration was given: times the reader let through in order
\* never make it refuse.
RefusedOnlyWhenWidened ==
    stage = "refused" /\ origin = "stt" /\ words # << >> =>
        /\ \A k \in DOMAIN words : words[k].end <= Duration
        /\ \E k \in 2..Len(words) :
             /\ words[k-1].end > words[k].start
             /\ words[k-1].inferred \/ words[k].inferred
        /\ \A k \in 2..Len(words) : words[k-1].end <= words[k].start + 1

\* How many units of a word the diarizer gave to a label.
Share(w, label) ==
    Cardinality({t \in w.start..(w.end - 1) :
                   \E k \in DOMAIN spans : /\ spans[k].label = label
                                           /\ spans[k].start <= t /\ t < spans[k].end})

\* SDD 8.8: a word has a speaker's name exactly when the whole of it says so: its
\* time is certain, nobody overlaps, that speaker dominates, the other one is not
\* material and little is unknown.  A failed diarization names nobody.
NamesByEvidence ==
    \A k \in DOMAIN attributed :
        LET w == words[k]
            length == w.end - w.start
            clear(s) ==
              /\ ~failed /\ ~w.inferred
              /\ Share(w, "OVERLAP") = 0
              /\ 100 * Share(w, s) >= Percent.dominant * length
              /\ \A other \in SpeakerIds \ {s} :
                   100 * Share(w, other) < Percent.material * length
              /\ 100 * (Share(w, "UNKNOWN") + Share(w, "NON_SPEECH"))
                   <= Percent.unknown * length
        IN  \A s \in SpeakerIds :
                attributed[k].speaker = s <=> clear(s)

\* The turns partition the words in order.  A turn is one speaker, with one kind
\* of evidence and no long pause, as long as it can be, and never overlaps
\* another turn.
TurnsPartition ==
    stage = "done" =>
        LET alike(k) == /\ attributed[k] = attributed[k+1]
                        /\ words[k+1].start - words[k].end <= TurnGap
        IN  /\ UNION {ToSet(turns[n]) : n \in DOMAIN turns} = DOMAIN words
            /\ \A n \in DOMAIN turns :
                 /\ turns[n] # << >>
                 /\ \A m \in 1..(Len(turns[n]) - 1) :
                      turns[n][m+1] = turns[n][m] + 1 /\ alike(turns[n][m])
            /\ \A n \in 1..(Len(turns) - 1) :
                 /\ Head(turns[n+1]) = Last(turns[n]) + 1
                 /\ ~alike(Last(turns[n]))
                 /\ \A k \in ToSet(turns[n]), l \in ToSet(turns[n+1]) :
                      words[k].end <= words[l].start
=============================================================================
