----------------------------- MODULE Correction -----------------------------
(***************************************************************************)
(* Names that a reviewer gives to UNKNOWN speech (correction.py).  A span  *)
(* has a time, a name, a status and the evidence for it; the ids that are  *)
(* made of the others are left out.                                        *)
(***************************************************************************)
EXTENDS Integers, SequencesExt

Overlap(left, right) == left.from < right.to /\ right.from < left.to

\* HumanSpeakerCorrection.__post_init__
Legal(correction) == correction.from < correction.to /\ correction.who \in {"SPEAKER_00", "SPEAKER_01"}

\* The pieces of a span that a correction reaches: before, named, after.
Cut(span, c) ==
    LET from == Max({span.from, c.from})
        to == Min({span.to, c.to})
    IN  {[span EXCEPT !.from = from, !.to = to, !.who = c.who, !.status = "HUMAN_CONFIRMED",
                      !.evidence = @ \cup {c.reviewer}]}
          \cup {s \in {[span EXCEPT !.to = from], [span EXCEPT !.from = to]} : s.from < s.to}

\* Spans that are reached are cut, whatever they are called.
Correct_Anyone(answer, c) ==
    LET reached == {s \in answer.spans : Overlap(s, c)}
    IN  IF answer.conflict \/ reached = {} THEN [answer EXCEPT !.conflict = TRUE]
        ELSE [answer EXCEPT !.spans = (@ \ reached) \cup UNION {Cut(s, c) : s \in reached}]

\* One correction; a conflict ends it all.
Correct(answer, c) ==
    LET reached == {s \in answer.spans : Overlap(s, c)}
    IN  IF answer.conflict \/ reached = {} \/ \E s \in reached : s.who # "UNKNOWN"
        THEN [answer EXCEPT !.conflict = TRUE]
        ELSE [answer EXCEPT !.spans = (@ \ reached) \cup UNION {Cut(s, c) : s \in reached}]

Earlier(c, d) ==
    \/ c.from < d.from
    \/ c.from = d.from /\ c.to < d.to
    \/ c.from = d.from /\ c.to = d.to /\ c.id < d.id

\* apply_session_corrections without its callback.
Apply(spans, corrections) ==
    FoldLeft(Correct, [spans |-> spans, conflict |-> FALSE], SetToSortSeq(corrections, Earlier))

\* What the callback answers is taken when it keeps every span that has a name.
Fixed(spans) == {<< s.from, s.to, s.who >> : s \in {x \in spans : x.who # "UNKNOWN"}}
Taken(spans, answer) ==
    /\ Fixed(spans) \subseteq Fixed(answer)
    /\ \A s \in answer :
         s.who \in {"SPEAKER_00", "SPEAKER_01", "UNKNOWN", "OVERLAP", "OTHER", "NON_SPEECH"}

-----------------------------------------------------------------------------
(* What that is for *)

At(spans, t) == {s \in spans : s.from <= t /\ t < s.to}
Names(spans, t) == {s.who : s \in At(spans, t)}

\* Moment by moment: corrections are taken when each names UNKNOWN speech and nothing else,
\* and no moment of it twice; they then change those moments only, and lose no evidence.
OnlyReviewed(spans, corrections, times) ==
    LET answer == Apply(spans, corrections)
        Over(t) == {c \in corrections : c.from <= t /\ t < c.to}
        Spoken(t) == At(spans, t) # {}
        Right == /\ \A c \in corrections : \E t \in c.from..(c.to - 1) : Spoken(t)
                 /\ \A t \in times : Spoken(t) =>
                      Cardinality(Over(t)) <= IF Names(spans, t) = {"UNKNOWN"} THEN 1 ELSE 0
    IN  /\ (\A c \in corrections : Legal(c)) => (~answer.conflict <=> Right)
        /\ ~answer.conflict =>
             /\ \A t \in times :
                  /\ Cardinality(At(answer.spans, t)) = Cardinality(At(spans, t))
                  /\ Spoken(t) =>
                       LET before == CHOOSE s \in At(spans, t) : TRUE
                           after == CHOOSE s \in At(answer.spans, t) : TRUE
                       IN  /\ after.who = IF Over(t) = {} THEN before.who
                                          ELSE (CHOOSE c \in Over(t) : TRUE).who
                           /\ after.evidence = before.evidence \cup {c.reviewer : c \in Over(t)}
             \* a second look may name what is left, not what has a name
             /\ LET Renamed(who) == {IF s.who = who THEN [s EXCEPT !.who = "SPEAKER_00"] ELSE s : s \in answer.spans}
                IN  /\ Taken(answer.spans, Renamed("UNKNOWN"))
                    /\ Taken(answer.spans, Renamed("SPEAKER_01"))
                         <=> \A s \in answer.spans : s.who # "SPEAKER_01"
=============================================================================
