-------------------------- MODULE AnnotationIntake --------------------------
(***************************************************************************)
(* What makes a row of an annotated corpus acceptable                      *)
(* (annotation_intake.py).                                                 *)
(*                                                                         *)
(* Times are whole units.  A UEM is a sequence of [file, channel, from,    *)
(* to], an RTTM of [file, channel, who, from, to] where who is 0 for a     *)
(* label that names no speaker, as UNKNOWN_1, -1 for one that has no digit *)
(* either, as UNKNOWN, and -2 for what is no pseudonym, as a person's      *)
(* name.  A list of words is of [id, file, who, free, from, to], where who *)
(* is 0 for nobody and -1 for REF_OTHER and free says that a flag excuses  *)
(* the word from having one.                                               *)
(***************************************************************************)
EXTENDS Integers, SequencesExt

Contained(x, intervals) == \E i \in intervals : i.from <= x.from /\ x.to <= i.to

\* _parse_uem: an interval that is empty, or begins before the last one that was taken
\* ended, is passed over; one of another file or channel, or that ends too late, is taken
\* and not scored.
Taken(i, end) == i.from < i.to /\ end <= i.from
Ends(uem) ==
    LET end[k \in 0..Len(uem)] ==
          IF k = 0 THEN 0 ELSE IF Taken(uem[k], end[k - 1]) THEN uem[k].to ELSE end[k - 1]
    IN  end
Good(uem, id, duration) ==
    {k \in DOMAIN uem :
       /\ Taken(uem[k], Ends(uem)[k - 1])
       /\ uem[k].file = id /\ uem[k].channel = 1 /\ uem[k].to <= duration}
Scored(uem, id, duration) == {uem[k] : k \in Good(uem, id, duration)}
UemFlawed(uem, id, duration) == uem = << >> \/ Good(uem, id, duration) # DOMAIN uem

\* _opaque_identifier: a pseudonym has a digit and is no usual word.
Opaque(label) == label \notin {-1, -2}

\* _parse_rttm
Segments(rttm) == {s \in ToSet(rttm) : s.from < s.to}
RttmFlawed(rttm, id, duration) ==
    \/ rttm = << >>
    \/ \E s \in ToSet(rttm) :
         \/ s.from >= s.to \/ s.file # id \/ s.channel # 1 \/ s.to > duration
         \/ ~Opaque(s.who) \/ s.who = 0

Speakers(rttm) == {s.who : s \in Segments(rttm)}

\* _annotation_checks
AnnotationsFlawed(row, rttm, uem, duration) ==
    \/ UemFlawed(uem, row.id, duration) \/ RttmFlawed(rttm, row.id, duration)
    \/ Cardinality(Speakers(rttm)) # row.count
    \/ \E s \in Segments(rttm) : ~Contained(s, Scored(uem, row.id, duration))

\* _parse_words_text, where scored and speakers are empty when they are not known.
WordFlawed(w, id, duration, scored, speakers) ==
    \/ w.file # id \/ w.to <= w.from \/ w.to > duration
    \/ scored # {} /\ ~Contained(w, scored)
    \/ w.who > 0 /\ speakers # {} /\ w.who \notin speakers
    \/ w.who = 0 /\ ~w.free
WordsFlawed(words, id, duration, scored, speakers) ==
    \/ words = << >> \/ ~IsInjective([k \in DOMAIN words |-> words[k].id])
    \/ \E w \in ToSet(words) : WordFlawed(w, id, duration, scored, speakers)

\* _record_from_row: groups is {} when the row declares none.
RowFlawed(row) == row.groups # {} /\ Cardinality(row.groups) # row.count

\* The layout of a WAV; audio is [wav, mono, rate, length].
LayoutFlawed(row, audio) == ~audio.mono \/ audio.rate # row.rate \/ audio.length <= 0

\* _readiness: every split has a usable row.
SplitsMissing(rows) ==
    {"CALIBRATION", "DEVELOPMENT_HOLDOUT", "RELEASE_HOLDOUT"} \ {r.split : r \in ToSet(rows)}
=============================================================================
