------------------------------ MODULE Patterns ------------------------------
(* utils/pattern.py: wildcard matching of module ids.  Texts are sequences   *)
(* of characters.  In match_pattern() "*" is the only metacharacter; in      *)
(* match_glob() "?" stands for one character.  Both walk the segments        *)
(* between the stars from left to right, each at its earliest place, and     *)
(* never go back.                                                            *)
EXTENDS Naturals, Sequences, SequencesExt, FiniteSetsExt

Star == "*"
Question == "?"

\* pattern.split(separator), character by character: the parts that ended, and the open one
Split(text, separator) ==
  LET parts[i \in 0..Len(text)] ==
        LET before == parts[i - 1]
        IN IF i = 0 THEN [closed |-> <<>>, open |-> <<>>]
           ELSE IF text[i] = separator
                THEN [closed |-> Append(before.closed, before.open), open |-> <<>>]
                ELSE [closed |-> before.closed, open |-> Append(before.open, text[i])]
  IN Append(parts[Len(text)].closed, parts[Len(text)].open)
Segments(pattern) == Split(pattern, Star)

\* A segment at a place of the text, its characters literal or, for globs, possibly "?"
Fits(segment, text, at, glob) ==
  /\ at + Len(segment) <= Len(text) + 1
  /\ \A k \in 1..Len(segment) :
       segment[k] = text[at + k - 1] \/ (glob /\ segment[k] = Question)
EndsWith(text, segment, glob) ==
  Len(segment) <= Len(text) /\ Fits(segment, text, Len(text) - Len(segment) + 1, glob)

\* The place after the segments, each found as early as possible from place at; 0 for none.
PlaceAfter(segment, text, at, glob) ==
  LET found == {p \in at..Len(text) : Fits(segment, text, p, glob)}
  IN IF at = 0 \/ segment = <<>> THEN at
     ELSE IF found = {} THEN 0 ELSE Min(found) + Len(segment)
PlaceAll(segments, text, at, glob) ==
  LET place[k \in 0..Len(segments)] ==
        IF k = 0 THEN at ELSE PlaceAfter(segments[k], text, place[k - 1], glob)
  IN place[Len(segments)]

MatchPattern(pattern, text) ==
  LET segments == Segments(pattern)
      start == IF pattern[1] = Star THEN 1 ELSE 1 + Len(segments[1])
  IN IF ~Contains(pattern, Star) THEN pattern = text
     ELSE /\ pattern[1] # Star => Fits(segments[1], text, 1, FALSE)
          /\ PlaceAll(Tail(segments), text, start, FALSE) # 0
          /\ Last(pattern) # Star => EndsWith(text, Last(segments), FALSE)

\* The last segment is compared with the end of the text; without the length guard it may
\* overlap what the segments before it matched.
GlobOverlapping(pattern, text) ==
  LET segments == Segments(pattern)
      place == PlaceAll(Tail(Front(segments)), text, 1 + Len(segments[1]), TRUE)
  IN IF Len(segments) = 1 THEN Len(segments[1]) = Len(text) /\ Fits(segments[1], text, 1, TRUE)
     ELSE /\ Fits(segments[1], text, 1, TRUE) /\ place # 0
          /\ EndsWith(text, Last(segments), TRUE)
MatchGlob(pattern, text) ==
  LET segments == Segments(pattern)
      place == PlaceAll(Tail(Front(segments)), text, 1 + Len(segments[1]), TRUE)
      end == Last(segments)
  IN IF Len(segments) = 1 THEN Len(segments[1]) = Len(text) /\ Fits(segments[1], text, 1, TRUE)
     ELSE /\ Fits(segments[1], text, 1, TRUE) /\ place # 0
          /\ end # <<>> => Len(text) + 1 - place >= Len(end) /\ EndsWith(text, end, TRUE)

\* calculate_specificity(): per dotted segment 2 for a literal, 1 for a partial wildcard.
Specificity(pattern) ==
  LET segments == Split(pattern, ".")
      literal == {k \in DOMAIN segments : ~Contains(segments[k], Star)}
      partial == {k \in DOMAIN segments : Contains(segments[k], Star) /\ segments[k] # <<Star>>}
  IN IF pattern = <<Star>> THEN 0 ELSE 2 * Cardinality(literal) + Cardinality(partial)

-----------------------------------------------------------------------------
(* The reference: a star stands for any text, every other character for     *)
(* itself or, in a glob, "?" for any one character.  ends[p] holds how much  *)
(* of the text the first p characters of the pattern can stand for.          *)
Stands(pattern, text, glob) ==
  LET ends[p \in 0..Len(pattern)] ==
        IF p = 0 THEN {0}
        ELSE IF pattern[p] = Star
        THEN {t \in 0..Len(text) : \E k \in ends[p - 1] : k <= t}
        ELSE {t \in 1..Len(text) : /\ t - 1 \in ends[p - 1]
                                   /\ \/ text[t] = pattern[p]
                                      \/ glob /\ pattern[p] = Question}
  IN Len(text) \in ends[Len(pattern)]

(* The walk that never goes back finds every match there is, and no other,  *)
(* wherever segments repeat or overlap.                                     *)
MatchesAreExact(pattern, text) ==
  /\ pattern # <<>> => (MatchPattern(pattern, text) <=> Stands(pattern, text, FALSE))
  /\ MatchGlob(pattern, text) <=> Stands(pattern, text, TRUE)
=============================================================================
