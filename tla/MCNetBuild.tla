------------------------------ MODULE MCNetBuild ------------------------------
(***************************************************************************)
(* Instances of NetBuild: the reports clients may submit.  Station 1 hears *)
(* emitters on overlapping bands, station 2 hears one on the same channel. *)
(***************************************************************************)
EXTENDS NetBuild

\* Emitter ff heard by a station on a channel, half bandwidth 1, from day fti to
\* day lti, nti times.
Heard(ff, rdfs, freq, fti, lti, nti) ==
  [ff |-> ff, rdfs |-> rdfs, freq |-> freq, half |-> 1, loc |-> 0,
   fti |-> fti, lti |-> lti, nti |-> nti]

\* Partitions are read in the order of ff_id.
Ranks == [ff \in 1..4 |-> ff]

\* One report per emitter and, for emitters 1 and 3, a correction of its count.  Days are
\* above 12, so that a date survives being written and read as text, but for the FTI at
\* station 2: 5 January may come back as 1 May when the correction is folded.
DistinctEmitters ==
  { Heard(1, 1, 10, 114, 120, 1), Heard(1, 1, 10, 114, 120, 3),
    Heard(2, 1, 11, 213, 215, 2),
    Heard(3, 2, 10, 105, 116, 1), Heard(3, 2, 10, 105, 116, 4),
    Heard(4, Null, 10, 107, 118, 1) }

\* Emitter 1 heard twice, so that one run logs two reports of one emitter, and a
\* net of another station.
TwiceHeard ==
  { Heard(1, 1, 10, 114, 120, 1), Heard(1, 1, 10, 214, 220, 1),
    Heard(2, 2, 11, 115, 216, 1) }

\* One report of each of two stations.
TwoStations == { Heard(1, 1, 10, 114, 120, 1), Heard(2, 2, 10, 114, 121, 1) }
==============================================================================
