------------------------------- MODULE MCFFNet --------------------------------
(***************************************************************************)
(* Instances of FFNet: emitters heard by different stations on overlapping *)
(* bands, so that the build keeps them apart and the matcher proposes to   *)
(* merge them.                                                             *)
(***************************************************************************)
EXTENDS FFNet

Heard(ff, rdfs, freq, lti, nti) ==
  [ff |-> ff, rdfs |-> rdfs, freq |-> freq, half |-> 1, loc |-> 0,
   fti |-> 114, lti |-> lti, nti |-> nti]

Ranks == [ff \in 1..4 |-> ff]

\* Three stations in a chain of bands, the last of which hears two emitters of one net.
ChainAndTwice ==
  { Heard(1, 1, 10, 120, 1), Heard(2, 2, 12, 120, 1), Heard(3, 3, 14, 120, 1),
    Heard(4, 3, 15, 121, 1) }

TwoStations == { Heard(1, 1, 10, 120, 1), Heard(2, 2, 11, 120, 1) }
==============================================================================
