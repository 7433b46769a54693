----------------------------- MODULE NetMerging ------------------------------
(***************************************************************************)
(* apps/ff_net/submodules/net_merging.py: the matcher that proposes pairs  *)
(* of nets for a merge decision, over rows of ff_net_building.             *)
(*                                                                         *)
(* Frequencies and half bandwidths are integers in one unit, dates are     *)
(* integers in days (ff_net_building.lti is a CQL date) and a position is  *)
(* an integer in metres on a line: the matcher only compares differences   *)
(* with a tolerance.                                                       *)
(***************************************************************************)
EXTENDS Integers

\* A null column.
Null == -1

\* MergeConfig.lti_tol_sec, in whole days of a date column, and loc_tol_m.
LtiTolSec == 5
SecPerDay == 86400
LocTolM == 100

\* The columns of ff_net_building the two pipelines compute with, all null but
\* those a statement sets.  Every tolerance test against a null column fails.
BlankRow ==
  [my |-> Null, rdfs |-> Null, ff |-> Null, freq |-> Null, half |-> Null,
   loc |-> Null, fti |-> Null, lti |-> Null, nti |-> Null]

NetRow ==
  [my : Nat, rdfs : Int, ff : Int, freq : Int, half : Int,
   loc : Int, fti : Int, lti : Int, nti : Int]

Gap(x, y) == IF x < y THEN y - x ELSE x - y

\* freq_match with tune_tol: half bandwidths add up, both pads are 0.  A null frequency
\* matches nothing: beside numbers pandas makes it a NaN, which is within no tolerance.
FreqMatch(a, b) ==
  /\ a.freq # Null /\ b.freq # Null
  /\ Gap(a.freq, b.freq) <= a.half + b.half

\* time_match: a null LTI never matches.
TimeMatch(a, b) ==
  /\ a.lti # Null /\ b.lti # Null
  /\ Gap(a.lti, b.lti) * SecPerDay <= LtiTolSec

\* loc_match: a null position never matches.
LocMatch(a, b) ==
  /\ a.loc # Null /\ b.loc # Null
  /\ Gap(a.loc, b.loc) <= LocTolM

SameNet(a, b) == FreqMatch(a, b) /\ TimeMatch(a, b) /\ LocMatch(a, b)

\* propose_pairs: every sorted pair in different my_net_id groups that matches.
ProposePairs(nets) ==
  {p \in (DOMAIN nets) \X (DOMAIN nets) :
     /\ p[1] < p[2]
     /\ nets[p[1]].my # nets[p[2]].my
     /\ SameNet(nets[p[1]], nets[p[2]])}
==============================================================================
