----------------------------- MODULE MCNetMerge ------------------------------
(***************************************************************************)
(* Instances of NetMerge: three or four nets whose bands overlap in a      *)
(* chain, so that only neighbours are proposed and a group of three needs  *)
(* two approvals.                                                          *)
(***************************************************************************)
EXTENDS NetMerge

\* Net n, built with my_net_id m, at frequency f, last seen on the same day and
\* at the same place as the others.
BuiltNet(m, f) ==
  [BlankRow EXCEPT !.my = m, !.rdfs = m, !.ff = m, !.freq = f, !.half = 3,
                   !.loc = 0, !.fti = 1, !.lti = 1, !.nti = 1]

\* Consecutive nets are 5 apart (their bands touch), others at least 10.
ChainOf(k) == [n \in 1..k |-> BuiltNet(n, 5 * n)]
ChainOfThree == ChainOf(3)

\* Four nets of which every two match: six pairs, whose decisions overlap.
CliqueOfFour == [n \in 1..4 |-> BuiltNet(n, 2 * n)]
==============================================================================
