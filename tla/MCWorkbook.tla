------------------------------ MODULE MCWorkbook ------------------------------
(***************************************************************************)
(* Instances of Workbook: the input files the tool is run on.              *)
(***************************************************************************)
EXTENDS Workbook

Heard(ff, rdfs, freq, fti, lti, nti) ==
  [ff |-> ff, rdfs |-> rdfs, freq |-> freq, half |-> 1, loc |-> 0,
   fti |-> fti, lti |-> lti, nti |-> nti]

R1 == Heard(1, 1, 10, 114, 120, 1)
R2 == Heard(2, 1, 11, 213, 215, 2)    \* the station and band of R1
R3 == Heard(3, 2, 10, 115, 116, 1)    \* the channel of R1, another station
R4 == Heard(1, 1, 14, 114, 120, 3)    \* a correction of R1, on another channel
R5 == Heard(4, Null, 10, 117, 118, 1)

Unreadable == <<>>

\* Files that overlap.
Files == { <<R1, R2>>, <<R2, R3, R4>>, <<R5, R3>>, Unreadable }

\* What the theorems about the log assume of the files holds of these.
ASSUME FilesAreTold == KeysTell(Submitted) /\ NoRepeats
==============================================================================
