----------------------------- MODULE MCCheckpoint -----------------------------
(***************************************************************************)
(* Instances of Checkpoint.                                                *)
(***************************************************************************)
EXTENDS Checkpoint

\* The SSTables of one node do not verify in the second round.
RottenInSecond == { <<2, 2>> }

\* One copy of the first night is exported twice, and the fault befalls it.
FirstCopy == { <<1, 1>> }
==============================================================================
