--------------------------- MODULE MCLeadVerdicts ---------------------------
(* LeadVerdicts with three posts of which two can say the same.            *)
EXTENDS LeadVerdicts, TLC

CONSTANTS j1, j2

TwoJudges == {j1, j2}
TextsOfThree == {"preview", "whole", "repost", "asked", "filled"}
Approved == {"asked", "filled"}
ReadInFull == {<<"preview", "whole">>}
LaterEdit == {<<"asked", "filled">>}
SayTheSame == {{"preview", "repost"}, {"asked", "repost"}}
=============================================================================
