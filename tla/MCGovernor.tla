---------------------------- MODULE MCGovernor ------------------------------
(* Instances of Governor for TLC.                                          *)
EXTENDS Governor, TLC

CONSTANTS python, desktop

PythonAndDesktop == {python, desktop}
OneDesktop == {desktop}
NoneOrTwo == {0, 2}
=============================================================================
