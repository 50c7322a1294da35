---------------------------- MODULE MCMemberScan ----------------------------
(* MemberScan with a community of two spaces.                              *)
EXTENDS MemberScan, TLC

CONSTANTS k1, k2, s1, s2, dashboard

TwoCookies == {k1, k2}

\* Enough for the run: the model never compares two sessions.
OneCookie == {k1}

TwoSpaces == {s1, s2}
Dashboard == {dashboard}

AnySymmetry == Permutations(TwoSpaces)
=============================================================================
