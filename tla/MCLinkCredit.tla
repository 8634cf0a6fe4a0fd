---------------------------- MODULE MCLinkCredit -----------------------------
(* LinkCredit on a small instance: 8 stands for 2^32, and counts begin at 6, so *)
(* that they wrap around.                                                       *)
EXTENDS LinkCredit

MCGrants == 0 .. 2
MCInitialCounts == {6}
=============================================================================
