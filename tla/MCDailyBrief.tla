---------------------------- MODULE MCDailyBrief ----------------------------
(* Days of two hours of one second each; the brief is due in the second.  The
   zone is west of UTC, a whole number of such days away. *)
EXTENDS DailyBrief, TLC

CONSTANTS mac, node

MCJobs == 1..MaxJobs
OneZone == [d \in Drainers |-> -2]
=============================================================================
