----------------------------- MODULE MCDashboard -----------------------------
(* Two requests and a log that overflows. *)
EXTENDS Dashboard

CONSTANTS r1, r2

TwoRequests == {r1, r2}
=============================================================================
