---------------------------- MODULE MCManchester ----------------------------
(* Errors in microseconds for Manchester: none, the largest that a half    *)
(* period of 950 tolerates, and the largest that only twice its time       *)
(* tolerates, or a header whose space has no backlog.                      *)
EXTENDS Manchester

MCHeaderErrors == {-711, -237, 0, 237, 711}
MCErrors == {-474, -237, 0, 237, 474}
=============================================================================
