--------------------------- MODULE MCSystemServer ---------------------------
(* The system server for TLC. *)
EXTENDS SystemServer

\* Two bonuses: claiming one counts a day too, so that the second day wraps.
LoginBonues == <<3, 5>>
SysMsgs == {<<>>, <<"a">>}
=============================================================================
