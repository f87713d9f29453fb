-------------------------------- MODULE Wire --------------------------------
(***************************************************************************)
(* One TCP connection between a client and a server: what was sent in each *)
(* direction, and the bytes on their way, in order and without loss.       *)
(***************************************************************************)
EXTENDS Protocol

VARIABLES
  cmds,     \* the commands the client has sent: their length and kind
  answers,  \* the lengths of the messages the server has sent
  up,       \* bytes on the way to the server
  down,     \* bytes on the way to the client
  hungup    \* the client has closed its end

wire == <<cmds, answers, up, down, hungup>>

\* A command for a service; one no service takes; a websocket's close frame; a
\* TCP package without a message.
Kinds == {"cmd", "refused", "close", "empty"}

WireInit == cmds = <<>> /\ answers = <<>> /\ up = <<>> /\ down = <<>> /\ hungup = FALSE

cmd_lens == [k \in DOMAIN cmds |-> cmds[k].len]
=============================================================================
