----------------------------- MODULE MCSession -----------------------------
(* One agent and two clients. *)
EXTENDS Session

MCUsers == {"agent", "c1", "c2"}
MCClients == {"c1", "c2"}

Plain ==
  [clients |-> MCClients, lives |-> 1, direct |-> {}, clears |-> {}, left |-> 0,
   openFails |-> FALSE, fatal |-> FALSE, dies |-> FALSE, slow |-> FALSE, tidy |-> FALSE, timed |-> FALSE]

Timed == [Plain EXCEPT !.timed = TRUE]
Alone == [Timed EXCEPT !.clients = {"c1"}, !.lives = 2]

MCScenarios ==
  {Plain,
   [Timed EXCEPT !.direct = {"c2"}],
   [Plain EXCEPT !.direct = {"c1", "c2"}, !.clears = {"c2"}, !.left = 1, !.openFails = TRUE],
   [Alone EXCEPT !.fatal = TRUE, !.slow = TRUE],
   [Alone EXCEPT !.dies = TRUE, !.tidy = TRUE],
   [Alone EXCEPT !.dies = TRUE]}

MCPlain == {Plain}
=============================================================================
