-------------------------- MODULE MCCommandQueue ---------------------------
(***************************************************************************)
(* Small instances of CommandQueue: two clients, one agent, a ring of two  *)
(* slots that wraps around within the bound on enqueue calls.              *)
(***************************************************************************)
EXTENDS CommandQueue

CONSTANTS c1, c2, agent, m1, bad

MCClients == {c1, c2}
MCMessages == {m1, bad}
MCUndecodable == {bad}
MCClientDiesAt == {"granted", "posted"}
MCAgentDiesAt == {"woken", "dropping", "releasing"}
=============================================================================
