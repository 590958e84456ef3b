---------------------------- MODULE MCDualBatch ----------------------------
(***************************************************************************)
(* Two ranks and the programs of their four clients.                       *)
(***************************************************************************)
EXTENDS DualBatch

Call(op, arg, n, wait) == [op |-> op, arg |-> arg, round |-> n, wait |-> wait]

Register == Call("register", "ok", 0, TRUE)
SendAsync(n) == Call("transfer", "send", n, FALSE)
SendSync(n) == Call("transfer", "send", n, TRUE)
RecvSync(n) == Call("transfer", "recv", n, TRUE)
RecvAsync(n) == Call("transfer", "recv", n, FALSE)
Close == Call("close", "", 0, TRUE)
CloseAsync == Call("close", "", 0, FALSE)
Completed(n) == Call("signal", "recv", n, TRUE)
Requested(n) == Call("request", "recv", n, TRUE)
RegisterAs(arg) == Call("register", arg, 0, TRUE)

Both(a, b) == [r \in Ranks |-> [x \in Roles |-> IF x = "a" THEN a ELSE b]]

\* Two rounds, the first one not waited for by its sender; then the batch id is
\* registered again and starts over with round 0, which role b reacts to.
Rounds2 ==
  Both(<<Register, SendAsync(0), SendSync(1), Close,
         Register, SendSync(0), Close>>,
       <<Register, RecvSync(0), RecvSync(1), Completed(1), Close,
         Register, Requested(0), RecvSync(0), Close>>)

World(a0, b0, a1, b1) ==
  [r \in Ranks |-> [x \in Roles |->
     CASE r = 0 /\ x = "a" -> a0
       [] r = 0 /\ x = "b" -> b0
       [] r = 1 /\ x = "a" -> a1
       [] r = 1 /\ x = "b" -> b1]]

\* Rounds that arrive out of order at one rank, that are asked for again, and
\* that a worker closes away.
Disorder ==
  World(<<Register, SendAsync(0), SendAsync(1), CloseAsync>>,
        <<Register, RecvSync(0), RecvSync(1)>>,
        <<Register, SendAsync(0), SendSync(1)>>,
        <<Register, RecvAsync(1), RecvAsync(0), RecvSync(1)>>)

\* Everyone asks for an older round after a later one.
Reissue ==
  Both(<<Register, SendAsync(1), SendSync(0)>>,
       <<Register, RecvAsync(1), RecvSync(0)>>)

\* Both roles want to be the source.
Opposed ==
  Both(<<Register, SendAsync(0), RecvSync(0)>>,
       <<Register, SendAsync(0), RecvSync(0)>>)

\* Registrations that are invalid, that differ and that come twice; the target
\* of the transfers is Partial.
Reregister ==
  World(<<Register, Register, SendSync(0), CloseAsync>>,
        <<RegisterAs("other"), Register, RecvSync(0)>>,
        <<Register, RegisterAs("bad"), SendSync(0), Close>>,
        <<Register, Register, RecvSync(0)>>)

\* A worker that gave up its second registration closes its first handler.
StaleHandler ==
  Both(<<Register, Register, CloseAsync>>, <<Register, CloseAsync, Register>>)

Orderly(calls) ==
  [calls |-> calls, partial |-> {}, expires |-> FALSE, givesUp |-> {},
   orderly |-> TRUE]
Faulty(calls) == [Orderly(calls) EXCEPT !.orderly = FALSE]

MCPrograms ==
  {Orderly(Rounds2), Orderly(Reissue),
   Faulty(Disorder),
   [Faulty(Opposed) EXCEPT !.expires = TRUE],
   [Faulty(Reregister) EXCEPT !.partial = {"a"}],
   [Faulty(StaleHandler) EXCEPT !.givesUp = {0}]}
=============================================================================
