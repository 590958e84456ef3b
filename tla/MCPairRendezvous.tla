------------------------- MODULE MCPairRendezvous --------------------------
(***************************************************************************)
(* Small worlds for PairRendezvous.                                        *)
(***************************************************************************)
EXTENDS PairRendezvous, TLC

CONSTANTS L1, L2, none

Cmd(id, r, p, s, n, l) ==
  [id |-> id, rank |-> r, pair |-> p, side |-> s, size |-> n, layout |-> l]

\* Two split pairs in opposite directions; one side has two ranks.
Split == (1 :> ("a" :> {0, 1} @@ "b" :> {2})) @@ (2 :> ("a" :> {2} @@ "b" :> {0, 1}))
SplitCmds ==
  {Cmd(1, 0, 1, "a", 2, none), Cmd(1, 1, 1, "a", 2, none), Cmd(1, 2, 1, "b", 1, none),
   Cmd(1, 2, 2, "a", 1, none), Cmd(1, 0, 2, "b", 2, none), Cmd(1, 1, 2, "b", 2, none)}
\* One client repeats its InitPair.
SplitRetry == SplitCmds \cup {Cmd(2, 1, 1, "a", 2, none)}

\* A dual-endpoint pair and a split pair of two ranks.
Mixed == (1 :> ("a" :> {0, 1} @@ "b" :> {0, 1})) @@ (2 :> ("a" :> {0} @@ "b" :> {1}))
\* Rank 1 first names a wrong size for side a, and a layout for side b that it
\* corrects; rank 0 calls init_pair for the split pair again with a layout, rank 1
\* with another size.
MixedCmds ==
  {Cmd(1, 0, 1, "a", 2, L1), Cmd(1, 1, 1, "a", 3, L1), Cmd(2, 1, 1, "a", 2, L1),
   Cmd(1, 0, 1, "b", 2, L2), Cmd(1, 1, 1, "b", 2, L1), Cmd(2, 1, 1, "b", 2, L2),
   Cmd(1, 0, 2, "a", 1, none), Cmd(2, 0, 2, "a", 1, L1), Cmd(1, 1, 2, "b", 1, none),
   Cmd(2, 1, 2, "b", 2, none)}

\* One split pair of two ranks, with layouts.
OneSplit == 1 :> ("a" :> {0} @@ "b" :> {1})
LayoutCmds == {Cmd(1, 0, 1, "a", 1, L1), Cmd(1, 1, 1, "b", 1, L2)}

\* One dual-endpoint pair of two ranks; rank 1 corrects the layout of side b.
OneDual == 1 :> ("a" :> {0, 1} @@ "b" :> {0, 1})
CorrectedCmds ==
  {Cmd(1, 0, 1, "a", 2, L1), Cmd(1, 1, 1, "a", 2, L1),
   Cmd(1, 0, 1, "b", 2, L2), Cmd(1, 1, 1, "b", 2, L1), Cmd(2, 1, 1, "b", 2, L2)}
=============================================================================
