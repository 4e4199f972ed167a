--------------------------- MODULE MCChainConfirm ---------------------------
(***************************************************************************)
(* Two fills of one shape, one of another, and one of an unknown token.    *)
(***************************************************************************)
EXTENDS ChainConfirm

Fill(id, shape, mapped) == [id |-> id, shape |-> shape, mapped |-> mapped]

MCFills == {Fill("tx1", "s", TRUE), Fill("tx2", "s", TRUE), Fill("tx3", "t", TRUE),
            Fill("tx4", "s", FALSE)}

MCChainClock == 0 .. 3
=============================================================================
