---------------------------- MODULE MCMaybeFuture ----------------------------
(***************************************************************************)
(* MaybeFuture on operations of the driver.                                *)
(***************************************************************************)
EXTENDS MaybeFuture, Operations

MCTrees == {Control, I2cRead, OpenDevice(FALSE, TRUE), OpenDevice(TRUE, TRUE), OpenDevice(FALSE, FALSE),
            Start("ok"), Start("err")}
=============================================================================
