----------------------------- MODULE MCSoftmax -----------------------------
(***************************************************************************)
(* A small instance of SoftmaxKernel, with Tiny32 = 3 and Tiny64 = 4.      *)
(* -12 is so far below the padding -4 that exp(-12 - Pad) is zero.  The    *)
(* padding relative to 0 underflows in f32 and not in f64, and relative to *)
(* 1 in both.                                                              *)
(***************************************************************************)
EXTENDS SoftmaxKernel

LowPad == -4

Elements == {-12, -4, 0, 1}
=============================================================================
