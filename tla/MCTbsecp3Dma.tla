---------------------------- MODULE MCTbsecp3Dma ----------------------------
(* A DMA channel for TLC: a ring of four buffers, gone round twice.        *)
EXTENDS Tbsecp3Dma
=============================================================================
