----------------------------- MODULE MCPlcGateway -----------------------------
(* PlcGateway with uploads of two images, each of several requests, beside  *)
(* the poll; and with the other jobs, of which the reset polls the status.  *)
EXTENDS PlcGateway, TLC

MCOther == OtherHttpJob

\* Images are only compared.
MCSymmetry == Permutations(Images)
=============================================================================
