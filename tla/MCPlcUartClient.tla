--------------------------- MODULE MCPlcUartClient ---------------------------
(* Two tasks, one short and one long reply: the long one does not fit the   *)
(* buffer of the task that expects an ACK.                                  *)
EXTENDS PlcUartClient

MCRequest == {"command", "query"}
MCReply   == {"ACK", "data"}
MCTooLong == {<<"command", "data">>}
=============================================================================
