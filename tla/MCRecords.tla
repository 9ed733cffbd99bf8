----------------------------- MODULE MCRecords -----------------------------
(***************************************************************************)
(* RecordExchange over every kind of record.                                *)
(***************************************************************************)
EXTENDS RecordExchange

AllKinds == DOMAIN Codecs
=============================================================================
