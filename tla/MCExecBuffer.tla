---------------------------- MODULE MCExecBuffer ----------------------------
(***************************************************************************)
(* Codes for model checking the executable buffer: pages of two words, a   *)
(* maximum of two pages, and codes that are empty, shorter than a page, a  *)
(* page that ends in a conditional branch, longer, and too long.           *)
(***************************************************************************)
EXTENDS ExecBuffer

CONSTANTS owner, runner

MCLength == [empty |-> 0, short |-> 1, page |-> 2, long |-> 3, huge |-> 5]
MCCodes  == DOMAIN MCLength
============================================================================
