----------------------------- MODULE RebootCapMC -----------------------------
(***************************************************************************)
(* RebootCap on a small instance.  A copy of the row that its holder will  *)
(* not use again, because it is saved or because the call is over, does    *)
(* not tell two states apart: the next thing its holder does is to read    *)
(* the row.                                                                *)
(***************************************************************************)
EXTENDS RebootCap

\* The VIEW of the run: the state without the copies nobody will save.
CopiesInUse ==
  <<row, pc, [h \in Holding |-> copy[h]], clicks, rebooted, sincePoll, late, undone>>
=============================================================================
