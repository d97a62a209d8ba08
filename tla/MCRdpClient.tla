---------------------------- MODULE MCRdpClient ----------------------------
(***************************************************************************)
(* RdpClient on a small instance: two actors, one lifetime that can cover  *)
(* both, three requests, two slots and one tombstone, so that the slot     *)
(* limit, the tombstone limit and queues longer than one are all reached,  *)
(* and two slotless sends of the one that is resumed and interrupted,      *)
(* either of which may be refused.                                         *)
(***************************************************************************)
EXTENDS RdpClient
=============================================================================
