---------------------------- MODULE MCSharechain ----------------------------
(***************************************************************************)
(* Small instances of Sharechain, and its refinement of ShareLedger.       *)
(***************************************************************************)
EXTENDS Sharechain

Ledger == INSTANCE ShareLedger WITH tip <- bestTip

(***************************************************************************)
(* As long as shares arrive at most a window below the highest tip, the    *)
(* pruning store with its incremental sums is indistinguishable from the   *)
(* unpruned ledger: it accepts the same shares and names the same tip, the *)
(* first seen of the heaviest.                                             *)
(***************************************************************************)
ImplementsLedger == Ledger!Spec
=============================================================================
