---------------------------- MODULE MCCollector ----------------------------
(* Instance of Collector.                                                  *)
EXTENDS Collector
=============================================================================
