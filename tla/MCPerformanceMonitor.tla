------------------------ MODULE MCPerformanceMonitor ------------------------
(* PerformanceMonitor with the values its configurations give.              *)
EXTENDS PerformanceMonitor
=============================================================================
