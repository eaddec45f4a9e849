---------------------------- MODULE MCBenchMain -----------------------------
(* Small instance: a counter of three states, a buffer of twelve characters *)
(* for the eleven lines of record_bench and up to four of benchmark_test.  *)
EXTENDS BenchMain

MCBuilds == {"SysTick", "DWT"}
MCLineSizes == {0, 1, 3}
=============================================================================
