---------------------- MODULE MCCurlHandleContainer ----------------------
(* Instances of CurlHandleContainer for TLC. *)
EXTENDS CurlHandleContainer

CONSTANTS t1, t2, t3, t4

FourThreads == {t1, t2, t3, t4}
============================================================================
