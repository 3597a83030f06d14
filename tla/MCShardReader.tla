--------------------------- MODULE MCShardReader ---------------------------
(* Instances of ShardReader for TLC. *)
EXTENDS ShardReader

\* From the oldest record, or from the second one, which is out of range until the first is
\* there and once the second has expired.
MCStarts == {0, 2}
============================================================================
