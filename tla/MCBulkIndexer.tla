---------------------------- MODULE MCBulkIndexer ----------------------------
(* TLC instances of BulkIndexer. *)
EXTENDS BulkIndexer

CONSTANTS i1, i2, i3

\* Two items on one document, whose hash is negative, and one without an ID.
OneDocument == [i \in Items |-> IF i = i3 THEN NoDocument ELSE -1]

=============================================================================
