--------------------------- MODULE MCRoutedVenues ---------------------------
(* Small ack latencies on both sides of the thresholds. *)
EXTENDS RoutedVenues

FastAndSlow == {1, 9}
FastOnly == {1}
=============================================================================
