---------------------------- MODULE MCFeedPoller ----------------------------
(* Two lanes of one feed whose page shows two of three items; the ring holds *)
(* one event, so that it is full when two items are new.                     *)
EXTENDS FeedPoller
CONSTANTS l1, l2
=============================================================================
