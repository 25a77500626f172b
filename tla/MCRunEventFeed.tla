---- MODULE MCRunEventFeed ----
(* The second of three events publishes versions; a page holds two. *)
EXTENDS RunEventFeed

MCPublishing == {2}
====
