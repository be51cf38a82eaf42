--------------------------- MODULE MCRoutingJobs ---------------------------
(***************************************************************************)
(* RoutingJobs for TLC: three jobs over two scopes, so that two jobs of a  *)
(* scope can be queued together while the other scope is busy.             *)
(***************************************************************************)
EXTENDS RoutingJobs
=============================================================================
