----------------------------- MODULE MCFetcher -----------------------------
(* Instances of Fetcher.                                                       *)
EXTENDS Fetcher
=============================================================================
