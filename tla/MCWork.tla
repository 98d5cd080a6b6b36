------------------------------- MODULE MCWork -------------------------------
(* UvWork on small instances: requests that compete for a pool.             *)
EXTENDS UvWork, TLC
=============================================================================
