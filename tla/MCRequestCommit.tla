---------------------------- MODULE MCRequestCommit ----------------------------
(* The small instances of MCFulfilment, for RequestCommit.                    *)
EXTENDS RequestCommit, MCFulfilment
=============================================================================
