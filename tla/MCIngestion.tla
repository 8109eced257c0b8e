---------------------------- MODULE MCIngestion ----------------------------
(***************************************************************************)
(* A small instance of Ingestion.                                          *)
(***************************************************************************)
EXTENDS Ingestion, TLC

RequestSymmetry == Permutations(Requests)

\* One event dated by the server, one the client dated in the past, one that
\* has no path; one dated in the future together with one that carries Go's
\* zero time, as a client sends that leaves a time.Time field unset; one
\* without a path.
MixedPayloads ==
    {{[n |-> 1, path |-> TRUE,  stamp |-> Absent],
      [n |-> 2, path |-> TRUE,  stamp |-> 0 - 1],
      [n |-> 3, path |-> FALSE, stamp |-> Absent]},
     {[n |-> 1, path |-> TRUE,  stamp |-> 3],
      [n |-> 2, path |-> TRUE,  stamp |-> ZeroTime]},
     {[n |-> 1, path |-> FALSE, stamp |-> Absent]}}

BeforeTheClock == 0 - 100
=============================================================================
