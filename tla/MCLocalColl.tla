---------------------------- MODULE MCLocalColl ----------------------------
(* Model-checking instance of LocalColl: four threads (the scenario of    *)
(* spec.md 5), two communicator lifetimes, each issuing alltoallv,        *)
(* alltoall and allgather once.                                           *)
EXTENDS LocalColl

MC_N == 4
MC_Rounds == 2
MC_Calls == <<"alltoallv", "alltoall", "allgather">>

\* comm_create directly followed by comm_destroy
MC_NoCalls == <<>>

=============================================================================
