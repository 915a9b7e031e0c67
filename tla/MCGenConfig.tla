---------------------------- MODULE MCGenConfig ----------------------------
(***************************************************************************)
(* Requests with one or two captures whose fields are at and around their  *)
(* limits.                                                                 *)
(***************************************************************************)
EXTENDS GenConfig

Captures ==
  [burst : {0, 1, 5, 6, Missing}, fps : {0, 1, MaxRate, MaxRate + 1},
   ipg : {0, MaxRate, MaxRate + 1, Missing, Other},
   cln_port : {1023, 65535, 65536, Missing, Other},
   cln_ips : Nets \cup {BadNet}, srv_ips : Nets]

Plain == CHOOSE c \in Captures : Valid(c)

\* Each capture alone, and before and after one in which nothing is wrong.
AllDocuments == {<<>>} \cup UNION {{<<c>>, <<c, Plain>>, <<Plain, c>>} : c \in Captures}
=============================================================================
