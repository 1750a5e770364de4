--------------------------- MODULE MCPlatformTools ---------------------------
(***************************************************************************)
(* A small cluster for PlatformTools: one runtime and jobs that refer to   *)
(* it or to others, the two default namespaces of the controller and one   *)
(* caller.  What a second caller could do to the cluster, the changes made *)
(* by others do already.                                                   *)
(***************************************************************************)
EXTENDS PlatformTools, TLC

CONSTANTS r1, j1, j2

MCNamespaces == <<"kubeflow", "kubeflow-system">>

Symmetry == Permutations({j1, j2})
=============================================================================
