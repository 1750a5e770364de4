----------------------------- MODULE MCJobWatch -----------------------------
(***************************************************************************)
(* One caller who watches a job with two pods, waiting for one status or   *)
(* for several, under either name, for up to two polls.                    *)
(***************************************************************************)
EXTENDS JobWatch

MCWanted == {{}, {"Complete"}, {"Succeeded"}, {"Running", "Failed"}}
=============================================================================
