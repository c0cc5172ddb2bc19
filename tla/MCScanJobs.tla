---------------------------- MODULE MCScanJobs ----------------------------
(* Instances of the scan queue for TLC. *)
EXTENDS ScanJobs, TLC

(* The processes and users are interchangeable: sound for safety runs. *)
Symmetry == Permutations(Workers) \cup Permutations(Clients) \cup Permutations(Users)

(* The state without its history variables: no guard reads them and the    *)
(* life cycle does not mention them, so its run need not tell them apart.  *)
View == <<content, audit, job, vlock, jlock, admins, pc, wk, rq>>
=============================================================================
