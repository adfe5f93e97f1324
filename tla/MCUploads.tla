----------------------------- MODULE MCUploads -----------------------------
(* Uploads on a small instance.  Requests, and names, are interchangeable. *)
EXTENDS Uploads, TLC

Symmetric == Permutations(Uploads) \union Permutations(Names)
=============================================================================
