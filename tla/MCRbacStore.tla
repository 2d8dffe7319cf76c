---------------------------- MODULE MCRbacStore ----------------------------
(* Small instances of RbacStore for TLC.                                    *)
EXTENDS RbacStore, TLC

\* Codes, users and workers are interchangeable; ids are ordered numbers.
Symmetric == Permutations(AppCodes) \cup Permutations(Users) \cup Permutations(Threads)
============================================================================
