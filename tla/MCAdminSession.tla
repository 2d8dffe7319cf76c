--------------------------- MODULE MCAdminSession ---------------------------
(* Two handlers at a time; the one process of admin_tool makes a new call    *)
(* after giving one up, so its handlers overlap.                             *)
EXTENDS AdminSession, TLC

CONSTANTS k1, k2, c1, w1, w2, u1

Symmetric == Permutations({k1, k2}) \cup Permutations({w1, w2})
=============================================================================
