--------------------------- MODULE MCAuthService ---------------------------
(* Small instances of AuthService for TLC.                                  *)
EXTENDS AuthService, TLC

AllOps == {"createApp", "deleteApp", "enable", "disable", "createRole", "deleteRole",
           "createPerm", "deletePerm", "grant", "revoke", "bind", "unbind"}

\* All but deletePermission, which leaves entries behind as deleteApp does.
MostOps == AllOps \ {"deletePerm"}

\* The operations that see to the cache: all but deleteApp and deletePermission.
LoudOps == AllOps \ {"deleteApp", "deletePerm"}

\* The ways to gain access, one to lose it by a handler that drops the entry,
\* and the two that leave the entry behind.
RacingOps == {"createApp", "deleteApp", "createRole", "createPerm", "deletePerm",
              "grant", "revoke", "bind"}

\* Users, workers and roles are interchangeable.
Symmetric == Permutations(Users) \cup Permutations(Checkers) \cup Permutations(RoleKeys)
             \cup Permutations(Threads)
============================================================================
