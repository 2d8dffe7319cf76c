----------------------------- MODULE MCListing -----------------------------
(* Each of the four lists, of up to three rows in two seconds.  Pages of    *)
(* one and two rows and of the defaults, up to the sixth page: with 20 for  *)
(* the largest int32_t, (3 - 1) * 20 is negative and (4 - 1) * 20 is 18.    *)
EXTENDS Listing
AllLists == {"apps", "roleUsers", "userRoles", "auditLogs"}
=============================================================================
