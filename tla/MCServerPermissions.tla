------------------------ MODULE MCServerPermissions ------------------------
(* Permissions for model checking: one that everyone has, and MANAGE.      *)
EXTENDS ServerPermissions
MCPermission == {"READ", "MANAGE"}
MCGrant == {{"MANAGE"}}
=============================================================================
