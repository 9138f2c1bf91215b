------------------------------ MODULE MCAccess -------------------------------
(* Five callers under the built-in role mapping with one role added (a grant   *)
(* of a single permission and a misspelt one): an administrator, an editor, a  *)
(* viewer, an operator and one whose only role the mapping does not know.      *)
EXTENDS Access

CONSTANTS admin, editor, viewer, operator, stranger

MCCallers == {admin, editor, viewer, operator, stranger}
MCRolesOf == (admin :> {"lightbridge-admin"}) @@ (editor :> {"lightbridge-editor"}) @@
             (viewer :> {"lightbridge-viewer", "offline_access"}) @@
             (operator :> {"operator"}) @@ (stranger :> {"offline_access"})
MCRolePermissions == default_role_permissions @@
                     ("operator" :> {<<"project", "update">>, <<"budget", "red">>})
MCDefaultGrants == {<<"budget", "self-refill">>}
=============================================================================
