---------------------------- MODULE Permissions ----------------------------
(***************************************************************************)
(* The permission vocabulary of the client, the matrix of roles that the   *)
(* product ships with, and the views a holder of permissions may open      *)
(* (domains/auth/permissions.ts, roleRepository.ts).                       *)
(***************************************************************************)
EXTENDS Naturals, Sequences

Domains(verb, names) == {n \o "." \o verb : n \in names}
READ_ONLY_CORE ==
    Domains("read", {"students", "teachers", "classes", "schedule", "library", "progress", "instruments",
                     "learning", "rooms", "gallery", "branding"})
DEMO_ONLY_PERMISSIONS == {"demo.manage"}
PERMISSIONS ==
    READ_ONLY_CORE \union DEMO_ONLY_PERMISSIONS
        \union Domains("write", {"students", "teachers", "classes", "schedule", "library", "progress", "instruments",
                                 "learning", "rooms", "gallery", "branding"})
        \union {"attendance.read", "attendance.write", "finance.read", "finance.write", "finance.pay",
                "messages.read", "messages.write", "gallery.details", "reports.read", "settings.read",
                "settings.write", "users.read", "users.write", "roles.write"}

ROLES == {"administrator", "manager", "teacher", "staff", "accountant"}
rolePermissions ==
    [administrator |-> PERMISSIONS,
     manager |-> READ_ONLY_CORE
         \union Domains("write", {"students", "teachers", "classes", "schedule", "library", "progress", "learning",
                                  "rooms", "gallery", "instruments"})
         \union {"attendance.read", "attendance.write", "finance.read", "finance.pay", "messages.read",
                 "messages.write", "gallery.details", "reports.read", "settings.read", "users.read"},
     teacher |-> READ_ONLY_CORE \union Domains("write", {"progress", "learning"})
         \union {"attendance.read", "attendance.write", "messages.read", "messages.write"},
     staff |-> READ_ONLY_CORE \union Domains("write", {"students", "schedule"})
         \union {"attendance.read", "messages.read", "messages.write", "reports.read", "finance.pay", "gallery.details"},
     accountant |-> Domains("read", {"students", "classes", "instruments", "rooms", "branding"})
         \union {"finance.read", "finance.write", "finance.pay", "reports.read", "messages.read"}]

permissionsForComposition(permissions, demoCapable) ==
    IF demoCapable THEN permissions ELSE permissions \ DEMO_ONLY_PERMISSIONS

(* An edit of a role that may be saved: the matrix stays editable.         *)
validateMutant(role, permissions) == permissions \subseteq PERMISSIONS
validate(role, permissions) ==
    permissions \subseteq PERMISSIONS /\ (role = "administrator" => "roles.write" \in permissions)
sameAsDefault(role, permissions) == permissions = rolePermissions[role]

-----------------------------------------------------------------------------
(* What is asked for at the door of each view                              *)

viewPermissions ==
    [dashboard |-> "students.read", students |-> "students.read", teachers |-> "teachers.read",
     classes |-> "classes.read", schedule |-> "schedule.read", attendance |-> "attendance.read",
     compensation |-> "schedule.read", finance |-> "finance.read", reports |-> "reports.read",
     messages |-> "messages.read", library |-> "library.read", gallery |-> "gallery.read",
     settings |-> "settings.read", design_system |-> "settings.read"]
Views == DOMAIN viewPermissions
canAccessView(permissions, view) == viewPermissions[view] \in permissions
(* The first of these that opens; the dashboard even if none does.         *)
LandingOrder == <<"dashboard", "students", "schedule", "attendance", "finance", "messages", "library", "settings">>
defaultViewFor(permissions) ==
    LET opens == {i \in DOMAIN LandingOrder : canAccessView(permissions, LandingOrder[i])}
    IN  IF opens = {} THEN "dashboard" ELSE LandingOrder[CHOOSE i \in opens : \A j \in opens : i <= j]
=============================================================================
