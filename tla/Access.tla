------------------------------- MODULE Access -------------------------------
(***************************************************************************)
(* Who may do what in one page of the client: the saved role matrix and    *)
(* the accounts, the projection of the matrix that every control asks      *)
(* while it renders (useRolePolicySync), the session and the permissions   *)
(* it was issued with, and the settings panel that edits both.  Reads and  *)
(* writes are answered late or never; others write meanwhile.  In the      *)
(* demonstration the records are the page's own and answer at once.        *)
(***************************************************************************)
EXTENDS Permissions, FiniteSets

CONSTANTS
    Members,     \* ids of accounts
    Chief,        \* the account the academy starts with
    EditedRoles,  \* the roles whose matrix is edited
    Toggles,      \* the permissions that are edited
    Unset,        \* in place of permissions: none are stored, or projected
    Nobody,
    MaxAccess     \* bound: writes, sign-ins and reloads

ASSUME AccessAssumption ==
    /\ Chief \in Members /\ Nobody \notin [user : Members, role : ROLES, issued : SUBSET PERMISSIONS]
    /\ EditedRoles \subseteq ROLES /\ {"administrator", "manager"} \subseteq EditedRoles
    /\ Toggles \subseteq PERMISSIONS /\ Unset \notin SUBSET PERMISSIONS /\ MaxAccess \in Nat

VARIABLES
    served,     \* the build: records on a server, or in the page
    saved,      \* for each role: has it a row, and which permissions the row holds
    account,    \* role and status of the accounts that exist
    session,    \* user, role and issued permissions, or Nobody
    policy,     \* the projection, per role
    sync,       \* its read: under way, and the answer on its way back
    matrix,     \* the panel's own read of the roles
    dialog,     \* the role matrix that is edited, or none
    write,      \* the write that waits for its answer, or none
    unseen,     \* history: the reads that another's write, or a lost answer, came after
    acts

accessVars == <<served, saved, account, session, policy, sync, matrix, dialog, write, unseen, acts>>

-----------------------------------------------------------------------------
(* The matrix as it is stored, as it is listed and as it is projected      *)

NoRow == [row |-> FALSE, permissions |-> Unset]
NoPolicy == [r \in EditedRoles |-> Unset]
effective(r) == IF saved[r].permissions # Unset THEN saved[r].permissions ELSE rolePermissions[r]
permissionsForRole(r) == IF policy[r] # Unset THEN policy[r] ELSE rolePermissions[r]
(* The demonstration reads a row without permissions through the           *)
(* projection it is read for.                                              *)
LocalRecord(r) == IF saved[r].row /\ saved[r].permissions = Unset THEN permissionsForRole(r) ELSE effective(r)
RoleList == [r \in EditedRoles |-> IF served THEN effective(r) ELSE LocalRecord(r)]

HasSession == session # Nobody
(* An edited role wins over what the session was issued with.              *)
Permissions == IF policy[session.role] # Unset THEN policy[session.role] ELSE session.issued
Can(permission) == HasSession /\ permission \in Permissions

NoRead == [is |-> "none", answer |-> NoPolicy]
Asked == [is |-> "asked", answer |-> NoPolicy]
ClosedPanel == [is |-> "closed", answer |-> NoPolicy, rows |-> NoPolicy]
NoDialog == [role |-> "none", draft |-> {}, touched |-> {}]
NoWrite == [kind |-> "none"]
AllReads == {"sync", "matrix"}
ActsOn == acts < MaxAccess /\ acts' = acts + 1

AccessInit ==
    /\ served \in BOOLEAN /\ saved = [r \in EditedRoles |-> NoRow]
    /\ account = [u \in Members |-> [role |-> IF u = Chief THEN "administrator" ELSE "manager", status |-> "active"]]
    /\ session = Nobody /\ policy = NoPolicy /\ sync = NoRead /\ matrix = ClosedPanel
    /\ dialog = NoDialog /\ write = NoWrite /\ unseen = {} /\ acts = 0

-----------------------------------------------------------------------------
(* Sessions                                                                *)

Works(u) == u \in DOMAIN account /\ account[u].status = "active"
IssuedTo(u) == IF served THEN effective(account[u].role) ELSE permissionsForRole(account[u].role)
(* The projection of the session before is dropped, the shell of the new   *)
(* one reads.                                                              *)
BeginSession(u) ==
    /\ session' = [user |-> u, role |-> account[u].role, issued |-> IssuedTo(u)]
    /\ policy' = NoPolicy /\ sync' = Asked
DropSession == session' = Nobody /\ policy' = NoPolicy /\ sync' = NoRead
LeavePage == matrix' = ClosedPanel /\ dialog' = NoDialog /\ write' = NoWrite

login(u) ==
    /\ ~HasSession /\ Works(u) /\ ActsOn
    /\ BeginSession(u) /\ LeavePage /\ UNCHANGED <<served, saved, account, unseen>>
logout ==
    /\ HasSession /\ DropSession /\ LeavePage
    /\ UNCHANGED <<served, saved, account, unseen, acts>>
(* The page is loaded anew: a stored session is restored, or refused.      *)
Restored(u) == [user |-> u, role |-> account[u].role,
                issued |-> IF served THEN effective(account[u].role) ELSE rolePermissions[account[u].role]]
restore ==
    /\ HasSession /\ ActsOn /\ LeavePage /\ policy' = NoPolicy
    /\ IF Works(session.user) THEN session' = Restored(session.user) /\ sync' = Asked
       ELSE session' = Nobody /\ sync' = NoRead
    /\ UNCHANGED <<served, saved, account, unseen>>

-----------------------------------------------------------------------------
(* The two reads of the roles.  A newer read aborts the one before.        *)

(* The server answers; an account that may not be here is signed out.      *)
ServeSync ==
    /\ sync.is = "asked"
    /\ IF served /\ ~Works(session.user)
       THEN DropSession /\ LeavePage /\ UNCHANGED unseen
       ELSE /\ sync' = [is |-> "answered", answer |-> RoleList] /\ unseen' = unseen \ {"sync"}
            /\ UNCHANGED <<session, policy, matrix, dialog, write>>
    /\ UNCHANGED <<served, saved, account, acts>>
setRolePolicies ==
    /\ sync.is = "answered" /\ policy' = sync.answer /\ sync' = [sync EXCEPT !.is = "read"]
    /\ UNCHANGED <<served, saved, account, session, matrix, dialog, write, unseen, acts>>
(* The projection stays as it was.                                         *)
SyncFails ==
    /\ served /\ sync.is \in {"asked", "answered"} /\ sync' = [sync EXCEPT !.is = "failed"]
    /\ UNCHANGED <<served, saved, account, session, policy, matrix, dialog, write, unseen, acts>>

OpenPanel ==
    /\ matrix.is = "closed" /\ Can("settings.read") /\ matrix' = [matrix EXCEPT !.is = "asked"]
    /\ UNCHANGED <<served, saved, account, session, policy, sync, dialog, write, unseen, acts>>
ServeMatrix ==
    /\ matrix.is = "asked" /\ matrix' = [matrix EXCEPT !.is = "answered", !.answer = RoleList]
    /\ unseen' = unseen \ {"matrix"}
    /\ UNCHANGED <<served, saved, account, session, policy, sync, dialog, write, acts>>
(* New rows of the list put the dialog's draft back to them.               *)
Redrafted(rows) == IF dialog.role = "none" THEN NoDialog ELSE [dialog EXCEPT !.draft = rows[dialog.role], !.touched = {}]
GotMatrix ==
    /\ matrix.is = "answered"
    /\ matrix' = [matrix EXCEPT !.is = "read", !.rows = matrix.answer] /\ dialog' = Redrafted(matrix.answer)
    /\ UNCHANGED <<served, saved, account, session, policy, sync, write, unseen, acts>>
(* bumpDataVersion: both reads start over.                                 *)
RereadMutant(rows) ==
    sync' = (IF sync.is = "answered" THEN sync ELSE Asked) /\ matrix' = [matrix EXCEPT !.is = IF @ = "closed" THEN @ ELSE "asked", !.rows = rows]
Reread(rows) == sync' = Asked /\ matrix' = [matrix EXCEPT !.is = IF @ = "closed" THEN @ ELSE "asked", !.rows = rows]
(* What the write answered stands in the list meanwhile.                   *)
ShownAfter(w) ==
    CASE w.kind = "update" -> [matrix.rows EXCEPT ![w.role] = w.permissions]
      [] w.kind = "reset" -> [matrix.rows EXCEPT ![w.role] = rolePermissions[w.role]]
      [] OTHER -> matrix.rows

-----------------------------------------------------------------------------
(* The role matrix dialog                                                  *)

openMatrix(r) ==
    /\ matrix.is # "closed" /\ matrix.rows[r] # Unset /\ dialog.role = "none" /\ Can("roles.write")
    /\ dialog' = [role |-> r, draft |-> matrix.rows[r], touched |-> {}]
    /\ UNCHANGED <<served, saved, account, session, policy, sync, matrix, write, unseen, acts>>
Saving == write.kind \in {"update", "reset"}
toggle(p) ==
    /\ dialog.role # "none" /\ p \in permissionsForComposition(Toggles, ~served) /\ p \notin dialog.touched
    /\ dialog' = [dialog EXCEPT !.draft = IF p \in @ THEN @ \ {p} ELSE @ \union {p}, !.touched = @ \union {p}]
    /\ UNCHANGED <<served, saved, account, session, policy, sync, matrix, write, unseen, acts>>
closeMatrix ==
    /\ dialog.role # "none" /\ ~Saving /\ dialog' = NoDialog
    /\ UNCHANGED <<served, saved, account, session, policy, sync, matrix, write, unseen, acts>>

(* What a write leaves: the server deletes the row of a reset and stores   *)
(* an edit; the demonstration keeps a row and stores an edit that differs  *)
(* from the shipped matrix.                                                *)
Stored(r, permissions) ==
    IF served THEN [row |-> TRUE, permissions |-> permissions]
    ELSE [row |-> TRUE, permissions |-> IF sameAsDefault(r, permissions) THEN Unset ELSE permissions]
AfterReset(r) == IF served THEN NoRow ELSE [row |-> TRUE, permissions |-> Unset]

AfterWrite(w) ==
    [saved EXCEPT ![w.role] = IF w.kind = "reset" THEN AfterReset(w.role) ELSE Stored(w.role, w.permissions)]
AccountsAfter(w) ==
    IF w.field = "gone" THEN [v \in DOMAIN account \ {w.user} |-> account[v]] ELSE [account EXCEPT ![w.user][w.field] = w.to]
Written(w) ==
    IF w.kind = "account" THEN account' = AccountsAfter(w) /\ UNCHANGED saved ELSE saved' = AfterWrite(w) /\ UNCHANGED account

(* In the page a write is done when it is asked for; a server answers.     *)
AskAccess(w) ==
    /\ write.kind = "none" /\ ActsOn
    /\ IF served THEN write' = w /\ UNCHANGED <<saved, account, sync, matrix, dialog>>
       ELSE /\ Written(w) /\ dialog' = IF w.kind = "account" THEN dialog ELSE NoDialog
            /\ Reread(ShownAfter(w)) /\ UNCHANGED write
    /\ UNCHANGED <<served, session, policy, unseen>>
Write(kind, role, permissions) ==
    [kind |-> kind, role |-> role, permissions |-> permissions, is |-> "asked"]
save ==
    /\ dialog.role # "none" /\ validate(dialog.role, dialog.draft)
    /\ AskAccess(Write("update", dialog.role, dialog.draft))
resetToDefaults == dialog.role # "none" /\ AskAccess(Write("reset", dialog.role, Unset))

-----------------------------------------------------------------------------
(* The accounts of the panel                                               *)

AccountWrite(u, field, to) == [kind |-> "account", user |-> u, field |-> field, to |-> to, is |-> "asked"]
MayWriteUsers(u) == matrix.is # "closed" /\ dialog.role = "none" /\ Can("users.write") /\ u \in DOMAIN account
changeRole(u, r) == MayWriteUsers(u) /\ AskAccess(AccountWrite(u, "role", r))
(* The list spares one's own account; the form of an account does not.     *)
toggleStatus(u, form) ==
    /\ MayWriteUsers(u) /\ (form \/ u # session.user)
    /\ AskAccess(AccountWrite(u, "status", IF account[u].status = "active" THEN "disabled" ELSE "active"))
confirmDelete(u) == MayWriteUsers(u) /\ u # session.user /\ AskAccess(AccountWrite(u, "gone", "gone"))

(* The server's own rules: the permission as stored, and nobody writes an  *)
(* administrator, or their own account, or makes an administrator.         *)
Allowed(u, permission) == Works(u) /\ permission \in effective(account[u].role)
Privileged(actor, w) ==
    w.user = actor \/ account[w.user].role = "administrator" \/ w.to = "administrator"
Accepted(w) ==
    IF w.kind = "account" THEN Allowed(session.user, "users.write") /\ w.user \in DOMAIN account /\ ~Privileged(session.user, w)
    ELSE Allowed(session.user, "roles.write")
ServeWrite ==
    /\ write.kind # "none" /\ write.is = "asked"
    /\ IF Accepted(write) THEN Written(write) /\ write' = [write EXCEPT !.is = "done"]
       ELSE write' = [write EXCEPT !.is = "refused"] /\ UNCHANGED <<saved, account>>
    /\ UNCHANGED <<served, session, policy, sync, matrix, dialog, unseen, acts>>
(* The answer: the dialog closes, the list shows it, the data is read      *)
(* again.  A refusal keeps the dialog open.                                *)
Answered ==
    /\ write.kind # "none" /\ write.is \in {"done", "refused"} /\ write' = NoWrite
    /\ IF write.is = "refused" THEN UNCHANGED <<sync, matrix, dialog>>
       ELSE Reread(ShownAfter(write)) /\ dialog' = IF write.kind = "account" THEN dialog ELSE NoDialog
    /\ UNCHANGED <<served, saved, account, session, policy, unseen, acts>>
(* The answer is lost; nobody knows what was written.                      *)
AnswerLost ==
    /\ write.kind # "none" /\ write.is # "asked" /\ write' = NoWrite /\ unseen' = AllReads
    /\ UNCHANGED <<served, saved, account, session, policy, sync, matrix, dialog, acts>>
(* Another window or client, under the same rules.                         *)
OthersWrite ==
    /\ ActsOn /\ unseen' = AllReads
    /\ \/ \E r \in EditedRoles, p \in Toggles :
             LET edited == IF p \in effective(r) THEN effective(r) \ {p} ELSE effective(r) \union {p}
             IN  validate(r, edited) /\ saved' = [saved EXCEPT ![r] = Stored(r, edited)] /\ UNCHANGED account
       \/ \E u \in DOMAIN account \ {Chief}, s \in {"active", "disabled"} :
             account' = [account EXCEPT ![u].status = s] /\ account' # account /\ UNCHANGED saved
    /\ UNCHANGED <<served, session, policy, sync, matrix, dialog, write>>

AccessNext ==
    \/ \E u \in Members : login(u) \/ confirmDelete(u) \/ (\E r \in EditedRoles : changeRole(u, r)) \/ \E f \in BOOLEAN : toggleStatus(u, f)
    \/ logout \/ restore \/ ServeSync \/ setRolePolicies \/ SyncFails
    \/ OpenPanel \/ ServeMatrix \/ GotMatrix \/ closeMatrix \/ save \/ resetToDefaults
    \/ \E r \in EditedRoles : openMatrix(r)
    \/ \E p \in Toggles : toggle(p)
    \/ ServeWrite \/ Answered \/ AnswerLost \/ OthersWrite
AccessSpec == AccessInit /\ [][AccessNext]_accessVars

AccessTypeOK ==
    /\ served \in BOOLEAN /\ unseen \subseteq AllReads /\ acts \in 0 .. MaxAccess
    /\ \A r \in EditedRoles : /\ saved[r].permissions # Unset => saved[r].row /\ saved[r].permissions \subseteq PERMISSIONS
                              /\ policy[r] # Unset => policy[r] \subseteq PERMISSIONS
    /\ DOMAIN account \subseteq Members /\ \A u \in DOMAIN account : account[u] \in [role : EditedRoles, status : {"active", "disabled"}]
    /\ HasSession => session.role \in EditedRoles /\ session.issued \subseteq PERMISSIONS
    /\ sync.is \in {"none", "asked", "answered", "read", "failed"} /\ matrix.is \in {"closed", "asked", "answered", "read"}
    /\ dialog.role \in EditedRoles \union {"none"} /\ dialog.draft \subseteq PERMISSIONS /\ dialog.touched \subseteq Toggles

-----------------------------------------------------------------------------
(* Once everything asked for was answered, and nobody else wrote since,    *)
(* the controls follow the matrix that is saved, with no sign-out between, *)
(* in whatever order the answers came ("the edit must reach the people     *)
(* already signed in").  The exception is a row of the demonstration       *)
(* without permissions, which it reads through its own projection.         *)
ThroughProjection(r) == ~served /\ saved[r].row /\ saved[r].permissions = Unset
MatrixIsLive ==
    HasSession /\ sync.is = "read" /\ write.kind = "none" /\ "sync" \notin unseen =>
        Permissions = effective(session.role) \/ ThroughProjection(session.role)

(* No user's matrix is left to the next session of the page.               *)
ProjectionEndsWithSession == ~HasSession => policy = NoPolicy /\ sync = NoRead /\ dialog = NoDialog

(* Somebody can still edit the matrix, where a server refuses to write     *)
(* administrators: "the one lockout the panel refuses".                    *)
EditorsRemain == served => \E u \in DOMAIN account : Allowed(u, "roles.write")

(* What the dialog would save is the saved matrix with the permissions     *)
(* touched since, no other: nobody's edit that this page was told of is    *)
(* taken back by the way.                                                  *)
DraftsAreEdits ==
    dialog.role # "none" /\ matrix.is = "read" /\ write.kind = "none" /\ "matrix" \notin unseen /\ ~ThroughProjection(dialog.role) =>
        \A p \in PERMISSIONS \ dialog.touched : p \in dialog.draft <=> p \in effective(dialog.role)

AccessHolds == MatrixIsLive /\ ProjectionEndsWithSession /\ EditorsRemain /\ DraftsAreEdits
=============================================================================
