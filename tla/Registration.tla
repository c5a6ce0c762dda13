----------------------------- MODULE Registration -----------------------------
(***************************************************************************)
(* The script that registers the demonstration in ThunderID                 *)
(* (src/setup/register-thunder.sh), a dozen calls of Thunder's admin API,   *)
(* any of which may fail or be answered in vain, and each of which may be    *)
(* the last: the script stops at the first failure, or is stopped, and can   *)
(* be run again, with the same client secrets or with others.                *)
(*                                                                           *)
(* What is known of Thunder is what the script expects of it: creating what  *)
(* is there already is a 409, except for an application, which is some other *)
(* error, and for an assignment, which is a 500.                             *)
(***************************************************************************)
CONSTANTS Actions,    \* read, list and write, each with its scope
          Clients,    \* the coordinator and the broker
          Secrets,    \* their secrets may be set to
          None

\* Where the script can be, but for create_app, where the client is the label.
Labels == {"stopped", "done", "login", "server", "findServer", "resource",
           "findResource", "actions", "role", "findRole", "permissions", "apps",
           "assignments", "assign", "write", "fill"}

ASSUME RegistrationAssumption == None \notin Secrets /\ Clients \cap Labels = {}

VARIABLES server,     \* Thunder: the resource server exists
          resource,   \* Thunder: it has the records resource
          actions,    \* Thunder: the actions of the resource
          role,       \* Thunder: the role exists
          granted,    \* Thunder: the scopes it carries
          secretOf,   \* Thunder: the secret of each client's application, if any
          assigned,   \* Thunder: the clients that have the role
          envFile,    \* the secrets in .env.demo, None where it has none
          pc,         \* where the script is
          secret,     \* the secrets this run was given
          todo,       \* what is left of the loop it is in
          existing,   \* in create_app: the application was found
          roster,     \* ASSIGNED, the clients found to have the role
          calm        \* from now on no call fails and nobody stops the script

thunder == <<server, resource, actions, role, granted, secretOf, assigned>>
locals == <<todo, existing, roster>>
vars == <<thunder, envFile, pc, secret, locals, calm>>

Init ==
    /\ server = FALSE /\ resource = FALSE /\ actions = {}
    /\ role = FALSE /\ granted = {}
    /\ secretOf = [c \in Clients |-> None]
    /\ assigned = {}
    /\ envFile = [c \in Clients |-> None]
    /\ pc = "stopped"
    /\ secret \in [Clients -> Secrets]
    /\ todo = {} /\ existing = FALSE /\ roster = {}
    /\ calm = FALSE

\* The script goes on at a label, or stops there: the call's answer was lost, or
\* somebody stopped the script.
Then(label) == pc' \in {label} \cup IF calm THEN {} ELSE {"stopped"}
Continue(from, label) ==
    /\ pc = from
    /\ Then(label)
    /\ UNCHANGED <<envFile, secret, calm>>

Running == pc \notin {"stopped", "done"}

Run ==
    /\ ~Running
    /\ pc' = "login"
    /\ secret' \in [Clients -> Secrets]
    /\ todo' = {} /\ existing' = FALSE /\ roster' = {}
    /\ UNCHANGED <<thunder, envFile, calm>>

\* A call fails, and Thunder did nothing.
Fail ==
    /\ Running /\ ~calm
    /\ pc' = "stopped"
    /\ UNCHANGED <<thunder, envFile, secret, locals, calm>>

\* The admin token, the organization unit and the login flow.
Login ==
    /\ Continue("login", "server")
    /\ UNCHANGED <<thunder, locals>>

\* POST, and a look-up if the answer is 409.
CreateServer ==
    /\ Continue("server", IF server THEN "findServer" ELSE "resource")
    /\ server' = TRUE
    /\ UNCHANGED <<resource, actions, role, granted, secretOf, assigned, locals>>

CreateResource ==
    /\ Continue("resource", IF resource THEN "findResource" ELSE "actions")
    /\ resource' = TRUE
    /\ todo' = Actions
    /\ UNCHANGED <<server, actions, role, granted, secretOf, assigned, existing, roster>>

CreateAction ==
    /\ \E a \in todo : actions' = actions \cup {a} /\ todo' = todo \ {a}
    /\ Continue("actions", IF todo' = {} THEN "role" ELSE "actions")
    /\ UNCHANGED <<server, resource, role, granted, secretOf, assigned, existing, roster>>

CreateRole ==
    /\ Continue("role", IF role THEN "findRole" ELSE "permissions")
    /\ role' = TRUE
    /\ UNCHANGED <<server, resource, actions, granted, secretOf, assigned, locals>>

Find ==
    /\ \/ Continue("findServer", "resource") /\ server
       \/ Continue("findResource", "actions") /\ resource
       \/ Continue("findRole", "permissions") /\ role
    /\ UNCHANGED <<thunder, locals>>

\* PUT: Thunder refuses permissions that no action stands for.
AttachPermissions ==
    /\ Continue("permissions", "apps")
    /\ Actions \subseteq actions
    /\ granted' = Actions
    /\ todo' = Clients
    /\ UNCHANGED <<server, resource, actions, role, secretOf, assigned, existing, roster>>

\* create_app: an answer other than the list of applications, an error body for
\* instance, looks like a list without this one.
FindApp(c) ==
    /\ c \in todo
    /\ Continue("apps", c)
    /\ \/ existing' = (secretOf[c] # None)
       \/ ~calm /\ existing' = FALSE
    /\ UNCHANGED <<thunder, todo, roster>>

\* Mutant: an application that is there is deleted and created anew.
RecreateApp(c) ==
    /\ Continue(c, IF todo = {c} THEN "assignments" ELSE "apps")
    /\ secretOf' = [secretOf EXCEPT ![c] = secret[c]]
    /\ assigned' = assigned \ {c}
    /\ todo' = todo \ {c}
    /\ UNCHANGED <<server, resource, actions, role, granted, existing, roster>>

\* PUT if it was found, else POST.
SaveApp(c) ==
    /\ existing \/ secretOf[c] = None
    /\ Continue(c, IF todo = {c} THEN "assignments" ELSE "apps")
    /\ secretOf' = [secretOf EXCEPT ![c] = secret[c]]
    /\ todo' = todo \ {c}
    /\ UNCHANGED <<server, resource, actions, role, granted, assigned, existing, roster>>

CreateAppFails(c) ==
    /\ pc = c /\ ~existing /\ secretOf[c] # None
    /\ pc' = "stopped"
    /\ UNCHANGED <<thunder, envFile, secret, locals, calm>>

\* Mutant: the assignments are not looked at first.
ListNoAssignments ==
    /\ Continue("assignments", "assign")
    /\ roster' = {}
    /\ todo' = Clients
    /\ UNCHANGED <<thunder, existing>>

\* Mutant: the wrong field of the assignments is listed.
ListAssignmentTypes ==
    /\ Continue("assignments", "assign")
    /\ roster' = {"app"}
    /\ todo' = Clients
    /\ UNCHANGED <<thunder, existing>>

\* Here too an error body looks like an empty list.
ListAssignments ==
    /\ Continue("assignments", "assign")
    /\ \/ roster' = assigned
       \/ ~calm /\ roster' = {}
    /\ todo' = Clients
    /\ UNCHANGED <<thunder, existing>>

\* Mutant: one assignment on the list is taken for all of them.
AssignIfNoneIs(c) ==
    /\ c \in todo
    /\ roster = {} => c \notin assigned
    /\ Continue("assign", IF todo = {c} THEN "write" ELSE "assign")
    /\ assigned' = IF roster = {} THEN assigned \cup {c} ELSE assigned
    /\ todo' = todo \ {c}
    /\ UNCHANGED <<server, resource, actions, role, granted, secretOf, existing, roster>>

\* Added unless it is on the list.
Assign(c) ==
    /\ c \in todo
    /\ c \in roster \/ c \notin assigned
    /\ Continue("assign", IF todo = {c} THEN "write" ELSE "assign")
    /\ assigned' = IF c \in roster THEN assigned ELSE assigned \cup {c}
    /\ todo' = todo \ {c}
    /\ UNCHANGED <<server, resource, actions, role, granted, secretOf, existing, roster>>

AssignFails(c) ==
    /\ pc = "assign" /\ c \in todo /\ c \notin roster /\ c \in assigned
    /\ pc' = "stopped"
    /\ UNCHANGED <<thunder, envFile, secret, locals, calm>>

\* cat > "$ENV_FILE": the shell empties the file, and then cat writes it.
TruncateEnvFile ==
    /\ pc = "write"
    /\ envFile' = [c \in Clients |-> None]
    /\ Then("fill")
    /\ UNCHANGED <<thunder, secret, locals, calm>>

FillEnvFile ==
    /\ pc = "fill"
    /\ envFile' = secret
    /\ Then("done")
    /\ UNCHANGED <<thunder, secret, locals, calm>>

\* The disk is full: only some of it is written.  A secret cut in the middle has
\* no closing quote and counts as none.
FillShort ==
    /\ pc = "fill" /\ ~calm
    /\ \E written \in SUBSET Clients :
          envFile' = [c \in Clients |-> IF c \in written THEN secret[c] ELSE None]
    /\ pc' = "stopped"
    /\ UNCHANGED <<thunder, secret, locals, calm>>

Step ==
    \/ Login \/ CreateServer \/ CreateResource \/ CreateAction \/ CreateRole \/ Find
    \/ AttachPermissions \/ ListAssignments
    \/ TruncateEnvFile \/ FillEnvFile \/ FillShort
    \/ \E c \in Clients : FindApp(c) \/ SaveApp(c) \/ CreateAppFails(c)
                          \/ Assign(c) \/ AssignFails(c)

CalmDown == ~calm /\ calm' = TRUE /\ UNCHANGED <<thunder, envFile, pc, secret, locals>>

Next == Run \/ Fail \/ Step \/ CalmDown

\* The script does not pause, and a run that stopped is followed by another.
Spec == Init /\ [][Next]_vars /\ WF_vars(Step) /\ WF_vars(pc = "stopped" /\ Run)

-----------------------------------------------------------------------------
TypeOK ==
    /\ {server, resource, role, existing, calm} \subseteq BOOLEAN
    /\ actions \subseteq Actions /\ granted \subseteq Actions
    /\ secretOf \in [Clients -> Secrets \cup {None}]
    /\ envFile \in [Clients -> Secrets \cup {None}]
    /\ secret \in [Clients -> Secrets]
    /\ assigned \subseteq Clients /\ roster \subseteq Clients
    /\ todo \subseteq Actions \cup Clients
    /\ pc \in Labels \cup Clients

\* Everything the demonstration needs of Thunder is there.
Registered ==
    /\ server /\ resource /\ role
    /\ actions = Actions /\ granted = Actions
    /\ assigned = Clients
    /\ \A c \in Clients : secretOf[c] # None

\* The scripts that source the file know the clients' secrets, too.
Works == Registered /\ envFile = secretOf

\* A run that ends with "wrote .env.demo" has left a registration that works,
\* whatever earlier runs that stopped somewhere had left behind.
DoneMeansWorking == pc = "done" => Works /\ secretOf = secret

\* register-thunder.sh:19: running it again is safe.  With the same secrets no
\* step of a run, not even of one that stops, takes anything of what is registered
\* from Thunder or changes a secret there: whoever works with it goes on working.
\* The file is left alone until the run has seen to all of that.  Then it is
\* emptied, and a run that stops before it is written leaves it without some of
\* the secrets; but it never gets one that is not Thunder's.
RerunIsSafe ==
    [][/\ Registered /\ secret' = secretOf => Registered' /\ secretOf' = secretOf
       /\ envFile' # envFile =>
             /\ Registered /\ secretOf = secret
             /\ \A c \in Clients : envFile'[c] \in {None, secretOf[c]}]_vars

\* From wherever runs have stopped, once calls no longer fail the script comes to
\* its end: it recognises all that is there already.
RerunCompletes == calm ~> pc = "done"
===============================================================================
