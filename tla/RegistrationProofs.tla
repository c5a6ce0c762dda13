-------------------------- MODULE RegistrationProofs --------------------------
(* Proofs about Registration for any actions, clients and secrets: what every   *)
(* earlier run left in Thunder, the steps of the present one suffice.           *)
EXTENDS Registration, TLAPS

\* Where a run is once a call of it has been answered.
ServerDone == (Labels \ {"stopped", "login", "server"}) \cup Clients
ResourceDone == ServerDone \ {"findServer", "resource"}
ActionsDone == ResourceDone \ {"findResource", "actions"}
RoleDone == ActionsDone \ {"role"}
PermissionsDone == RoleDone \ {"findRole", "permissions"}
AppsDone == {"assignments", "assign", "write", "fill", "done"}
AssignmentsDone == {"write", "fill", "done"}

\* The parts of the registration that this run has created or found.
Prepared ==
    /\ pc \in ServerDone => server
    /\ pc \in ResourceDone \cup {"findResource"} => resource
    /\ pc \in RoleDone => role
    /\ pc \in PermissionsDone => granted = Actions

\* What the loops have dealt with, and what they have left.
Loops ==
    /\ pc \in {"findResource", "actions"} =>
          todo \subseteq Actions /\ Actions \subseteq actions \cup todo
    /\ pc \in ActionsDone => Actions \subseteq actions
    /\ pc \in {"apps"} \cup Clients =>
          todo \subseteq Clients /\ \A c \in Clients \ todo : secretOf[c] = secret[c]
    /\ pc \in AppsDone => secretOf = secret
    /\ pc = "assign" => todo \subseteq Clients /\ Clients \subseteq assigned \cup todo
    /\ pc \in AssignmentsDone => assigned = Clients

IInv ==
    /\ TypeOK
    /\ Prepared
    /\ Loops
    /\ roster \subseteq assigned
    /\ pc = "done" => envFile = secret

LEMMA Goes ==
    ASSUME NEW from, NEW label, Continue(from, label)
    PROVE  pc = from /\ pc' \in {label, "stopped"} /\ UNCHANGED <<envFile, secret, calm>>
BY DEF Continue, Then

LEMMA InitIInv == Init => IInv
BY RegistrationAssumption
   DEF Init, IInv, TypeOK, Labels, Prepared, Loops, ServerDone, ResourceDone,
       ActionsDone, RoleDone, PermissionsDone, AppsDone, AssignmentsDone

LEMMA StepIInv == IInv /\ [Next]_vars => IInv'
<1> SUFFICES ASSUME IInv, [Next]_vars PROVE IInv'
    OBVIOUS
<1> USE RegistrationAssumption
        DEF IInv, TypeOK, Labels, Prepared, Loops, ServerDone, ResourceDone, ActionsDone,
            RoleDone, PermissionsDone, AppsDone, AssignmentsDone, thunder, locals
<1>1. CASE Run
      BY <1>1 DEF Run
<1>2. CASE Fail
      BY <1>2 DEF Fail
<1>3. CASE Login
  <2>1. pc = "login" /\ pc' \in {"server", "stopped"} /\ UNCHANGED <<envFile, secret, calm>>
        BY <1>3, Goes DEF Login
  <2> QED BY <1>3, <2>1 DEF Login
<1>4. CASE CreateServer
  <2>1. pc' \in {"findServer", "resource", "stopped"} /\ UNCHANGED <<envFile, secret, calm>>
        BY <1>4, Goes DEF CreateServer
  <2> QED BY <1>4, <2>1 DEF CreateServer
<1>5. CASE CreateResource
  <2>1. /\ pc = "resource" /\ pc' \in {"findResource", "actions", "stopped"}
        /\ UNCHANGED <<envFile, secret, calm>>
        BY <1>5, Goes DEF CreateResource
  <2> QED BY <1>5, <2>1 DEF CreateResource
<1>6. CASE CreateAction
  <2>1. /\ pc = "actions" /\ pc' \in {"role", "actions", "stopped"}
        /\ pc' = "role" => todo' = {}
        /\ UNCHANGED <<envFile, secret, calm>>
        BY <1>6 DEF CreateAction, Continue, Then
  <2> QED BY <1>6, <2>1 DEF CreateAction
<1>7. CASE CreateRole
  <2>1. /\ pc = "role" /\ pc' \in {"findRole", "permissions", "stopped"}
        /\ UNCHANGED <<envFile, secret, calm>>
        BY <1>7, Goes DEF CreateRole
  <2> QED BY <1>7, <2>1 DEF CreateRole
<1>8. CASE Find
  <2>1. /\ \/ pc = "findServer" /\ pc' \in {"resource", "stopped"}
           \/ pc = "findResource" /\ pc' \in {"actions", "stopped"}
           \/ pc = "findRole" /\ pc' \in {"permissions", "stopped"}
        /\ UNCHANGED <<envFile, secret, calm>>
        BY <1>8, Goes DEF Find
  <2> QED BY <1>8, <2>1 DEF Find
<1>9. CASE AttachPermissions
  <2>1. /\ pc = "permissions" /\ pc' \in {"apps", "stopped"}
        /\ UNCHANGED <<envFile, secret, calm>>
        BY <1>9, Goes DEF AttachPermissions
  <2> QED BY <1>9, <2>1 DEF AttachPermissions
<1>10. ASSUME NEW c \in Clients, FindApp(c) PROVE IInv'
  <2>1. pc = "apps" /\ pc' \in {c, "stopped"} /\ UNCHANGED <<envFile, secret, calm>>
        BY <1>10, Goes DEF FindApp
  <2>2. existing' \in BOOLEAN
        BY <1>10 DEF FindApp
  <2> QED BY <1>10, <2>1, <2>2 DEF FindApp
<1>11. ASSUME NEW c \in Clients, SaveApp(c) PROVE IInv'
  <2>1. /\ pc = c /\ pc' \in {"assignments", "apps", "stopped"}
        /\ pc' = "assignments" => todo = {c}
        /\ UNCHANGED <<envFile, secret, calm>>
        BY <1>11 DEF SaveApp, Continue, Then
  <2> QED BY <1>11, <2>1 DEF SaveApp
<1>12. ASSUME NEW c \in Clients, CreateAppFails(c) \/ AssignFails(c) PROVE IInv'
      BY <1>12 DEF CreateAppFails, AssignFails
<1>13. CASE ListAssignments
  <2>1. /\ pc = "assignments" /\ pc' \in {"assign", "stopped"}
        /\ UNCHANGED <<envFile, secret, calm>>
        BY <1>13, Goes DEF ListAssignments
  <2> QED BY <1>13, <2>1 DEF ListAssignments
<1>14. ASSUME NEW c \in Clients, Assign(c) PROVE IInv'
  <2>1. /\ pc = "assign" /\ pc' \in {"write", "assign", "stopped"}
        /\ pc' = "write" => todo = {c}
        /\ UNCHANGED <<envFile, secret, calm>>
        BY <1>14 DEF Assign, Continue, Then
  <2>2. assigned' = assigned \cup {c}
        BY <1>14 DEF Assign
  <2> QED BY <1>14, <2>1, <2>2 DEF Assign
<1>15. CASE TruncateEnvFile \/ FillEnvFile \/ FillShort
  <2>1. /\ pc \in {"write", "fill"} /\ pc' \in {"fill", "done", "stopped"}
        /\ pc' = "done" => envFile' = secret
        /\ UNCHANGED <<thunder, secret, locals, calm>>
        BY <1>15 DEF TruncateEnvFile, FillEnvFile, FillShort, Then
  <2>2. envFile' \in [Clients -> Secrets \cup {None}]
        BY <1>15 DEF TruncateEnvFile, FillEnvFile, FillShort
  <2> QED BY <2>1, <2>2
<1>16. CASE CalmDown
      BY <1>16 DEF CalmDown
<1>17. CASE UNCHANGED vars
      BY <1>17 DEF vars
<1> QED BY <1>1, <1>2, <1>3, <1>4, <1>5, <1>6, <1>7, <1>8, <1>9, <1>10, <1>11, <1>12,
           <1>13, <1>14, <1>15, <1>16, <1>17 DEF Next, Step

LEMMA Invariance == Spec => []IInv
BY InitIInv, StepIInv, PTL DEF Spec

\* Registration is well typed.
THEOREM RegistrationTypeOK == Spec => []TypeOK
<1>1. IInv => TypeOK
      BY DEF IInv
<1> QED BY <1>1, Invariance, PTL

\* register-thunder.sh: "wrote .env.demo" is said only of a registration that is
\* complete and has the secrets of this run.
THEOREM DoneRegistrationsWork == Spec => []DoneMeansWorking
<1>1. IInv => DoneMeansWorking
      BY RegistrationAssumption
         DEF IInv, TypeOK, Prepared, Loops, DoneMeansWorking, Works, Registered, Labels, ServerDone,
             ResourceDone, ActionsDone, RoleDone, PermissionsDone, AppsDone, AssignmentsDone
<1> QED BY <1>1, Invariance, PTL

\* A run that comes to the file has registered everything, with its own secrets.
LEMMA FileComesLast ==
    ASSUME IInv, pc \in {"write", "fill"}
    PROVE  Registered /\ secretOf = secret
BY RegistrationAssumption
   DEF IInv, TypeOK, Prepared, Loops, Registered, Labels, ServerDone, ResourceDone,
       ActionsDone, RoleDone, PermissionsDone, AppsDone, AssignmentsDone

\* With the secrets it has no step takes anything from a complete registration.
LEMMA RegisteredStays ==
    ASSUME IInv, Next, Registered, secret' = secretOf
    PROVE  Registered' /\ secretOf' = secretOf
<1> USE DEF Registered, IInv, TypeOK, thunder, locals, Continue
<1>1. CASE Run \/ Fail \/ CalmDown
      BY <1>1 DEF Run, Fail, CalmDown
<1>2. CASE Login \/ CreateServer \/ CreateResource \/ CreateRole \/ Find
           \/ AttachPermissions \/ ListAssignments
      BY <1>2 DEF Login, CreateServer, CreateResource, CreateRole, Find,
         AttachPermissions, ListAssignments
<1>3. CASE CreateAction
  <2>1. todo \subseteq Actions
        BY <1>3 DEF Loops, CreateAction
  <2> QED BY <1>3, <2>1 DEF CreateAction
<1>4. ASSUME NEW c \in Clients, FindApp(c) \/ CreateAppFails(c) \/ AssignFails(c)
      PROVE  Registered' /\ secretOf' = secretOf
      BY <1>4 DEF FindApp, CreateAppFails, AssignFails
<1>5. ASSUME NEW c \in Clients, SaveApp(c) PROVE Registered' /\ secretOf' = secretOf
  <2>1. secretOf' = secretOf
        BY <1>5 DEF SaveApp
  <2> QED BY <1>5, <2>1 DEF SaveApp
<1>6. ASSUME NEW c \in Clients, Assign(c) PROVE Registered' /\ secretOf' = secretOf
      BY <1>6 DEF Assign
<1>7. CASE TruncateEnvFile \/ FillEnvFile \/ FillShort
      BY <1>7 DEF TruncateEnvFile, FillEnvFile, FillShort
<1> QED BY <1>1, <1>2, <1>3, <1>4, <1>5, <1>6, <1>7 DEF Next, Step

\* The file changes when all is registered, and to nothing but Thunder's secrets.
LEMMA FileIsTouchedLast ==
    ASSUME IInv, Next, envFile' # envFile
    PROVE  /\ Registered /\ secretOf = secret
           /\ \A c \in Clients : envFile'[c] \in {None, secretOf[c]}
<1>1. TruncateEnvFile \/ FillEnvFile \/ FillShort
      BY DEF Next, Step, Run, Fail, CalmDown, Login, CreateServer, CreateResource,
         CreateAction, CreateRole, Find, AttachPermissions, ListAssignments, FindApp,
         SaveApp, CreateAppFails, Assign, AssignFails, Continue
<1>2. Registered /\ secretOf = secret
      BY <1>1, FileComesLast DEF TruncateEnvFile, FillEnvFile, FillShort
<1>3. \A c \in Clients : envFile'[c] \in {None, secret[c]}
      BY <1>1 DEF TruncateEnvFile, FillEnvFile, FillShort
<1> QED BY <1>2, <1>3

\* register-thunder.sh:19: whatever runs stop and wherever, a rerun takes nothing
\* from Thunder, touches the file last and writes no wrong secret into it.
THEOREM RerunsAreSafe == Spec => RerunIsSafe
<1>1. IInv /\ [Next]_vars =>
        [/\ Registered /\ secret' = secretOf => Registered' /\ secretOf' = secretOf
         /\ envFile' # envFile =>
               /\ Registered /\ secretOf = secret
               /\ \A c \in Clients : envFile'[c] \in {None, secretOf[c]}]_vars
      BY RegisteredStays, FileIsTouchedLast
<1> QED BY <1>1, Invariance, PTL DEF Spec, RerunIsSafe
===============================================================================
