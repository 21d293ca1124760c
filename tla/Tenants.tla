------------------------------ MODULE Tenants ------------------------------
(***************************************************************************)
(* Tenants, their roles and principals, and the subjects bound to them     *)
(* (tenancy/models.py, tenancy/identity.py, over the tables of             *)
(* core/migrations/001_baseline.sql).  Each command is one statement but   *)
(* for bind and unbind, which load the one row that holds all bindings,    *)
(* change it and save it, so that those of two processes can overlap.      *)
(***************************************************************************)
EXTENDS Integers, FiniteSets, Sequences

CONSTANTS Admins,         \* processes that bind and unbind
          Subjects,       \* whom they bind
          MaxRoles, MaxPrincipals, MaxDeletes, MaxBinds   \* bounds

VARIABLES tenants,      \* ids
          roles,        \* role id -> its tenant
          principals,   \* principal id -> [tenant, role, made]
          bindings,     \* the row of meta: subject -> principal id
          admin,        \* each process: [at, loaded, subject, pid]
          meant,        \* subject -> the principal last bound, as it was then
          usage         \* [made, deletes, binds, overlap]: ids given out, bounds, and whether two overlapped
tenantVars == <<tenants, roles, principals, bindings, admin, meant, usage>>

Set(f, x, y) == [z \in DOMAIN f \cup {x} |-> IF z = x THEN y ELSE f[z]]
Without(f, S) == [z \in DOMAIN f \ S |-> f[z]]
Empty == [x \in {} |-> 0]

(* Ids of tenants and roles are made of names, joined by underscores: two  *)
(* names that differ in case or in blanks make one id, and the role "b_c"  *)
(* of tenant "a" has the id of the role "c" of tenant "a_b".               *)
Names == {"A", "a", "A b"}
TenantId(name) == IF name = "A b" THEN <<"a", "b">> ELSE <<"a">>
Local == <<"local">>
RoleNames == {<<"c">>, <<"b", "c">>}
RoleId(tenant, name) == tenant \o name
(* Ids of principals are random.                                           *)
PrincipalId_OfTenant(tenant) == Len(tenant)
PrincipalId(tenant) == usage.made + 1

Resting == [at |-> "rest", loaded |-> Empty, subject |-> "", pid |-> 0, of |-> 0]
Init == /\ tenants = {Local} /\ roles = [r \in {RoleId(Local, <<"owner">>)} |-> Local]
        /\ principals = [p \in {0} |-> [tenant |-> Local, role |-> RoleId(Local, <<"owner">>), made |-> 0]]
        /\ bindings = Empty
        /\ admin = [a \in Admins |-> Resting] /\ meant = Empty
        /\ usage = [made |-> 0, deletes |-> 0, binds |-> 0, overlap |-> FALSE]

-----------------------------------------------------------------------------

(* A row whose id is there already is refused, and so is one that names a  *)
(* tenant or a role that is not; the role of another tenant is not.        *)
CreateTenant == \E name \in Names :
    /\ TenantId(name) \notin tenants
    /\ tenants' = tenants \cup {TenantId(name)}
    /\ UNCHANGED <<roles, principals, bindings, admin, meant, usage>>
CreateRole == \E t \in tenants \ {Local}, name \in RoleNames :
    /\ RoleId(t, name) \notin DOMAIN roles /\ Cardinality(DOMAIN roles) <= MaxRoles
    /\ roles' = Set(roles, RoleId(t, name), t)
    /\ UNCHANGED <<tenants, principals, bindings, admin, meant, usage>>
CreatePrincipal == \E t \in tenants \ {Local}, r \in DOMAIN roles :
    /\ usage.made < MaxPrincipals
    /\ principals' = Set(principals, PrincipalId(t), [tenant |-> t, role |-> r, made |-> usage.made + 1])
    /\ usage' = [usage EXCEPT !.made = @ + 1]
    /\ UNCHANGED <<tenants, roles, bindings, admin, meant>>
(* delete_tenant: the tables cascade; a principal left that holds a role   *)
(* of the tenant's makes the database refuse the whole transaction.        *)
Owned(f, t) == {x \in DOMAIN f : f[x].tenant = t}
RolesOf(t) == {r \in DOMAIN roles : roles[r] = t}
Held_Never(t) == {}
Held(t) == {p \in DOMAIN principals : principals[p].tenant # t /\ principals[p].role \in RolesOf(t)}
DeleteTenant == \E t \in tenants \ {Local} :
    /\ usage.deletes < MaxDeletes
    /\ usage' = [usage EXCEPT !.deletes = @ + 1]
    /\ IF Held(t) # {} THEN UNCHANGED <<tenants, roles, principals>>
       ELSE /\ tenants' = tenants \ {t}
            /\ roles' = Without(roles, RolesOf(t))
            /\ principals' = Without(principals, Owned(principals, t))
    /\ UNCHANGED <<bindings, admin, meant>>

(* bind and unbind: load, then save; nothing is checked about the id.      *)
Load(a) == \E s \in Subjects, pid \in (DOMAIN principals \ {0}) \cup {-1} :
    /\ admin[a].at = "rest" /\ usage.binds < MaxBinds
    /\ admin' = [admin EXCEPT ![a] = [at |-> "save", loaded |-> bindings, subject |-> s, pid |-> pid,
                                  of |-> IF pid = -1 THEN 0 ELSE principals[pid].made]]
    /\ usage' = [usage EXCEPT !.binds = @ + 1, !.overlap = @ \/ \E b \in Admins : admin[b].at = "save"]
    /\ UNCHANGED <<tenants, roles, principals, bindings, meant>>
Changed(f, s, pid) == IF pid = -1 THEN Without(f, {s}) ELSE Set(f, s, pid)
Save(a) == /\ admin[a].at = "save"
           /\ bindings' = Changed(admin[a].loaded, admin[a].subject, admin[a].pid)
           /\ meant' = IF admin[a].pid = -1 THEN Without(meant, {admin[a].subject})
                       ELSE Set(meant, admin[a].subject, [pid |-> admin[a].pid, made |-> admin[a].of])
           /\ admin' = [admin EXCEPT ![a] = Resting]
           /\ UNCHANGED <<tenants, roles, principals, usage>>

(* resolve, authenticate: the principal of a subject, if both are there.   *)
Resolve(s) == IF s \in DOMAIN bindings /\ bindings[s] \in DOMAIN principals THEN bindings[s] ELSE -1

Next == CreateTenant \/ CreateRole \/ CreatePrincipal \/ DeleteTenant
        \/ (\E a \in Admins : Load(a) \/ Save(a))

-----------------------------------------------------------------------------

(* Nothing is left of a tenant that was deleted and nothing of another     *)
(* goes with it: every row has its tenant, and every principal its role,   *)
(* whatever the roles it was given (001_baseline.sql:25-39, models.py:114). *)
RowsHaveTenants ==
    /\ \A r \in DOMAIN roles : roles[r] \in tenants
    /\ \A p \in DOMAIN principals : principals[p].tenant \in tenants /\ principals[p].role \in DOMAIN roles
(* Bindings made one at a time all last, and a subject is never taken for  *)
(* a principal made after it was bound: a tenant that is deleted and made  *)
(* again has none of its old subjects (identity.py:39-75).                 *)
SubjectsAsBound ==
    ~usage.overlap =>
        /\ bindings = [x \in DOMAIN meant |-> meant[x].pid]
        /\ \A x \in Subjects : Resolve(x) # -1 => principals[Resolve(x)].made = meant[x].made
=============================================================================
