------------------------------- MODULE Access -------------------------------
(***************************************************************************)
(* Who may do what: users and their tokens (AuthService, UserService), the *)
(* permissions and their assignment to roles (PermissionService), and the  *)
(* guard every request passes (CaslGuard).                                 *)
(***************************************************************************)
EXTENDS Naturals, Sequences, FiniteSets

CONSTANTS
    Ids,      \* ids of permissions; an id is never used again
    Users,    \* user names
    Handlers, \* requests that may be in progress at once
    Roles,    \* roles of users
    Words,    \* actions and subjects
    None,     \* nothing, a field the request leaves out
    Offices   \* the states to start from: [perm, grants, user, todo]

VARIABLES
    perm,    \* Permission: Ids -> <<action, subject>> or None
    past,    \* ids in use or used before
    grants,  \* RolePermission: [id, role, perm]
    issued,  \* ids of grants given out
    user,    \* User: Users -> [role, isActive] or None
    token,   \* the role in each user's token, or None
    hand,    \* handler -> the request it serves
    todo,    \* requests that may still come
    reports, \* assignments a handler reported as made or as already there
    removed  \* assignments that were taken back

vars == <<perm, past, grants, issued, user, token, hand, todo, reports, removed>>
tables == <<perm, past, grants, issued, user, token>>

Free == [op |-> "none"]
Busy(h) == hand[h] # Free
Pair(g) == <<g.role, g.perm>>

(* A permission is an action and a subject.                                *)
Pairs == [1..2 -> Words]
Grant == [id : Nat, role : Roles, perm : Ids]
Account == [role : Roles, isActive : BOOLEAN]

AccessTypeOK ==
    /\ perm \in [Ids -> Pairs \cup {None}] /\ user \in [Users -> Account \cup {None}]
    /\ \A g \in grants : g \in Grant /\ perm[g.perm] # None /\ g.id <= issued
    /\ \A f, g \in grants : f.id = g.id \/ Pair(f) = Pair(g) => f = g
    /\ \A i, j \in Ids : perm[i] # None /\ perm[i] = perm[j] => i = j
    /\ {i \in Ids : perm[i] # None} \subseteq past /\ past \subseteq Ids
    /\ \A u \in Users : user[u] = None => token[u] = None
    /\ \A h \in Handlers : Busy(h) => hand[h].at \in {"guard", "find", "same", "write"}

(* What an office starts with, and what its requests may name.             *)
OfUsers == {"hire", "edit", "fire"}
OfRoles == {"assign", "move", "unassign", "clear"}
Ops == {"bundle", "rename", "drop"} \cup OfRoles \cup OfUsers
Asked(q) ==
    /\ q.op \in Ops /\ q.by \in Users
    /\ q.op \in {"move", "assign", "clear", "hire", "edit"} => q.role \in Roles
    /\ q.op \in {"rename", "drop"} => q.id \in Ids
    /\ q.op \in OfUsers => q.id \in Users
    /\ q.op = "bundle" => q.list # <<>> /\ q.list \in Seq(Pairs)
    /\ q.op = "assign" => q.list # <<>> /\ q.list \in Seq(Ids)
    /\ q.op = "rename" => q.list # <<>> /\ q.list \in Seq([1..2 -> Words \cup {None}])
OfficesOK ==
    /\ None \notin Words \cup Pairs \cup Account
    /\ \A o \in Offices :
        /\ o.perm \in [DOMAIN o.perm -> Pairs] /\ DOMAIN o.perm \subseteq Ids
        /\ \A i, j \in DOMAIN o.perm : o.perm[i] = o.perm[j] => i = j
        /\ IsFiniteSet(o.grants)
        /\ \A g \in o.grants :
            g \in Grant /\ g.perm \in DOMAIN o.perm /\ g.id <= Cardinality(o.grants)
        /\ \A f, g \in o.grants : f.id = g.id \/ Pair(f) = Pair(g) => f = g
        /\ o.user \in [DOMAIN o.user -> Account] /\ DOMAIN o.user \subseteq Users
        /\ \A q \in o.todo : Asked(q)

Init ==
    \E o \in Offices :
        /\ perm = [i \in Ids |-> IF i \in DOMAIN o.perm THEN o.perm[i] ELSE None]
        /\ past = DOMAIN o.perm
        /\ grants = o.grants /\ issued = Cardinality(o.grants)
        /\ user = [u \in Users |-> IF u \in DOMAIN o.user THEN o.user[u] ELSE None]
        /\ token = [u \in Users |-> None]
        /\ hand = [h \in Handlers |-> Free]
        /\ todo = o.todo
        /\ reports = {} /\ removed = {}

Done(h) == hand' = [hand EXCEPT ![h] = Free]
Go(h, at) == hand' = [hand EXCEPT ![h].at = at]
Doing(h, op, at) == Busy(h) /\ hand[h].op = op /\ hand[h].at = at
(* The loop of a bundle or a bulk assignment goes on with the next entry.  *)
NextEntry(h) ==
    IF Len(hand[h].list) = 1 THEN Done(h)
    ELSE hand' = [hand EXCEPT ![h].at = "find", ![h].list = Tail(@)]

-----------------------------------------------------------------------------
(* login; the token keeps the role of that day until it expires.           *)
Login(u) ==
    /\ user[u] # None /\ user[u].isActive
    /\ token[u] # user[u].role
    /\ token' = [token EXCEPT ![u] = user[u].role]
    /\ UNCHANGED <<perm, past, grants, issued, user, hand, todo, reports, removed>>

Begin(h) ==
    /\ ~Busy(h)
    /\ \E q \in todo :
        /\ token[q.by] # None
        /\ hand' = [hand EXCEPT ![h] =
              [op |-> q.op, by |-> q.by, list |-> q.list, id |-> q.id, role |-> q.role,
               at |-> "guard"]]
        /\ todo' = todo \ {q}
    /\ UNCHANGED <<tables, reports, removed>>

NeedsOfUsers(op) ==
    CASE op = "hire" -> <<"create", "user">>
      [] op = "edit" -> <<"update", "user">>
      [] op = "fire" -> <<"delete", "user">>
Needs(op) ==
    CASE op = "bundle" -> <<"create", "permission">>
      [] op = "rename" -> <<"update", "permission">>
      [] op = "drop" -> <<"delete", "permission">>
      [] op = "assign" -> <<"create", "permission">>
      [] op = "move" -> <<"update", "permission">>
      [] op \in {"unassign", "clear"} -> <<"delete", "permission">>
      [] OTHER -> NeedsOfUsers(op)

(* createForUser and ability.can: "manage" is any action, "all" anything.  *)
Can(role, need) == \E g \in grants :
    /\ g.role = role
    /\ perm[g.perm][1] \in {need[1], "manage"}
    /\ perm[g.perm][2] \in {need[2], "all"}

Guard(h) ==
    /\ Busy(h) /\ hand[h].at = "guard"
    /\ IF Can(token[hand[h].by], Needs(hand[h].op))
       THEN Go(h, IF hand[h].op = "clear" THEN "write" ELSE "find") ELSE Done(h)
    /\ UNCHANGED <<tables, todo, reports, removed>>

-----------------------------------------------------------------------------
(* createPermission and createSubjectBundle: one pair after the other is   *)
(* looked for and created; a pair created meanwhile ends the loop.         *)
Exists(pair) == \E i \in Ids : perm[i] = pair
FindPair(h) ==
    /\ Doing(h, "bundle", "find")
    /\ IF Exists(Head(hand[h].list)) THEN NextEntry(h) ELSE Go(h, "write")
    /\ UNCHANGED <<tables, todo, reports, removed>>
CreatePermission(h) ==
    /\ Doing(h, "bundle", "write")
    /\ LET pair == Head(hand[h].list) IN
       IF Exists(pair) THEN Done(h) /\ UNCHANGED <<perm, past>>
       ELSE /\ \E i \in Ids \ past : perm' = [perm EXCEPT ![i] = pair] /\ past' = past \cup {i}
            /\ NextEntry(h)
    /\ UNCHANGED <<grants, issued, user, token, todo, reports, removed>>

(* updatePermission: only the given fields are written.                    *)
Renamed(old, new) == [k \in 1..2 |-> IF new[k] = None THEN old[k] ELSE new[k]]
FindPermission(h) ==
    /\ Busy(h) /\ hand[h].op \in {"rename", "drop"} /\ hand[h].at = "find"
    /\ LET now == perm[hand[h].id] IN
       IF \/ now = None
          \/ /\ hand[h].op = "rename" /\ Renamed(now, Head(hand[h].list)) # now
             /\ Exists(Renamed(now, Head(hand[h].list)))
       THEN Done(h) ELSE Go(h, "write")
    /\ UNCHANGED <<tables, todo, reports, removed>>
UpdatePermission(h) ==
    /\ Doing(h, "rename", "write")
    /\ Done(h)
    /\ LET i == hand[h].id
           pair == Renamed(perm[i], Head(hand[h].list)) IN
       perm' = IF perm[i] = None \/ \E j \in Ids \ {i} : perm[j] = pair THEN perm
               ELSE [perm EXCEPT ![i] = pair]
    /\ UNCHANGED <<past, grants, issued, user, token, todo, reports, removed>>

Take(gs) == grants' = grants \ gs /\ removed' = removed \cup {Pair(g) : g \in gs}

(* Mutant of DeletePermission: the roles that had it keep the assignment.  *)
DropOnly(h) ==
    /\ Doing(h, "drop", "write")
    /\ Done(h)
    /\ perm' = [perm EXCEPT ![hand[h].id] = None]
    /\ UNCHANGED <<past, grants, issued, user, token, todo, reports, removed>>
(* The rows of RolePermission go with it.                                  *)
DeletePermission(h) ==
    /\ Doing(h, "drop", "write")
    /\ Done(h)
    /\ perm' = [perm EXCEPT ![hand[h].id] = None]
    /\ Take({g \in grants : g.perm = hand[h].id})
    /\ UNCHANGED <<past, issued, user, token, todo, reports>>

-----------------------------------------------------------------------------
(* createRolePermission and bulkAssignRolePermissions: one entry after the *)
(* other; a failing insert ends the loop and leaves what was made.         *)
SkipOrGo(h, skip, at) == IF skip THEN NextEntry(h) ELSE Go(h, at)
Report(h) == reports' = reports \cup {<<hand[h].role, Head(hand[h].list)>>}

FindEntry(h) ==
    /\ Doing(h, "assign", "find")
    /\ SkipOrGo(h, perm[Head(hand[h].list)] = None, "same")
    /\ UNCHANGED <<tables, todo, reports, removed>>

(* Mutant: an assignment to any role will do.                              *)
HasAny(role, i) == \E g \in grants : g.perm = i
Has(role, i) == \E g \in grants : g.role = role /\ g.perm = i
FindAssigned(h) ==
    /\ Doing(h, "assign", "same")
    /\ LET same == Has(hand[h].role, Head(hand[h].list)) IN
        /\ SkipOrGo(h, same, "write")
        /\ IF same THEN Report(h) ELSE UNCHANGED reports
    /\ UNCHANGED <<tables, todo, removed>>
CreateRolePermission(h) ==
    /\ Doing(h, "assign", "write")
    /\ LET i == Head(hand[h].list) IN
       IF perm[i] = None \/ \E g \in grants : g.role = hand[h].role /\ g.perm = i
       THEN Done(h) /\ UNCHANGED <<grants, issued, reports>>
       ELSE /\ grants' = grants \cup {[id |-> issued + 1, role |-> hand[h].role, perm |-> i]}
            /\ issued' = issued + 1
            /\ NextEntry(h) /\ Report(h)
    /\ UNCHANGED <<perm, past, user, token, todo, removed>>

(* updateRolePermission, to another role; deleteRolePermission.            *)
FindAssignment(h) ==
    /\ Busy(h) /\ hand[h].op \in {"move", "unassign"} /\ hand[h].at = "find"
    /\ IF \E g \in grants : g.id = hand[h].id /\
              (hand[h].op = "move" => ~Has(hand[h].role, g.perm) \/ g.role = hand[h].role)
       THEN Go(h, "write") ELSE Done(h)
    /\ UNCHANGED <<tables, todo, reports, removed>>
UpdateRolePermission(h) ==
    /\ Doing(h, "move", "write")
    /\ Done(h)
    /\ LET gs == {g \in grants : g.id = hand[h].id /\ ~Has(hand[h].role, g.perm)} IN
        /\ grants' = (grants \ gs) \cup {[g EXCEPT !.role = hand[h].role] : g \in gs}
        /\ removed' = removed \cup {Pair(g) : g \in gs}
    /\ UNCHANGED <<perm, past, issued, user, token, todo, reports>>
DeleteRolePermission(h) ==
    /\ Doing(h, "unassign", "write")
    /\ Done(h)
    /\ Take({g \in grants : g.id = hand[h].id})
    /\ UNCHANGED <<perm, past, issued, user, token, todo, reports>>
ClearRolePermissions(h) ==
    /\ Doing(h, "clear", "write")
    /\ Done(h)
    /\ Take({g \in grants : g.role = hand[h].role})
    /\ UNCHANGED <<perm, past, issued, user, token, todo, reports>>

-----------------------------------------------------------------------------
(* createUser, updateUser (its role), deactivateUser; the user is id.      *)
FindUser(h) ==
    /\ Busy(h) /\ hand[h].op \in {"hire", "edit", "fire"} /\ hand[h].at = "find"
    /\ IF (hand[h].op = "hire") = (user[hand[h].id] = None) THEN Go(h, "write") ELSE Done(h)
    /\ UNCHANGED <<tables, todo, reports, removed>>
WriteUser(h) ==
    /\ Busy(h) /\ hand[h].op \in {"hire", "edit", "fire"} /\ hand[h].at = "write"
    /\ Done(h)
    /\ LET u == hand[h].id IN
       user' = IF hand[h].op = "hire" /\ user[u] # None THEN user
               ELSE [user EXCEPT ![u] =
                   [role |-> IF hand[h].op = "fire" THEN user[u].role ELSE hand[h].role,
                    isActive |-> IF hand[h].op = "edit" THEN user[u].isActive
                                 ELSE hand[h].op = "hire"]]
    /\ UNCHANGED <<perm, past, grants, issued, token, todo, reports, removed>>

Next ==
    \/ \E u \in Users : Login(u)
    \/ \E h \in Handlers :
        \/ Begin(h) \/ Guard(h)
        \/ FindPair(h) \/ CreatePermission(h)
        \/ FindPermission(h) \/ UpdatePermission(h) \/ DeletePermission(h)
        \/ FindEntry(h) \/ FindAssigned(h) \/ CreateRolePermission(h)
        \/ FindAssignment(h) \/ UpdateRolePermission(h) \/ DeleteRolePermission(h)
        \/ ClearRolePermissions(h) \/ FindUser(h) \/ WriteUser(h)

Spec == Init /\ [][Next]_vars

-----------------------------------------------------------------------------
(* What an assignment reports as created or "Already assigned" the role    *)
(* has, unless somebody took it back: the loop is not one transaction, and *)
(* others create, move and delete between its reads and its writes.        *)
ReportsHold == \A r \in reports : r \in {Pair(g) : g \in grants} \cup removed
=============================================================================
