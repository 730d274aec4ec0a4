------------------------------ MODULE Identity ------------------------------
(***************************************************************************)
(* Users, roles, tokens and settings (server/auth/mod.rs,                  *)
(* server/auth/backend.rs, server/api/auth.rs, users.rs, roles.rs,         *)
(* settings.rs, server/config/settings.rs).                                *)
(*                                                                         *)
(* A user record is [roles, pw, secret, by]; passwords and secrets are     *)
(* named by the request that made them, a hash by its password.  A token   *)
(* is [user, glob, secret]: it is signed with a global and a user's secret. *)
(* Every instance keeps the records it looked up until they expire, the    *)
(* global secrets and the settings until it reads them again.              *)
(***************************************************************************)
EXTENDS Server

CONSTANT Fields   \* of the settings

\* Requests about one user.
UserKinds == {"create_user", "update_user", "set_password", "change_password", "revoke", "delete_user"}

Admins == {u \in Users : is_admin(kv.users[u])}

-----------------------------------------------------------------------------
(* The caches.                                                             *)

\* What is not cached is looked up and cached afterwards, whatever was
\* invalidated in between.
resolve_user_cached(r) ==
    /\ At(r, "start") /\ Kind(r) # "rotate" /\ ~CachedUser(r)
    /\ Keep(r, "lookup", [user |-> kv.users[As(r)], role |-> kv.role])
    /\ UNCHANGED <<kv, mem, risk>> /\ Aside
resolve_user_and_roles_cached(r) ==
    /\ At(r, "start") /\ CachedUser(r) /\ ~Resolved(r)
    /\ Keep(r, "lookup", [user |-> Inst(r).users[As(r)], role |-> kv.role])
    /\ UNCHANGED <<kv, mem, risk>> /\ Aside
put_cached_user(r) ==
    /\ At(r, "lookup")
    /\ LET g == reqs[r].got
           roles == IF NeedsRole(r, g.user) THEN Put(Inst(r).roles, Role, g.role) ELSE Inst(r).roles
       IN /\ mem' = [mem EXCEPT ![Where(r)].users = Put(@, As(r), g.user), ![Where(r)].roles = roles]
          /\ reqs' = [reqs EXCEPT ![r].pc = "go", ![r].who = g, ![r].got = None]
    /\ UNCHANGED <<kv, risk>> /\ Aside

\* The time to live of an entry ends.
expire(i) ==
    /\ "ttl" \in parts
    /\ \/ \E u \in DOMAIN mem[i].users : mem' = [mem EXCEPT ![i].users = Drop(@, u)]
       \/ \E u \in DOMAIN mem[i].verified : mem' = [mem EXCEPT ![i].verified = Drop(@, u)]
       \/ \E x \in DOMAIN mem[i].roles : mem' = [mem EXCEPT ![i].roles = Drop(@, x)]
    /\ UNCHANGED <<kv, reqs, risk>> /\ Aside

\* A request that its kind does not let pass.
Allowed(r) ==
    \/ Kind(r) \in {"login", "use", "rotate"}
    \/ Kind(r) \in OwnKinds /\ As(r) = On(r)
    \/ require_admin(r)
    \/ Kind(r) \in PermKinds /\ Who(r).role = "grants"
denied(r) ==
    /\ Resolved(r) /\ ~Allowed(r)
    /\ Reply(r, "denied")
    /\ UNCHANGED <<kv, mem, risk>> /\ Aside

-----------------------------------------------------------------------------
(* Passwords and tokens.                                                   *)

\* A password that was verified against the same hash is not verified again.
verify_password(password, hash) == password = hash
\* Mutant: whatever the hash is now.
cache_hit_any_hash(r, hash) ==
    LET v == Inst(r).verified IN As(r) \in DOMAIN v /\ v[As(r)].pw = To(r)
cache_hit(r, hash) ==
    LET v == Inst(r).verified IN As(r) \in DOMAIN v /\ v[As(r)] = [hash |-> hash, pw |-> To(r)]
authenticate(r) ==
    LET u == Who(r).user IN u # None /\ (cache_hit(r, u.pw) \/ verify_password(To(r), u.pw))
create_user_token(r, u, secret) == [user |-> u, glob |-> Inst(r).jwt.cur, secret |-> secret]
login(r) ==
    /\ Asks(r, "login")
    /\ IF authenticate(r)
       THEN /\ mem' = [mem EXCEPT ![Where(r)].verified = Put(@, As(r), [hash |-> Who(r).user.pw, pw |-> To(r)])]
            /\ reqs' = [reqs EXCEPT ![r] = Answered(r, "ok", create_user_token(r, As(r), Who(r).user.secret))]
       ELSE UNCHANGED mem /\ Reply(r, "denied")
    /\ UNCHANGED <<kv, risk>> /\ Aside

\* A token is valid under the current or the previous global secret.
try_validate_token(t, jwt, u) == u # None /\ t.secret = u.secret /\ t.glob \in {jwt.cur, jwt.prev}
resolve_identity(r) ==
    /\ Asks(r, "use") /\ At(To(r), "done")
    /\ Reply(r, IF Done(To(r)) /\ try_validate_token(reqs[To(r)].got, Inst(r).jwt, Who(r).user) THEN "ok" ELSE "denied")
    /\ UNCHANGED <<kv, mem, risk>> /\ Aside

-----------------------------------------------------------------------------
(* Users.                                                                  *)

create_user(r) ==
    /\ Asks(r, "create_user") /\ require_admin(r)
    /\ IF kv.users[On(r)] # None THEN Reply(r, "conflict") ELSE Keep(r, "put_user", None)
    /\ UNCHANGED <<kv, mem, risk>> /\ Aside

\* The others read the record, whose owner may change the password if he knows it,
update_user(r) ==
    /\ Kind(r) \in {"update_user", "set_password", "change_password", "revoke"}
    /\ Asks(r, Kind(r)) /\ Allowed(r)
    /\ IF kv.users[On(r)] = None THEN Reply(r, "not_found")
       ELSE IF Kind(r) = "change_password" /\ As(r) = On(r) /\ ~verify_password(To(r), kv.users[On(r)].pw)
       THEN Reply(r, "denied")
       ELSE Keep(r, "put_user", kv.users[On(r)])
    /\ UNCHANGED <<kv, mem, risk>> /\ Aside

\* and write it back: with other roles, a password and a secret, or a secret.
Changed(r, u) ==
    CASE Kind(r) = "create_user" -> [roles |-> To(r), pw |-> r, secret |-> r, by |-> r]
      [] Kind(r) = "update_user" -> [u EXCEPT !.roles = To(r), !.by = r]
      [] Kind(r) \in {"set_password", "change_password"} -> [u EXCEPT !.pw = r, !.secret = r, !.by = r]
      [] Kind(r) = "revoke" -> [u EXCEPT !.secret = r, !.by = r]
Announced == [create_user |-> "created", update_user |-> "updated", set_password |-> "updated"]
put_user(r) ==
    /\ At(r, "put_user")
    /\ kv' = [kv EXCEPT !.users[On(r)] = Changed(r, reqs[r].got)]
    /\ Risk((IF kv.users[On(r)] # reqs[r].got THEN {"user_race"} ELSE {})
            \cup IF is_admin(kv.users[On(r)]) /\ ~is_admin(Changed(r, reqs[r].got)) THEN {"demoted"} ELSE {})
    /\ IF Kind(r) \in DOMAIN Announced THEN Written(r, Announced[Kind(r)], On(r)) ELSE Goto(r, "forget")
    /\ UNCHANGED mem /\ Aside

\* Of these nothing is published; who changed his own password gets a token.
forget(r) ==
    /\ At(r, "forget")
    /\ mem' = [mem EXCEPT ![Where(r)] = invalidate_user(@, On(r))]
    /\ reqs' = [reqs EXCEPT ![r] = Answered(r, "ok", IF Kind(r) = "change_password" THEN create_user_token(r, On(r), r) ELSE None)]
    /\ UNCHANGED <<kv, risk>> /\ Aside

\* The last admin is not deleted: the admins are counted before.
\* Mutant: off by one.
may_delete_last(u) == is_admin(kv.users[u]) => Cardinality(Admins) >= 1
may_delete(u) == is_admin(kv.users[u]) => Cardinality(Admins) > 1
delete_user(r) ==
    /\ \/ /\ Asks(r, "delete_user") /\ require_admin(r)
          /\ IF may_delete(On(r)) THEN Keep(r, "delete_user", Admins) ELSE Reply(r, "conflict")
          /\ UNCHANGED <<kv, risk>>
       \/ /\ At(r, "delete_user")
          /\ Risk(IF Admins # reqs[r].got THEN {"user_race"} ELSE {})
          /\ IF kv.users[On(r)] = None THEN Reply(r, "not_found") /\ UNCHANGED kv
             ELSE kv' = [kv EXCEPT !.users[On(r)] = None] /\ Written(r, "deleted", On(r))
    /\ UNCHANGED mem /\ Aside

-----------------------------------------------------------------------------
(* Roles.                                                                  *)

create_role(r) ==
    /\ Asks(r, "create_role") /\ require_admin(r)
    /\ IF kv.role # None THEN Reply(r, "conflict") ELSE Goto(r, "put_role")
    /\ UNCHANGED <<kv, mem, risk>> /\ Aside
update_role(r) ==
    /\ Asks(r, "update_role") /\ require_admin(r)
    /\ IF kv.role = None THEN Reply(r, "not_found") ELSE Goto(r, "put_role")
    /\ UNCHANGED <<kv, mem, risk>> /\ Aside
put_role(r) ==
    /\ At(r, "put_role")
    /\ kv' = [kv EXCEPT !.role = To(r)]
    /\ Goto(r, "forget_role")
    /\ UNCHANGED <<mem, risk>> /\ Aside
delete_role(r) ==
    /\ Asks(r, "delete_role") /\ require_admin(r)
    /\ IF On(r) = "admin" THEN Reply(r, "conflict") /\ UNCHANGED kv
       ELSE IF kv.role = None THEN Reply(r, "not_found") /\ UNCHANGED kv
       ELSE Goto(r, "forget_role") /\ kv' = [kv EXCEPT !.role = None]
    /\ UNCHANGED <<mem, risk>> /\ Aside
invalidate_role(r) ==
    /\ At(r, "forget_role")
    /\ mem' = [mem EXCEPT ![Where(r)].roles = Drop(@, Role)]
    /\ Reply(r, "ok")
    /\ UNCHANGED <<kv, risk>> /\ Aside

-----------------------------------------------------------------------------
(* Global secrets and settings: written to the store, then to memory.      *)

\* A new secret with no previous one.
\* Mutant: the current secret becomes the previous one.
revoke_all_rotates(r) ==
    /\ Asks(r, "revoke_all") /\ require_admin(r)
    /\ Keep(r, "put_jwt", [new |-> [cur |-> r, prev |-> Inst(r).jwt.cur], base |-> Inst(r).jwt])
    /\ UNCHANGED <<kv, mem, risk>> /\ Aside
revoke_all_tokens(r) ==
    /\ Asks(r, "revoke_all") /\ require_admin(r)
    /\ Keep(r, "put_jwt", [new |-> [cur |-> r, prev |-> None], base |-> Inst(r).jwt])
    /\ UNCHANGED <<kv, mem, risk>> /\ Aside

\* A new secret after the one that this instance knows.
\* Mutant: the old secret is not kept.
rotate_without_previous(r) ==
    /\ At(r, "start") /\ Kind(r) = "rotate"
    /\ Keep(r, "put_jwt", [new |-> [cur |-> r, prev |-> None], base |-> Inst(r).jwt])
    /\ UNCHANGED <<kv, mem, risk>> /\ Aside
run_jwt_rotation(r) ==
    /\ At(r, "start") /\ Kind(r) = "rotate"
    /\ Keep(r, "put_jwt", [new |-> [cur |-> r, prev |-> Inst(r).jwt.cur], base |-> Inst(r).jwt])
    /\ UNCHANGED <<kv, mem, risk>> /\ Aside
put_jwt(r) ==
    /\ At(r, "put_jwt")
    /\ kv' = [kv EXCEPT !.jwt = reqs[r].got.new]
    /\ Goto(r, "use_jwt")
    /\ Risk(IF Kind(r) = "rotate" /\ kv.jwt # reqs[r].got.base THEN {"unrefreshed"} ELSE {})
    /\ UNCHANGED mem /\ Aside
use_jwt(r) ==
    /\ At(r, "use_jwt")
    /\ mem' = [mem EXCEPT ![Where(r)].jwt = reqs[r].got.new]
    /\ Reply(r, "ok")
    /\ UNCHANGED <<kv, risk>> /\ Aside

\* What is given replaces its field of the settings in memory.
\* Mutant: the other fields get their defaults.
put_settings_alone(r) ==
    /\ Asks(r, "put_settings") /\ require_admin(r)
    /\ Keep(r, "put_settings", [new |-> [f \in Fields |-> IF f = On(r) THEN r ELSE "init"], base |-> Inst(r).settings])
    /\ UNCHANGED <<kv, mem, risk>> /\ Aside
put_settings(r) ==
    /\ Asks(r, "put_settings") /\ require_admin(r)
    /\ Keep(r, "put_settings", [new |-> [Inst(r).settings EXCEPT ![On(r)] = r], base |-> Inst(r).settings])
    /\ UNCHANGED <<kv, mem, risk>> /\ Aside
save_settings(r) ==
    /\ At(r, "put_settings")
    /\ kv' = [kv EXCEPT !.settings = reqs[r].got.new]
    /\ Risk(IF kv.settings # reqs[r].got.base THEN {"unmerged"} ELSE {})
    /\ Goto(r, "use_settings")
    /\ UNCHANGED mem /\ Aside
use_settings(r) ==
    /\ At(r, "use_settings")
    /\ mem' = [mem EXCEPT ![Where(r)].settings = reqs[r].got.new]
    /\ Reply(r, "ok")
    /\ UNCHANGED <<kv, risk>> /\ Aside

\* Every instance reads both again from time to time, one after the other;
\* what it read may be old when it takes effect.
\* Mutant: the secrets are not read again.
refresh_settings_only(i) ==
    LET m == mem[i] IN
    /\ "refresh" \in parts
    /\ mem' = [mem EXCEPT ![i] =
         CASE m.refresh.pc = "settings" -> [m EXCEPT !.refresh = [pc |-> "use_settings", got |-> kv.settings]]
           [] m.refresh.pc = "use_settings" -> [m EXCEPT !.settings = m.refresh.got, !.refresh = [pc |-> "settings", got |-> None]]]
    /\ UNCHANGED <<kv, reqs, risk>> /\ Aside
run_settings_refresh(i) ==
    LET m == mem[i] IN
    /\ "refresh" \in parts
    /\ mem' = [mem EXCEPT ![i] =
         CASE m.refresh.pc = "settings" -> [m EXCEPT !.refresh = [pc |-> "use_settings", got |-> kv.settings]]
           [] m.refresh.pc = "use_settings" -> [m EXCEPT !.settings = m.refresh.got, !.refresh = [pc |-> "jwt", got |-> None]]
           [] m.refresh.pc = "jwt" -> [m EXCEPT !.refresh = [pc |-> "use_jwt", got |-> kv.jwt]]
           [] m.refresh.pc = "use_jwt" -> [m EXCEPT !.jwt = m.refresh.got, !.refresh = [pc |-> "settings", got |-> None]]]
    /\ UNCHANGED <<kv, reqs, risk>> /\ Aside

IdentityStep(r) ==
    \/ resolve_user_cached(r) \/ resolve_user_and_roles_cached(r) \/ put_cached_user(r) \/ denied(r)
    \/ login(r) \/ resolve_identity(r)
    \/ create_user(r) \/ update_user(r) \/ put_user(r) \/ forget(r) \/ delete_user(r)
    \/ create_role(r) \/ update_role(r) \/ put_role(r) \/ delete_role(r) \/ invalidate_role(r)
    \/ revoke_all_tokens(r) \/ run_jwt_rotation(r) \/ put_jwt(r) \/ use_jwt(r)
    \/ put_settings(r) \/ save_settings(r) \/ use_settings(r)
=============================================================================
