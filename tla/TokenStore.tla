----------------------------- MODULE TokenStore -----------------------------
(***************************************************************************)
(* core/access_token: scoped, expiring, revocable access tokens.  A token  *)
(* never leaves the map; it is spoiled by the clock or by a revocation.    *)
(* The clock is the event Expire: now >= expires_at_ms from then on.       *)
(***************************************************************************)
CONSTANTS TokenIds,         \* the random 16-byte ids that can be drawn
          Scopes            \* the scope names in use

VARIABLE tokens             \* TokenStore::tokens_ (absent ids are NotFound)

NotFound == [scope |-> "", expired |-> FALSE, revoked |-> FALSE]
StoredToken == [scope : Scopes \cup {""}, expired : BOOLEAN, revoked : BOOLEAN]

TokenInit == tokens = [id \in TokenIds |-> NotFound]

Found(id) == tokens[id].scope # ""

(* grant: a fresh id, live until it expires or is revoked. *)
Grant(id, scope) ==
  /\ ~Found(id)
  /\ tokens' = [tokens EXCEPT ![id] = [scope |-> scope, expired |-> FALSE, revoked |-> FALSE]]

(* revoke: unknown and already revoked tokens are left alone. *)
Revoke(id) ==
  tokens' = IF Found(id) THEN [tokens EXCEPT ![id].revoked = TRUE] ELSE tokens

Expire(id) ==
  /\ Found(id) /\ ~tokens[id].expired
  /\ tokens' = [tokens EXCEPT ![id].expired = TRUE]

(* check_access: not_found, expired, revoked, scope_mismatch or ok. *)
CheckAccess(id, required) ==
  CASE ~Found(id) -> "not_found"
    [] Found(id) /\ tokens[id].expired -> "expired"
    [] Found(id) /\ ~tokens[id].expired /\ tokens[id].revoked -> "revoked"
    [] Found(id) /\ ~tokens[id].expired /\ ~tokens[id].revoked
         /\ tokens[id].scope # required -> "scope_mismatch"
    [] OTHER -> "ok"
=============================================================================
