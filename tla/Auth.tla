--------------------------------- MODULE Auth ---------------------------------
(***************************************************************************)
(* Authentication and authorization (internal/auth): who a request's       *)
(* credentials make the caller, and what that caller may do to a device.   *)
(***************************************************************************)
EXTENDS Sequences, Integers

(* An absent device ID, credential, identity or entry.                     *)
CONSTANT None

Roles == {"admin", "operator", "reader", "device"}

(* One row of the rbac table; own is what role device may do.              *)
Row(reader, own) == [admin |-> "allow", operator |-> "allow", reader |-> reader, device |-> own]

rbac ==
    [RegisterDevice |-> Row("deny", "allow"), GetDevice |-> Row("allow", "ownOnly"),
     ListDevices |-> Row("allow", "deny"), DeleteDevice |-> Row("deny", "deny"),
     GetProperty |-> Row("allow", "ownOnly"), SetProperty |-> Row("deny", "ownOnly"),
     SendCommand |-> Row("deny", "ownOnly"), Subscribe |-> Row("allow", "ownOnly"),
     StreamCommands |-> Row("deny", "ownOnly"), PublishSchema |-> Row("deny", "deny"),
     GetSchema |-> Row("allow", "deny"), ListSchemas |-> Row("allow", "deny")]

rbacAllows(id, op, deviceID) ==
    CASE rbac[op][id.Role] = "allow"   -> TRUE
      [] rbac[op][id.Role] = "ownOnly" -> deviceID # None /\ id.DeviceID = deviceID
      [] OTHER                         -> FALSE

(* Authorize: the first ACL entry for the caller decides, else the table.  *)
Authorize(id, op, deviceID, acl) ==
    LET mine == {i \in DOMAIN acl : acl[i].Subject = id.Subject}
    IN  IF mine # {} THEN acl[CHOOSE i \in mine : \A j \in mine : i <= j].Allow
        ELSE rbacAllows(id, op, deviceID)

(***************************************************************************)
(* authenticate.  A request carries a client certificate (its common name, *)
(* a device ID), an API key and a bearer token, each possibly None.  keys  *)
(* maps the subjects of the stored API keys to a role and a key.  tokens   *)
(* maps a token to what checking it says (module JwksCache) and its claims *)
(* sub and role; it is None when no JWKS URL is configured.  The answer is *)
(* an identity, or a code other than "OK".                                 *)
(***************************************************************************)
IdentityFromPeerCert(cn) == [Subject |-> cn, Role |-> "device", DeviceID |-> cn]

Identified(id) == [id |-> id, code |-> "OK"]
Rejected(code) == [id |-> None, code |-> code]

(* APIKeyStore.Authenticate tries the hash of every stored key.            *)
Authenticate(key, keys) ==
    LET match == {s \in DOMAIN keys : keys[s].key = key}
        s == CHOOSE s \in match : TRUE
    IN  IF match = {} THEN Rejected("Unauthenticated")
        ELSE Identified([Subject |-> s, Role |-> keys[s].role, DeviceID |-> None])

(* A role claim that names no role, or is absent, is the least of them.    *)
parseRole(role) == IF role \in Roles THEN role ELSE "reader"

ValidateToken(token) ==
    IF token.code # "OK" THEN Rejected(token.code)
    ELSE Identified([Subject |-> token.sub, Role |-> parseRole(token.role), DeviceID |-> None])

authenticate(req, keys, tokens) ==
    IF req.cert # None THEN Identified(IdentityFromPeerCert(req.cert))
    ELSE IF req.key # None THEN Authenticate(req.key, keys)
    ELSE IF req.token # None /\ tokens # None THEN ValidateToken(tokens[req.token])
    ELSE Rejected("Unauthenticated")
=============================================================================
