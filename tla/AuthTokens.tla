----------------------------- MODULE AuthTokens -----------------------------
(***************************************************************************)
(* The JWTs of src/src/auth/core.rs.  A signed token is its claims; the    *)
(* signature is abstracted to "only issued tokens verify", so a string     *)
(* that is no token of this server is None.  The claim iat is exp minus    *)
(* the lifetime, username is a function of sub (an account is never        *)
(* renamed) and the jti of an access token is never looked up: the first   *)
(* two are left out and the third is None.                                 *)
(***************************************************************************)
EXTENDS Integers, ServirErrors

CONSTANTS
    UserIds,     \* the UUIDs that can name an account
    Jtis,        \* the UUIDs that can name a refresh token
    None,        \* no value
    AccessTtl,   \* AuthConfig::access_token_ttl_secs
    RefreshTtl,  \* AuthConfig::refresh_token_ttl_secs
    Leeway       \* seconds jsonwebtoken's Validation::default() forgives

ASSUME TtlAssumption ==
    AccessTtl \in Nat /\ RefreshTtl \in Nat /\ Leeway \in Nat

TokenKind == {"access", "refresh"}

Claims ==
    [sub : UserIds, exp : Nat, jti : Jtis \cup {None}, kind : TokenKind]

ASSUME NoneAssumption == None \notin UserIds \cup Jtis \cup Claims

IssueAccessToken(user, now) ==
    [sub |-> user, exp |-> now + AccessTtl, jti |-> None, kind |-> "access"]

IssueRefreshToken(user, jti, now) ==
    [sub |-> user, exp |-> now + RefreshTtl, jti |-> jti, kind |-> "refresh"]

(* decode() of the jsonwebtoken crate refuses exp < now - leeway. *)
IsExpired(token, now) == token.exp + Leeway < now

(***************************************************************************)
(* verify_token followed by the caller's test of kind: the error_id of the *)
(* refusal, or "OK".                                                       *)
(***************************************************************************)
VerifyToken(token, kind, now) ==
    IF token = None THEN "TOKEN_INVALID"
    ELSE IF IsExpired(token, now) THEN "TOKEN_EXPIRED"
    ELSE IF token.kind # kind THEN "WRONG_TOKEN_KIND"
    ELSE "OK"

=============================================================================
