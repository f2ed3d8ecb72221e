---------------------------- MODULE ServirErrors ----------------------------
(***************************************************************************)
(* The error taxonomy of src/src/error.rs: the error_id of every variant,  *)
(* the HTTP status it is answered with and the kind of the identifier its  *)
(* JSON context carries.  Messages, which only explain, are left out.      *)
(***************************************************************************)
EXTENDS Naturals

DbError ==
    { "DB_CONNECTION_FAILED", "DB_MIGRATION_FAILED", "DB_USER_CREATE_FAILED",
      "DB_USER_FIND_BY_USERNAME_FAILED", "DB_USER_FIND_BY_ID_FAILED",
      "DB_STORE_REFRESH_TOKEN_FAILED", "DB_CONSUME_REFRESH_TOKEN_FAILED",
      "DB_DELETE_REFRESH_TOKENS_FOR_USER_FAILED", "DB_UNKNOWN" }

AuthUserError ==
    { "EMPTY_USERNAME", "WEAK_PASSWORD", "ALREADY_EXISTS",
      "INVALID_CREDENTIALS", "PASSWORD_HASH_FAILED" }

AuthTokenError ==
    { "TOKEN_EXPIRED", "TOKEN_INVALID", "MISSING_AUTHORIZATION_HEADER",
      "WRONG_TOKEN_KIND", "INVALID_REFRESH_TOKEN", "USER_NOT_FOUND",
      "AUTH_LAYER_MISSING", "TOKEN_ENCODE_FAILED" }

ServirError ==
    DbError \cup AuthUserError \cup AuthTokenError
        \cup {"BAD_REQUEST", "NOT_FOUND", "IO_ERROR"}

(* ErrorInfo::status_code: ServirError delegates to the error it wraps. *)
DbStatus(e) == 500

AuthUserStatus(e) ==
    CASE e \in {"EMPTY_USERNAME", "WEAK_PASSWORD"} -> 400
      [] e = "ALREADY_EXISTS" -> 409
      [] e = "INVALID_CREDENTIALS" -> 401
      [] e = "PASSWORD_HASH_FAILED" -> 500

AuthTokenStatus(e) ==
    IF e \in {"AUTH_LAYER_MISSING", "TOKEN_ENCODE_FAILED"} THEN 500 ELSE 401

StatusCode(e) ==
    CASE e \in DbError -> DbStatus(e)
      [] e \in AuthUserError -> AuthUserStatus(e)
      [] e \in AuthTokenError -> AuthTokenStatus(e)
      [] e = "BAD_REQUEST" -> 400
      [] e = "NOT_FOUND" -> 404
      [] e = "IO_ERROR" -> 500

IsServerError(e) == e \in ServirError /\ StatusCode(e) >= 500

(* ErrorInfo::context: the key the error's identifier is serialised under. *)
DbIdentifier(e) ==
    CASE e \in {"DB_USER_CREATE_FAILED", "DB_USER_FIND_BY_USERNAME_FAILED",
                "DB_STORE_REFRESH_TOKEN_FAILED",
                "DB_DELETE_REFRESH_TOKENS_FOR_USER_FAILED"} -> "username"
      [] e = "DB_USER_FIND_BY_ID_FAILED" -> "user_id"
      [] e = "DB_CONNECTION_FAILED" -> "url"
      [] e = "DB_UNKNOWN" -> "operation"
      [] OTHER -> "none"

AuthUserIdentifier(e) ==
    IF e \in {"ALREADY_EXISTS", "INVALID_CREDENTIALS"} THEN "username" ELSE "none"

AuthTokenIdentifier(e) == IF e = "USER_NOT_FOUND" THEN "user_id" ELSE "none"

IdentifierKind(e) ==
    CASE e \in DbError -> DbIdentifier(e)
      [] e \in AuthUserError -> AuthUserIdentifier(e)
      [] e \in AuthTokenError -> AuthTokenIdentifier(e)
      [] OTHER -> "none"

=============================================================================
