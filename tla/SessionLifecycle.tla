-------------------------- MODULE SessionLifecycle --------------------------
(***************************************************************************)
(* What the service promises about refresh tokens.  A session begins with  *)
(* the token a registration or a login returns.  It holds one token at a   *)
(* time, which is spent to get the next, never used before; it is named    *)
(* after its first.  While a token is being exchanged the session holds    *)
(* none, and an exchange that does not finish ends the session.  A session *)
(* that is over stays over, and a spent token is good for nothing.         *)
(***************************************************************************)
CONSTANTS Tokens

VARIABLES
    token,  \* what each session holds
    used    \* the tokens handed out so far

Unborn == "unborn"
Rotating == "rotating"
Over == "over"

Init ==
    /\ token = [s \in Tokens |-> Unborn]
    /\ used = {}

(* register, login. *)
Begin(s) ==
    /\ s \notin used
    /\ used' = used \cup {s}
    /\ token' = [token EXCEPT ![s] = s]

(* refresh: the token is spent... *)
Spend(s) ==
    /\ token[s] \in Tokens
    /\ token' = [token EXCEPT ![s] = Rotating]
    /\ UNCHANGED used

(* ... and replaced, *)
Replace(s) ==
    /\ token[s] = Rotating
    /\ \E next \in Tokens \ used :
          /\ used' = used \cup {next}
          /\ token' = [token EXCEPT ![s] = next]

(* or not: an error, a deleted account, a disconnected client, a crash. *)
Abandon(s) ==
    /\ token[s] = Rotating
    /\ token' = [token EXCEPT ![s] = Over]
    /\ UNCHANGED used

(* logout, or the account is deleted: all its sessions that hold a token. *)
End(S) ==
    /\ \A s \in S : token[s] \in Tokens
    /\ token' = [s \in Tokens |-> IF s \in S THEN Over ELSE token[s]]
    /\ UNCHANGED used

Next ==
    \/ \E s \in Tokens : Begin(s) \/ Spend(s) \/ Replace(s) \/ Abandon(s)
    \/ \E S \in SUBSET Tokens : End(S)

Spec == Init /\ [][Next]_<<token, used>>

=============================================================================
