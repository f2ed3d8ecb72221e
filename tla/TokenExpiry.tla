---------------------------- MODULE TokenExpiry ----------------------------
(***************************************************************************)
(* The arithmetic of expiry, which AuthSessions takes as exact: a lifetime *)
(* is any u64 the builder was given, the claim exp is a sum in usize and   *)
(* expires_at one in i64 (src/src/auth/core.rs, src/src/db/auth.rs), and   *)
(* the system clock may be set back.  One client logs in, and presents the *)
(* refresh token it gets as often as it likes.                             *)
(***************************************************************************)
EXTENDS Integers

CONSTANTS
    U64,      \* how many values a u64 has
    USizes,   \* how many a usize has, on each target
    Leeway,   \* seconds Validation::default() forgives
    MaxTime,  \* bound of the clock
    MaxSkew,  \* bound of the seconds the clock is set back in all
    None      \* no value

Half == U64 \div 2

ASSUME ExpiryAssumption ==
    /\ U64 \in Nat \ {0} /\ U64 = 2 * Half
    /\ USizes \subseteq 1..U64
    /\ Leeway \in Nat /\ MaxSkew \in Nat
    /\ MaxTime \in 0..(Half - 1)   \* the clock fits an i64
    /\ None \notin Int

VARIABLES
    build,  \* the target, and whether overflow panics (debug) or wraps
    ttl,    \* AuthConfig: the two lifetimes
    clock,  \* now_secs()
    skew,   \* the seconds it has been set back, to bound them
    pc,     \* what the handler does next
    exp,    \* the exp of the tokens the client has been issued
    row,    \* expires_at of the refresh token on file
    at      \* history: the time each of the three was computed

config == <<build, ttl>>
vars == <<config, clock, skew, pc, exp, row, at>>

TokenKinds == {"access", "refresh"}

Build == [overflow_checks : BOOLEAN, usize : USizes]

NoExp == [kind \in TokenKinds |-> None]

-----------------------------------------------------------------------------
(***************************************************************************)
(* The conversions and the two sums, with what they may overflow.  Faulty  *)
(* variants narrow expires_at to half its width or do not wrap it, and     *)
(* confuse the two lifetimes.                                              *)
(***************************************************************************)
AsUsize(n) == n % build.usize

FaultyAsI64(n) == n % (Half \div 2)
AsI64(n) == IF n < Half THEN n ELSE n - U64

FaultyWrapI64(n) == n
WrapI64(n) == IF n >= Half THEN n - U64 ELSE n

FaultyLifetime(kind) == ttl["refresh"]
Lifetime(kind) == ttl[kind]

FaultyStoredLifetime == ttl["access"]
StoredLifetime == ttl["refresh"]

ExpSum(kind) == AsUsize(clock) + AsUsize(Lifetime(kind))
ExpiresAtSum == AsI64(clock) + AsI64(StoredLifetime)

(* jsonwebtoken::decode, and the WHERE of consume_refresh_token. *)
Accepted(kind) == exp[kind] # None /\ exp[kind] + Leeway >= clock
Consumable == row # None /\ row > clock

-----------------------------------------------------------------------------
(* issue_access_token, then issue_refresh_token, then store_refresh_token. *)
(* A panic ends the handler and closes the connection.                     *)
Issue(kind, step, next) ==
    /\ pc = step
    /\ \/ /\ build.overflow_checks /\ ExpSum(kind) >= build.usize
          /\ pc' = "panic"
          /\ UNCHANGED <<exp, at>>
       \/ /\ ~ (build.overflow_checks /\ ExpSum(kind) >= build.usize)
          /\ exp' = [exp EXCEPT ![kind] = ExpSum(kind) % build.usize]
          /\ at' = [at EXCEPT ![kind] = clock]
          /\ pc' = next
    /\ UNCHANGED <<config, clock, skew, row>>

IssueAccessToken == Issue("access", "issue_access", "issue_refresh")
IssueRefreshToken == Issue("refresh", "issue_refresh", "store")

StoreRefreshToken ==
    /\ pc = "store"
    /\ \/ /\ build.overflow_checks /\ ExpiresAtSum >= Half
          /\ pc' = "panic"
          /\ UNCHANGED <<row, at>>
       \/ /\ ~ (build.overflow_checks /\ ExpiresAtSum >= Half)
          /\ row' = WrapI64(ExpiresAtSum)
          /\ at' = [at EXCEPT !["row"] = clock]
          /\ pc' = "client"
    /\ UNCHANGED <<config, clock, skew, exp>>

(* refresh: verify_token, then the DELETE. *)
VerifyToken ==
    /\ pc = "client"
    /\ Accepted("refresh")
    /\ pc' = "consume"
    /\ UNCHANGED <<config, clock, skew, exp, row, at>>

ConsumeRefreshToken ==
    /\ pc = "consume"
    /\ row' = IF Consumable THEN None ELSE row
    /\ pc' = "client"
    /\ UNCHANGED <<config, clock, skew, exp, at>>

(* The client logs in: the first time, after a panic, or once more. *)
Login ==
    /\ pc \in {"panic", "client"}
    /\ pc' = "issue_access"
    /\ exp' = NoExp
    /\ row' = None
    /\ UNCHANGED <<config, clock, skew, at>>

Tick ==
    /\ clock < MaxTime
    /\ clock' = clock + 1
    /\ UNCHANGED <<config, skew, pc, exp, row, at>>

SetBack ==
    /\ clock > 0 /\ skew < MaxSkew
    /\ clock' = clock - 1
    /\ skew' = skew + 1
    /\ UNCHANGED <<config, pc, exp, row, at>>

Init ==
    /\ build \in Build
    /\ ttl \in [TokenKinds -> 0..(U64 - 1)]
    /\ clock = 0 /\ skew = 0
    /\ pc = "client"
    /\ exp = NoExp /\ row = None
    /\ at = [a \in TokenKinds \cup {"row"} |-> 0]

Next ==
    \/ IssueAccessToken \/ IssueRefreshToken \/ StoreRefreshToken
    \/ VerifyToken \/ ConsumeRefreshToken \/ Login
    \/ Tick \/ SetBack

Spec == Init /\ [][Next]_vars

-----------------------------------------------------------------------------
(***************************************************************************)
(* Whatever the lifetime, and however the sums wrap, no token outlives it: *)
(* an access token is accepted at most Leeway after its lifetime, and a    *)
(* refresh token is never consumed once its own is over.  An overflow can  *)
(* make a token useless, but never immortal.                               *)
(***************************************************************************)
NeverOutlivesItsLifetime ==
    /\ \A kind \in TokenKinds :
          Accepted(kind) => clock <= at[kind] + ttl[kind] + Leeway
    /\ Consumable => clock < at["row"] + ttl["refresh"]

(***************************************************************************)
(* ... and it makes one useless only where it must: a token is refused     *)
(* within its lifetime only if the end of it does not fit the type, usize  *)
(* for exp and i64 for expires_at.                                         *)
(***************************************************************************)
DiesEarlyOnlyByOverflow ==
    /\ \A kind \in TokenKinds :
          exp[kind] # None /\ clock <= at[kind] + ttl[kind] =>
             Accepted(kind) \/ at[kind] + ttl[kind] >= build.usize
    /\ row # None /\ clock < at["row"] + ttl["refresh"] =>
          Consumable \/ at["row"] + ttl["refresh"] >= Half

(***************************************************************************)
(* The two expiries of a refresh token agree to the second, once what the  *)
(* clock moved between the two readings, either way, is allowed for: a     *)
(* token on file is refused from then on and not before, unless one of the *)
(* two sums overflowed.                                                    *)
(***************************************************************************)
ExpiriesAgree ==
    row # None =>
        LET moved == at["row"] - at["refresh"]
            over == clock >= exp["refresh"] + moved
        IN  /\ ~ Consumable => over \/ at["row"] + ttl["refresh"] >= Half
            /\ over => \/ ~ Consumable
                       \/ at["refresh"] + ttl["refresh"] >= build.usize

(* The expiries are numbers of their types, or there is none. *)
TypeOK ==
    /\ build \in Build
    /\ ttl \in [TokenKinds -> 0..(U64 - 1)]
    /\ clock \in 0..MaxTime /\ skew \in 0..MaxSkew
    /\ pc \in {"issue_access", "issue_refresh", "store", "client", "consume",
               "panic"}
    /\ exp \in [TokenKinds -> (0..(build.usize - 1)) \cup {None}]
    /\ row \in ((-Half)..(Half - 1)) \cup {None}
    /\ at \in [TokenKinds \cup {"row"} -> 0..MaxTime]

=============================================================================
