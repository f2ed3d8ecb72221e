------------------------- MODULE TokenExpiryProofs -------------------------
(***************************************************************************)
(* Theorems of TokenExpiry, for integers of any width, any lifetimes and   *)
(* leeway, and a clock that may be set back at any time by any amount.     *)
(***************************************************************************)
EXTENDS TokenExpiry, TLAPS

(* An expiry is at most the end of the lifetime, and equal to it unless    *)
(* that does not fit the type: exp ...                                     *)
ExpBound ==
    \A kind \in TokenKinds : exp[kind] # None =>
        /\ exp[kind] <= at[kind] + ttl[kind]
        /\ at[kind] + ttl[kind] < build.usize =>
              exp[kind] = at[kind] + ttl[kind]

(* ... and expires_at. *)
RowBound ==
    row # None =>
        /\ row <= at["row"] + ttl["refresh"]
        /\ at["row"] + ttl["refresh"] < Half =>
              row = at["row"] + ttl["refresh"]

(* expires_at is computed after exp, for the same token. *)
IssuedInOrder ==
    /\ row # None => exp["refresh"] # None
    /\ pc \in {"issue_access", "issue_refresh", "store"} => row = None
    /\ pc = "store" => exp["refresh"] # None

(* The inductive invariant. *)
ExpiryInv == TypeOK /\ ExpBound /\ RowBound /\ IssuedInOrder

-----------------------------------------------------------------------------
(* The conversions and the sums.                                           *)

(* What the sums and the comparisons below are of are numbers. *)
LEMMA Numbers ==
    ASSUME ExpiryInv
    PROVE  /\ clock \in Nat /\ skew \in Nat /\ Leeway \in Nat /\ Half \in Nat
           /\ build.usize \in Nat \ {0}
           /\ at["row"] \in Nat
           /\ \A kind \in TokenKinds :
                 /\ at[kind] \in Nat /\ ttl[kind] \in Nat
                 /\ exp[kind] # None => exp[kind] \in Int
           /\ row # None => row \in Int
           /\ "refresh" \in TokenKinds
<1>1. /\ U64 \in Nat \ {0} /\ USizes \subseteq 1..U64
      /\ Leeway \in Nat /\ MaxSkew \in Nat /\ MaxTime \in 0..(Half - 1)
      /\ U64 = 2 * Half
  BY ExpiryAssumption
<1>2. Half \in Nat /\ MaxTime \in Nat
  BY <1>1 DEF Half
<1>3. build.usize \in Nat \ {0}
  <2>1. build.usize \in USizes
    BY DEF ExpiryInv, TypeOK, Build
  <2>2. USizes \subseteq 1..U64 /\ 1..U64 \subseteq Nat \ {0}
    BY <1>1
  <2> QED
    BY <2>1, <2>2
<1>4. clock \in Nat /\ skew \in Nat
  BY <1>1, <1>2 DEF ExpiryInv, TypeOK
<1>5. /\ at \in [TokenKinds \cup {"row"} -> 0..MaxTime]
      /\ ttl \in [TokenKinds -> 0..(U64 - 1)]
      /\ exp \in [TokenKinds -> (0..(build.usize - 1)) \cup {None}]
      /\ row \in ((-Half)..(Half - 1)) \cup {None}
  BY DEF ExpiryInv, TypeOK
<1>6. /\ at["row"] \in Nat
      /\ row # None => row \in Int
      /\ \A kind \in TokenKinds :
            /\ at[kind] \in Nat /\ ttl[kind] \in Nat
            /\ exp[kind] # None => exp[kind] \in Int
  BY <1>1, <1>2, <1>3, <1>5
<1> QED
  BY <1>1, <1>2, <1>3, <1>4, <1>6 DEF TokenKinds

(* Wrapping makes a number no larger, and leaves it alone if it fits. *)
LEMMA Wrapped ==
    ASSUME NEW n \in Nat, NEW width \in Nat \ {0}
    PROVE  /\ n % width \in 0..(width - 1)
           /\ n % width <= n
           /\ n < width => n % width = n
OBVIOUS

(* The sum issue_access_token and issue_refresh_token make, wrapped. *)
LEMMA ExpSumBound ==
    ASSUME ExpiryInv, NEW kind \in TokenKinds
    PROVE  LET e == ExpSum(kind) % build.usize IN
           /\ e \in 0..(build.usize - 1)
           /\ e <= clock + ttl[kind]
           /\ clock + ttl[kind] < build.usize => e = clock + ttl[kind]
<1> DEFINE w == build.usize
           c == clock
           l == ttl[kind]
<1>1. w \in Nat \ {0} /\ c \in Nat /\ l \in Nat
  BY Numbers
<1>2. /\ c % w \in 0..(w - 1) /\ c % w <= c /\ (c < w => c % w = c)
      /\ l % w \in 0..(w - 1) /\ l % w <= l /\ (l < w => l % w = l)
  BY <1>1, Wrapped
<1>3. ExpSum(kind) = (c % w) + (l % w)
  BY DEF ExpSum, AsUsize, Lifetime
<1> HIDE DEF w, c, l
<1> DEFINE s == (c % w) + (l % w)
<1>4. s \in Nat /\ s <= c + l /\ (c + l < w => s = c + l)
  BY <1>1, <1>2
<1> HIDE DEF s
<1>5. s % w \in 0..(w - 1) /\ s % w <= s /\ (s < w => s % w = s)
  BY <1>1, <1>4, Wrapped
<1>6. s % w \in 0..(w - 1) /\ s % w <= c + l /\ (c + l < w => s % w = c + l)
  BY <1>1, <1>4, <1>5
<1> QED
  BY <1>3, <1>6 DEF s, w, c, l

(* The sum store_refresh_token makes, wrapped. *)
LEMMA ExpiresAtBound ==
    ASSUME ExpiryInv
    PROVE  LET e == WrapI64(ExpiresAtSum) IN
           /\ e \in (-Half)..(Half - 1)
           /\ e <= clock + ttl["refresh"]
           /\ clock + ttl["refresh"] < Half => e = clock + ttl["refresh"]
<1>1. /\ Half \in Nat /\ U64 = 2 * Half
      /\ clock \in 0..(Half - 1) /\ ttl["refresh"] \in 0..(U64 - 1)
  <2>1. /\ U64 \in Nat /\ U64 = 2 * Half /\ MaxTime \in 0..(Half - 1)
    BY ExpiryAssumption
  <2>2. Half \in Nat
    BY <2>1 DEF Half
  <2>3. clock \in 0..MaxTime /\ ttl["refresh"] \in 0..(U64 - 1)
    BY DEF ExpiryInv, TypeOK, TokenKinds
  <2> QED
    BY <2>1, <2>2, <2>3
<1> QED
  BY <1>1 DEF WrapI64, ExpiresAtSum, AsI64, StoredLifetime

-----------------------------------------------------------------------------
(* A token is issued, or the handler panics. *)
LEMMA IssueStep ==
    ASSUME ExpiryInv,
           NEW kind \in TokenKinds,
           NEW step \in {"issue_access", "issue_refresh"},
           NEW next \in {"issue_refresh", "store"},
           next = "store" => kind = "refresh",
           Issue(kind, step, next)
    PROVE  ExpiryInv'
<1> DEFINE e == ExpSum(kind) % build.usize
<1>0. /\ exp \in [TokenKinds -> (0..(build.usize - 1)) \cup {None}]
      /\ at \in [TokenKinds \cup {"row"} -> 0..MaxTime]
      /\ clock \in 0..MaxTime /\ skew \in 0..MaxSkew /\ row = None
      /\ UNCHANGED <<build, ttl, clock, skew, row>>
  BY DEF Issue, ExpiryInv, TypeOK, IssuedInOrder, config
<1>1. CASE pc' = "panic" /\ UNCHANGED <<exp, at>>
  BY <1>0, <1>1 DEF ExpiryInv, TypeOK, ExpBound, RowBound, IssuedInOrder
<1>2. CASE /\ exp' = [exp EXCEPT ![kind] = e]
           /\ at' = [at EXCEPT ![kind] = clock]
           /\ pc' = next
  <2>1. /\ e \in 0..(build.usize - 1) /\ e <= clock + ttl[kind]
        /\ clock + ttl[kind] < build.usize => e = clock + ttl[kind]
    BY ExpSumBound
  <2> HIDE DEF e
  <2>2. /\ exp' \in [TokenKinds -> (0..(build.usize - 1)) \cup {None}]
        /\ exp'[kind] = e /\ \A k \in TokenKinds \ {kind} : exp'[k] = exp[k]
    BY <1>0, <1>2, <2>1
  <2>3. /\ at' \in [TokenKinds \cup {"row"} -> 0..MaxTime]
        /\ at'[kind] = clock
        /\ \A k \in TokenKinds \ {kind} : at'[k] = at[k]
    BY <1>0, <1>2
  <2>4. TypeOK'
    BY <1>0, <1>2, <2>2, <2>3 DEF ExpiryInv, TypeOK
  <2>5. ExpBound'
    BY <1>0, <2>1, <2>2, <2>3 DEF ExpiryInv, ExpBound
  <2>6. RowBound'
    BY <1>0 DEF RowBound
  <2>7. IssuedInOrder'
    <3>1. next = "store" => exp'["refresh"] # None
      BY <2>1, <2>2, ExpiryAssumption
    <3> QED
      BY <1>0, <1>2, <3>1 DEF IssuedInOrder
  <2> QED
    BY <2>4, <2>5, <2>6, <2>7 DEF ExpiryInv
<1> QED
  BY <1>1, <1>2 DEF Issue

(* The token is stored, or the handler panics. *)
LEMMA StoreStep ==
    ASSUME ExpiryInv, StoreRefreshToken
    PROVE  ExpiryInv'
<1> DEFINE e == WrapI64(ExpiresAtSum)
<1>0. /\ at \in [TokenKinds \cup {"row"} -> 0..MaxTime]
      /\ clock \in 0..MaxTime /\ skew \in 0..MaxSkew
      /\ exp["refresh"] # None /\ row = None
      /\ UNCHANGED <<build, ttl, clock, skew, exp>>
  BY DEF StoreRefreshToken, ExpiryInv, TypeOK, IssuedInOrder, config
<1>1. CASE pc' = "panic" /\ UNCHANGED <<row, at>>
  BY <1>0, <1>1 DEF ExpiryInv, TypeOK, ExpBound, RowBound, IssuedInOrder
<1>2. CASE /\ row' = e
           /\ at' = [at EXCEPT !["row"] = clock]
           /\ pc' = "client"
  <2>1. /\ e \in (-Half)..(Half - 1) /\ e <= clock + ttl["refresh"]
        /\ clock + ttl["refresh"] < Half => e = clock + ttl["refresh"]
    BY ExpiresAtBound
  <2> HIDE DEF e
  <2>2. /\ at' \in [TokenKinds \cup {"row"} -> 0..MaxTime]
        /\ at'["row"] = clock
        /\ \A k \in TokenKinds : at'[k] = at[k]
    BY <1>0, <1>2 DEF TokenKinds
  <2>3. TypeOK'
    BY <1>0, <1>2, <2>1, <2>2 DEF ExpiryInv, TypeOK
  <2>4. ExpBound'
    BY <1>0, <2>2 DEF ExpiryInv, ExpBound
  <2>5. RowBound'
    BY <1>0, <1>2, <2>1, <2>2 DEF RowBound
  <2>6. IssuedInOrder'
    BY <1>0, <1>2, <2>2 DEF IssuedInOrder, TokenKinds
  <2> QED
    BY <2>3, <2>4, <2>5, <2>6 DEF ExpiryInv
<1> QED
  BY <1>1, <1>2 DEF StoreRefreshToken

-----------------------------------------------------------------------------
(* However the sums wrap and the clock is set, every step of the handlers  *)
(* and of the clock keeps the bounds of the expiries.                      *)
THEOREM ExpiryInvariant == Spec => []ExpiryInv
<1>1. Init => ExpiryInv
  <2> SUFFICES ASSUME Init PROVE ExpiryInv
    OBVIOUS
  <2>1. TypeOK
    BY ExpiryAssumption DEF Init, TypeOK, NoExp
  <2> QED
    BY <2>1 DEF Init, ExpiryInv, ExpBound, RowBound, IssuedInOrder, NoExp,
                TokenKinds
<1>2. ExpiryInv /\ [Next]_vars => ExpiryInv'
  <2> SUFFICES ASSUME ExpiryInv, [Next]_vars PROVE ExpiryInv'
    OBVIOUS
  <2> USE DEF config
  <2>1. CASE IssueAccessToken \/ IssueRefreshToken
    BY <2>1, IssueStep DEF IssueAccessToken, IssueRefreshToken, TokenKinds
  <2>2. CASE StoreRefreshToken
    BY <2>2, StoreStep
  <2>3. CASE VerifyToken
    BY <2>3 DEF VerifyToken, ExpiryInv, TypeOK, ExpBound, RowBound,
                IssuedInOrder
  <2>4. CASE ConsumeRefreshToken
    BY <2>4 DEF ConsumeRefreshToken, ExpiryInv, TypeOK, ExpBound, RowBound,
                IssuedInOrder
  <2>5. CASE Login
    BY <2>5 DEF Login, ExpiryInv, TypeOK, ExpBound, RowBound, IssuedInOrder,
                NoExp
  <2>6. CASE Tick \/ SetBack
    <3>1. /\ clock' \in 0..MaxTime /\ skew' \in 0..MaxSkew
          /\ UNCHANGED <<build, ttl, pc, exp, row, at>>
      BY <2>6, ExpiryAssumption DEF Tick, SetBack, ExpiryInv, TypeOK
    <3>2. TypeOK' /\ ExpBound' /\ RowBound' /\ IssuedInOrder'
      BY <3>1 DEF ExpiryInv, TypeOK, ExpBound, RowBound, IssuedInOrder
    <3> QED
      BY <3>2 DEF ExpiryInv
  <2>7. CASE UNCHANGED vars
    BY <2>7 DEF vars, ExpiryInv, TypeOK, ExpBound, RowBound, IssuedInOrder
  <2> QED
    BY <2>1, <2>2, <2>3, <2>4, <2>5, <2>6, <2>7 DEF Next
<1> QED
  BY <1>1, <1>2, PTL DEF Spec

(* The expiries are numbers of their types, or there is none. *)
THEOREM ExpiryTypes == Spec => []TypeOK
<1>1. ExpiryInv => TypeOK
  BY DEF ExpiryInv
<1> QED
  BY <1>1, ExpiryInvariant, PTL

(* No token outlives its lifetime: an overflow of exp or of expires_at can *)
(* make a token useless but never immortal.                                *)
THEOREM NoImmortalToken == Spec => []NeverOutlivesItsLifetime
<1>1. ExpiryInv => NeverOutlivesItsLifetime
  BY Numbers DEF ExpiryInv, ExpBound, RowBound, NeverOutlivesItsLifetime,
                 Accepted, Consumable
<1> QED
  BY <1>1, ExpiryInvariant, PTL

(* A token is refused within its lifetime only if its end does not fit the *)
(* type of exp or expires_at.                                              *)
THEOREM OverflowOnly == Spec => []DiesEarlyOnlyByOverflow
<1>1. ExpiryInv => DiesEarlyOnlyByOverflow
  BY Numbers DEF ExpiryInv, ExpBound, RowBound, DiesEarlyOnlyByOverflow,
                 Accepted, Consumable
<1> QED
  BY <1>1, ExpiryInvariant, PTL

(* The exp of a refresh token and its expires_at differ by exactly what    *)
(* the clock moved between the two readings, unless a sum overflowed.      *)
THEOREM ExpiryAgreement == Spec => []ExpiriesAgree
<1>1. ExpiryInv => ExpiriesAgree
  BY Numbers DEF ExpiryInv, ExpBound, RowBound, IssuedInOrder, ExpiriesAgree,
                 Consumable
<1> QED
  BY <1>1, ExpiryInvariant, PTL

=============================================================================
