------------------------- MODULE SQLContextProofs -------------------------
(***************************************************************************)
(* Safety of SQLContext for any sets of calls and closers, any contexts    *)
(* and runtimes, any clock resolution.                                     *)
(***************************************************************************)
EXTENDS SQLContext, TLAPS

(* The lease: who holds db.mu, who is parked, and which closer announced.  *)
InLease == {"leased", "measure", "create", "check", "sleep", "dispatch", "exec", "join", "unlock"}

LeaseInv ==
  /\ \A c \in Calls : c \in readers <=> pc[c] \in InLease
  /\ \A c \in parked : pc[c] = "lock" /\ Blocking(c)
  /\ writer = NoProc => parked = {}
  /\ \A k \in Closers : closer[k] \in {"pending", "unlocking"} <=> writer = k
  /\ \A k \in Closers : closer[k] = "unlocking" => readers = {} /\ handle = "nil"

(* The native token and its watcher live exactly from "check" to "join".   *)
WithToken == {"check", "sleep", "dispatch", "exec", "join"}

TokenInv ==
  \A c \in Calls :
    /\ pc[c] \in {"idle", "lock", "poll", "leased", "measure", "create"}
         => token[c] = "none" /\ watcher[c] = "none"
    /\ mode[c] = "legacy" => token[c] = "none" /\ watcher[c] = "none"
    /\ pc[c] \in {"measure", "create", "check", "sleep", "dispatch", "join"} => mode[c] = "context"
    /\ pc[c] \in WithToken /\ mode[c] = "context" => token[c] = "live"
    /\ pc[c] \in {"unlock", "done"} => token[c] # "live" /\ watcher[c] \in {"none", "exited"}

(* The inductive invariant.                                                *)
IInv == TypeOK /\ LeaseInv /\ TokenInv /\ HandleSafety

-----------------------------------------------------------------------------
(* Rounding gives a natural number of milliseconds, 0 exactly when the     *)
(* context has no deadline.                                                *)
LEMMA TimeoutMillisType ==
  ASSUME NEW d \in Nat \cup {NoDeadline}, NEW t \in Nat
  PROVE  TimeoutMillis(d, t) \in Nat
<1>1. CASE d = NoDeadline \/ d <= t
  BY <1>1 DEF TimeoutMillis
<1>2. CASE d # NoDeadline /\ ~(d <= t)
  <2>1. d - t \in Nat
    BY <1>2 DEF NoDeadline
  <2>2. (d - t) \div TicksPerMs \in Nat
    BY <2>1, TimeAssumption
  <2>3. QED
    BY <1>2, <2>2 DEF TimeoutMillis
<1>3. QED
  BY <1>1, <1>2

LEMMA ProductNat ==
  ASSUME NEW a \in Nat, NEW b \in Nat
  PROVE  a * b \in Nat
OBVIOUS

(* Whatever Core answers, its effect is one of the three.                  *)
LEMMA AnswerEffect ==
  ASSUME NEW c \in Calls, NEW w, NEW e \in Effects(c, w)
  PROVE  e \in {"none", "applied", "cleaned"}
BY SMTT(30) DEF Effects, Definite

(* Type correctness of every step.                                         *)
LEMMA TypeStep == TypeOK /\ [Next]_vars => TypeOK'
<1> SUFFICES ASSUME TypeOK, [Next]_vars PROVE TypeOK'
  OBVIOUS
<1> USE DEF TypeOK, lockVars, dbVars, ctxVars, tokenVars, callVars
<1>1. ASSUME NEW c \in Calls, EnterEnded(c) PROVE TypeOK'
  BY <1>1 DEF EnterEnded, Goto, Return, CallStates
<1>2. ASSUME NEW c \in Calls, EnterUnsupported(c) PROVE TypeOK'
  BY <1>2 DEF EnterUnsupported, Goto, Return, CallStates
<1>3. ASSUME NEW c \in Calls, Enter(c) PROVE TypeOK'
  BY <1>3 DEF Enter, Goto, CallStates
<1>4. ASSUME NEW c \in Calls, Lease(c) PROVE TypeOK'
  BY <1>4 DEF Lease, Goto, CallStates
<1>5. ASSUME NEW c \in Calls, RLockBlocks(c) PROVE TypeOK'
  BY <1>5 DEF RLockBlocks
<1>6. ASSUME NEW c \in Calls, TryRLockFails(c) PROVE TypeOK'
  BY <1>6 DEF TryRLockFails, Goto, CallStates
<1>7. ASSUME NEW c \in Calls, PollEnded(c) PROVE TypeOK'
  BY <1>7 DEF PollEnded, Goto, Return, CallStates
<1>8. ASSUME NEW c \in Calls, PollAgain(c) PROVE TypeOK'
  BY <1>8 DEF PollAgain, Goto, CallStates
<1>9. ASSUME NEW c \in Calls, LeaseRejected(c) PROVE TypeOK'
  BY <1>9 DEF LeaseRejected, Goto, Return, CallStates
<1>10. ASSUME NEW c \in Calls, LeaseAccepted(c) PROVE TypeOK'
  BY <1>10 DEF LeaseAccepted, Goto, CallStates
<1>11. ASSUME NEW c \in Calls, Measure(c) PROVE TypeOK'
  BY <1>11, TimeoutMillisType DEF Measure, Goto, CallStates
<1>12. ASSUME NEW c \in Calls, TokenUnavailable(c) PROVE TypeOK'
  BY <1>12 DEF TokenUnavailable, Goto, Return, CallStates
<1>13. ASSUME NEW c \in Calls, CreateToken(c) PROVE TypeOK'
  <2>1. timeout[c] * TicksPerMs \in Nat
    BY ProductNat, TimeAssumption
  <2>2. now + timeout[c] * TicksPerMs \in Nat
    BY <2>1
  <2>3. QED
    BY <1>13, <2>2 DEF CreateToken, Goto, CallStates
<1>14. ASSUME NEW c \in Calls, CheckCtx(c) PROVE TypeOK'
  <2>1. now + TicksPerMs \in Nat
    BY TimeAssumption
  <2>2. CASE ctxErr[c] = "none" /\ Goto(c, "check", "dispatch") /\ UNCHANGED <<wake, tokenCancelled>>
    BY <1>14, <2>2 DEF CheckCtx, Goto, CallStates
  <2>3. CASE /\ Goto(c, "check", "sleep")
             /\ wake' = [wake EXCEPT ![c] = now + TicksPerMs]
             /\ UNCHANGED tokenCancelled
    BY <1>14, <2>1, <2>3 DEF CheckCtx, Goto, CallStates
  <2>4. CASE /\ Goto(c, "check", "dispatch")
             /\ tokenCancelled' = [tokenCancelled EXCEPT ![c] = TRUE]
             /\ UNCHANGED wake
    BY <1>14, <2>4 DEF CheckCtx, Goto, CallStates
  <2>5. QED
    BY <1>14, <2>2, <2>3, <2>4 DEF CheckCtx
<1>15. ASSUME NEW c \in Calls, Wake(c) PROVE TypeOK'
  BY <1>15 DEF Wake, Goto, CallStates
<1>16. ASSUME NEW c \in Calls, Dispatch(c) PROVE TypeOK'
  BY <1>16 DEF Dispatch, Goto, CallStates
<1>17. ASSUME NEW c \in Calls, NativeReturns(c) PROVE TypeOK'
  <2>1. PICK w \in Responses(c) : \E e \in Effects(c, w) : NativeReturn(c, w, e)
    BY <1>17 DEF NativeReturns
  <2>0. PICK e \in Effects(c, w) : NativeReturn(c, w, e)
    BY <2>1
  <2>2. e \in {"none", "applied", "cleaned"}
    BY AnswerEffect
  <2>3. QED
    BY <2>0, <2>2 DEF NativeReturn, Goto, Return, CallStates
<1>18. ASSUME NEW c \in Calls, WatchCtxDone(c) PROVE TypeOK'
  BY <1>18 DEF WatchCtxDone
<1>19. ASSUME NEW c \in Calls, WatchCancel(c) PROVE TypeOK'
  BY <1>19 DEF WatchCancel
<1>20. ASSUME NEW c \in Calls, WatchStop(c) PROVE TypeOK'
  BY <1>20 DEF WatchStop
<1>21. ASSUME NEW c \in Calls, JoinAndFree(c) PROVE TypeOK'
  BY <1>21 DEF JoinAndFree, Goto, CallStates
<1>22. ASSUME NEW c \in Calls, RUnlock(c) PROVE TypeOK'
  BY <1>22 DEF RUnlock, Goto, CallStates
<1>23. ASSUME NEW c \in Calls, CtxCancel(c) PROVE TypeOK'
  BY <1>23 DEF CtxCancel, Sentinels
<1>24. ASSUME NEW c \in Calls, CtxExpire(c) PROVE TypeOK'
  BY <1>24 DEF CtxExpire, Sentinels
<1>25. ASSUME NEW k \in Closers, CloseLock(k) PROVE TypeOK'
  BY <1>25 DEF CloseLock
<1>26. ASSUME NEW k \in Closers, CloseHandle(k) PROVE TypeOK'
  BY <1>26 DEF CloseHandle
<1>27. ASSUME NEW k \in Closers, CloseUnlock(k) PROVE TypeOK'
  BY <1>27 DEF CloseUnlock, CallStates
<1>28. CASE Tick
  BY <1>28 DEF Tick
<1>29. CASE UNCHANGED vars
  BY <1>29 DEF vars
<1>30. QED
  BY <1>1, <1>2, <1>3, <1>4, <1>5, <1>6, <1>7, <1>8, <1>9, <1>10, <1>11, <1>12, <1>13, <1>14, <1>15, <1>16, <1>17, <1>18, <1>19, <1>20, <1>21, <1>22, <1>23, <1>24, <1>25, <1>26, <1>27, <1>28, <1>29, SMTT(30)
  DEF Next, Start, CallStep, WatcherStep, CloserStep, Quiescent

(* Every step keeps the lease, the token and the handle consistent.        *)
LEMMA InvStep == IInv /\ [Next]_vars => (LeaseInv /\ TokenInv /\ HandleSafety)'
<1> SUFFICES ASSUME TypeOK, LeaseInv, TokenInv, HandleSafety, [Next]_vars
             PROVE  LeaseInv' /\ TokenInv' /\ HandleSafety'
  BY DEF IInv
<1> USE DEF TypeOK, LeaseInv, TokenInv, HandleSafety, InLease, WithToken, Blocking,
            lockVars, dbVars, ctxVars, tokenVars, callVars
<1>1. ASSUME NEW c \in Calls, EnterEnded(c) PROVE LeaseInv' /\ TokenInv' /\ HandleSafety'
  BY <1>1 DEF EnterEnded, Goto
<1>2. ASSUME NEW c \in Calls, EnterUnsupported(c) PROVE LeaseInv' /\ TokenInv' /\ HandleSafety'
  BY <1>2 DEF EnterUnsupported, Goto
<1>3. ASSUME NEW c \in Calls, Enter(c) PROVE LeaseInv' /\ TokenInv' /\ HandleSafety'
  BY <1>3 DEF Enter, Goto
<1>4. ASSUME NEW c \in Calls, Lease(c) PROVE LeaseInv' /\ TokenInv' /\ HandleSafety'
  BY <1>4, CallsAssumption DEF Lease, Goto
<1>5. ASSUME NEW c \in Calls, RLockBlocks(c) PROVE LeaseInv' /\ TokenInv' /\ HandleSafety'
  BY <1>5 DEF RLockBlocks
<1>6. ASSUME NEW c \in Calls, TryRLockFails(c) PROVE LeaseInv' /\ TokenInv' /\ HandleSafety'
  BY <1>6 DEF TryRLockFails, Goto
<1>7. ASSUME NEW c \in Calls, PollEnded(c) PROVE LeaseInv' /\ TokenInv' /\ HandleSafety'
  BY <1>7 DEF PollEnded, Goto
<1>8. ASSUME NEW c \in Calls, PollAgain(c) PROVE LeaseInv' /\ TokenInv' /\ HandleSafety'
  BY <1>8 DEF PollAgain, Goto
<1>9. ASSUME NEW c \in Calls, LeaseRejected(c) PROVE LeaseInv' /\ TokenInv' /\ HandleSafety'
  BY <1>9 DEF LeaseRejected, Goto
<1>10. ASSUME NEW c \in Calls, LeaseAccepted(c) PROVE LeaseInv' /\ TokenInv' /\ HandleSafety'
  <2>1. LeaseInv'
    BY <1>10 DEF LeaseAccepted, Goto
  <2>2. TokenInv'
    BY <1>10 DEF LeaseAccepted, Goto
  <2>3. HandleSafety'
    BY <1>10 DEF LeaseAccepted, Goto
  <2>4. QED
    BY <2>1, <2>2, <2>3
<1>11. ASSUME NEW c \in Calls, Measure(c) PROVE LeaseInv' /\ TokenInv' /\ HandleSafety'
  BY <1>11 DEF Measure, Goto
<1>12. ASSUME NEW c \in Calls, TokenUnavailable(c) PROVE LeaseInv' /\ TokenInv' /\ HandleSafety'
  BY <1>12 DEF TokenUnavailable, Goto
<1>13. ASSUME NEW c \in Calls, CreateToken(c) PROVE LeaseInv' /\ TokenInv' /\ HandleSafety'
  BY <1>13 DEF CreateToken, Goto
<1>14. ASSUME NEW c \in Calls, CheckCtx(c) PROVE LeaseInv' /\ TokenInv' /\ HandleSafety'
  BY <1>14 DEF CheckCtx, Goto
<1>15. ASSUME NEW c \in Calls, Wake(c) PROVE LeaseInv' /\ TokenInv' /\ HandleSafety'
  BY <1>15 DEF Wake, Goto
<1>16. ASSUME NEW c \in Calls, Dispatch(c) PROVE LeaseInv' /\ TokenInv' /\ HandleSafety'
  BY <1>16 DEF Dispatch, Goto
<1>17. ASSUME NEW c \in Calls, NativeReturns(c) PROVE LeaseInv' /\ TokenInv' /\ HandleSafety'
  BY <1>17 DEF NativeReturns, NativeReturn, Goto
<1>18. ASSUME NEW c \in Calls, WatchCtxDone(c) PROVE LeaseInv' /\ TokenInv' /\ HandleSafety'
  BY <1>18 DEF WatchCtxDone
<1>19. ASSUME NEW c \in Calls, WatchCancel(c) PROVE LeaseInv' /\ TokenInv' /\ HandleSafety'
  BY <1>19 DEF WatchCancel
<1>20. ASSUME NEW c \in Calls, WatchStop(c) PROVE LeaseInv' /\ TokenInv' /\ HandleSafety'
  BY <1>20 DEF WatchStop
<1>21. ASSUME NEW c \in Calls, JoinAndFree(c) PROVE LeaseInv' /\ TokenInv' /\ HandleSafety'
  BY <1>21 DEF JoinAndFree, Goto
<1>22. ASSUME NEW c \in Calls, RUnlock(c) PROVE LeaseInv' /\ TokenInv' /\ HandleSafety'
  BY <1>22 DEF RUnlock, Goto
<1>23. ASSUME NEW c \in Calls, CtxCancel(c) PROVE LeaseInv' /\ TokenInv' /\ HandleSafety'
  BY <1>23 DEF CtxCancel
<1>24. ASSUME NEW c \in Calls, CtxExpire(c) PROVE LeaseInv' /\ TokenInv' /\ HandleSafety'
  BY <1>24 DEF CtxExpire
<1>25. ASSUME NEW k \in Closers, CloseLock(k) PROVE LeaseInv' /\ TokenInv' /\ HandleSafety'
  BY <1>25, CallsAssumption DEF CloseLock
<1>26. ASSUME NEW k \in Closers, CloseHandle(k) PROVE LeaseInv' /\ TokenInv' /\ HandleSafety'
  BY <1>26, CallsAssumption DEF CloseHandle
<1>27. ASSUME NEW k \in Closers, CloseUnlock(k) PROVE LeaseInv' /\ TokenInv' /\ HandleSafety'
  BY <1>27, CallsAssumption DEF CloseUnlock
<1>28. CASE Tick
  BY <1>28 DEF Tick
<1>29. CASE UNCHANGED vars
  BY <1>29 DEF vars
<1>30. QED
  BY <1>1, <1>2, <1>3, <1>4, <1>5, <1>6, <1>7, <1>8, <1>9, <1>10, <1>11, <1>12, <1>13, <1>14, <1>15, <1>16, <1>17, <1>18, <1>19, <1>20, <1>21, <1>22, <1>23, <1>24, <1>25, <1>26, <1>27, <1>28, <1>29, SMTT(30)
  DEF Next, Start, CallStep, WatcherStep, CloserStep, Quiescent

-----------------------------------------------------------------------------
LEMMA InitInv == Init => IInv
BY CallsAssumption, TimeAssumption, ContextAssumption
DEF Init, IInv, TypeOK, LeaseInv, TokenInv, HandleSafety, InLease, WithToken,
    CallStates, Sentinels

(* The inductive invariant holds in every reachable state.                 *)
THEOREM Invariance == Spec => []IInv
<1>1. Init => IInv
  BY InitInv
<1>2. IInv /\ [Next]_vars => IInv'
  BY TypeStep, InvStep DEF IInv
<1>3. QED
  BY <1>1, <1>2, PTL DEF Spec

(* The state of a context call always has its type, for any number of      *)
(* callers and closers.                                                    *)
THEOREM TypeCorrect == Spec => []TypeOK
<1>1. IInv => TypeOK
  BY DEF IInv
<1>2. QED
  BY <1>1, Invariance, PTL

(* No call and no watcher ever touches a native token that was not created *)
(* or was already freed.                                                   *)
THEOREM TokenSafe == Spec => []TokenSafety
<1>1. IInv => TokenSafety
  BY DEF IInv, TypeOK, TokenInv, TokenSafety, WithToken, CallStates
<1>2. QED
  BY <1>1, Invariance, PTL

(* No native code runs on a closed handle, and talon_sdk_close is called   *)
(* at most once.                                                           *)
THEOREM HandleSafe == Spec => []HandleSafety
<1>1. IInv => HandleSafety
  BY DEF IInv
<1>2. QED
  BY <1>1, Invariance, PTL

(* A returned call holds no token, no watcher, no lease.                   *)
THEOREM LeakFree == Spec => []NothingLeaks
<1>1. IInv => NothingLeaks
  BY DEF IInv, TokenInv, LeaseInv, NothingLeaks, InLease
<1>2. QED
  BY <1>1, Invariance, PTL
-----------------------------------------------------------------------------
(* Deadlines.  Between Measure and CreateToken the timeout already covers  *)
(* the caller's deadline from any later instant.                           *)
CoverInv ==
  \A c \in Calls : pc[c] = "create" =>
    /\ ctx[c].deadline = NoDeadline <=> timeout[c] = 0
    /\ now + timeout[c] * TicksPerMs >= ctx[c].deadline

DeadlineInv == CoverInv /\ TokenNotEarly

(* Rounding up never loses time.                                           *)
LEMMA RoundedUp ==
  ASSUME NEW a \in Nat
  PROVE  ((a \div TicksPerMs) + (IF a % TicksPerMs # 0 THEN 1 ELSE 0)) * TicksPerMs >= a
<1> DEFINE q == a \div TicksPerMs
<1> DEFINE r == a % TicksPerMs
<1>1. TicksPerMs \in Nat /\ q \in Nat /\ r \in Nat /\ a = TicksPerMs * q + r /\ r < TicksPerMs
  BY TimeAssumption
<1> HIDE DEF q, r
<1>2. (q + 1) * TicksPerMs = TicksPerMs * q + TicksPerMs
  BY <1>1
<1>3. q * TicksPerMs = TicksPerMs * q
  BY <1>1
<1>4. (q + (IF r # 0 THEN 1 ELSE 0)) * TicksPerMs >= a
  BY <1>1, <1>2, <1>3
<1>5. QED
  BY <1>4 DEF q, r

(* TimeoutMillis covers the deadline, and is 0 only without one.           *)
LEMMA TimeoutCovers ==
  ASSUME NEW d \in Nat \cup {NoDeadline}, NEW t \in Nat
  PROVE  /\ d = NoDeadline <=> TimeoutMillis(d, t) = 0
         /\ t + TimeoutMillis(d, t) * TicksPerMs >= d
<1>1. CASE d = NoDeadline
  BY <1>1, TimeAssumption DEF TimeoutMillis, NoDeadline
<1>2. CASE d # NoDeadline /\ d <= t
  BY <1>2, TimeAssumption DEF TimeoutMillis
<1>3. CASE d # NoDeadline /\ ~(d <= t)
  <2>1. d - t \in Nat /\ d - t # 0 /\ d \in Nat
    BY <1>3 DEF NoDeadline
  <2> DEFINE m == TimeoutMillis(d, t)
  <2>2. m = ((d - t) \div TicksPerMs) + (IF (d - t) % TicksPerMs # 0 THEN 1 ELSE 0)
    BY <1>3 DEF TimeoutMillis
  <2>3. m * TicksPerMs >= d - t
    BY <2>1, <2>2, RoundedUp
  <2>4. m \in Nat
    BY TimeoutMillisType
  <2>5. m # 0
    BY <2>1, <2>3, TimeAssumption
  <2> HIDE DEF m
  <2>6. m * TicksPerMs \in Nat
    BY <2>4, TimeAssumption
  <2>7. t + m * TicksPerMs >= d
    BY <2>1, <2>3, <2>6
  <2>8. QED
    BY <1>3, <2>5, <2>7 DEF m
<1>4. QED
  BY <1>1, <1>2, <1>3

(* The steps that neither read the clock into a timeout, nor create or     *)
(* free a token, nor advance the clock, leave the deadlines alone.         *)
LEMMA DeadlinesKept ==
  ASSUME TypeOK, DeadlineInv, UNCHANGED <<now, ctx, timeout, token, tokenDeadline>>,
         \A c \in Calls : pc'[c] = "create" => pc[c] = "create"
  PROVE  DeadlineInv'
BY DEF DeadlineInv, CoverInv, TokenNotEarly, TypeOK

LEMMA DeadlineStep == TypeOK /\ DeadlineInv /\ [Next]_vars => DeadlineInv'
<1> SUFFICES ASSUME TypeOK, DeadlineInv, [Next]_vars PROVE DeadlineInv'
  OBVIOUS
<1>1. ASSUME NEW c \in Calls, Measure(c) PROVE DeadlineInv'
  <2>1. ctx[c].deadline \in Nat \cup {NoDeadline} /\ now \in Nat
    BY DEF TypeOK
  <2>2. /\ timeout' = [timeout EXCEPT ![c] = TimeoutMillis(ctx[c].deadline, now)]
        /\ pc' = [pc EXCEPT ![c] = "create"]
        /\ UNCHANGED <<now, ctx, token, tokenDeadline>>
    BY <1>1 DEF Measure, Goto, ctxVars
  <2>3. CoverInv'
    <3>1. ASSUME NEW d \in Calls, pc'[d] = "create"
          PROVE  /\ ctx'[d].deadline = NoDeadline <=> timeout'[d] = 0
                 /\ now' + timeout'[d] * TicksPerMs >= ctx'[d].deadline
      <4>1. CASE d = c
        <5>1. timeout'[c] = TimeoutMillis(ctx[c].deadline, now) /\ ctx' = ctx /\ now' = now
          BY <2>2 DEF TypeOK
        <5>2. QED
          BY <4>1, <5>1, <2>1, TimeoutCovers
      <4>2. CASE d # c
        <5>1. pc[d] = "create" /\ timeout'[d] = timeout[d] /\ ctx' = ctx /\ now' = now
          BY <3>1, <4>2, <2>2 DEF TypeOK
        <5>2. QED
          BY <5>1 DEF CoverInv, DeadlineInv
      <4>3. QED
        BY <4>1, <4>2
    <3>2. QED
      BY <3>1 DEF CoverInv
  <2>4. TokenNotEarly'
    BY <2>2 DEF TokenNotEarly, DeadlineInv
  <2>5. QED
    BY <2>3, <2>4 DEF DeadlineInv
<1>2. ASSUME NEW c \in Calls, CreateToken(c) PROVE DeadlineInv'
  <2>1. /\ pc[c] = "create"
        /\ pc' = [pc EXCEPT ![c] = "check"]
        /\ token' = [token EXCEPT ![c] = "live"]
        /\ tokenDeadline' = [tokenDeadline EXCEPT ![c] =
              IF timeout[c] = 0 THEN NoDeadline ELSE now + timeout[c] * TicksPerMs]
        /\ UNCHANGED <<now, ctx, timeout>>
    BY <1>2 DEF CreateToken, Goto, ctxVars
  <2>2. CoverInv'
    BY <2>1 DEF CoverInv, DeadlineInv, TypeOK
  <2>0. timeout[c] \in Nat /\ now \in Nat /\ TicksPerMs \in Nat
    BY TimeAssumption DEF TypeOK
  <2>3. timeout[c] * TicksPerMs \in Nat /\ now + timeout[c] * TicksPerMs \in Nat
    BY <2>0, ProductNat
  <2>4. /\ ctx[c].deadline = NoDeadline <=> timeout[c] = 0
        /\ now + timeout[c] * TicksPerMs >= ctx[c].deadline
    BY <2>1 DEF CoverInv, DeadlineInv
  <2>5. /\ ctx'[c].deadline = NoDeadline <=> tokenDeadline'[c] = NoDeadline
        /\ tokenDeadline'[c] >= ctx'[c].deadline
    BY <2>1, <2>3, <2>4 DEF TypeOK, NoDeadline
  <2>6. TokenNotEarly'
    <3>1. ASSUME NEW d \in Calls, token'[d] = "live"
          PROVE  /\ ctx'[d].deadline = NoDeadline <=> tokenDeadline'[d] = NoDeadline
                 /\ tokenDeadline'[d] >= ctx'[d].deadline
      <4>1. CASE d = c
        BY <4>1, <2>5
      <4>2. CASE d # c
        <5>1. token[d] = "live" /\ tokenDeadline'[d] = tokenDeadline[d] /\ ctx' = ctx
          BY <3>1, <4>2, <2>1 DEF TypeOK
        <5>2. QED
          BY <5>1 DEF TokenNotEarly, DeadlineInv
      <4>3. QED
        BY <4>1, <4>2
    <3>2. QED
      BY <3>1 DEF TokenNotEarly
  <2>7. QED
    BY <2>2, <2>6 DEF DeadlineInv
<1>3. ASSUME NEW c \in Calls, JoinAndFree(c) PROVE DeadlineInv'
  BY <1>3 DEF JoinAndFree, Goto, ctxVars, DeadlineInv, CoverInv, TokenNotEarly, TypeOK
<1>4. CASE Tick
  <2>1. \A c \in Calls : timeout[c] * TicksPerMs \in Nat
    BY ProductNat, TimeAssumption DEF TypeOK
  <2>2. \A c \in Calls : ctx[c].deadline \in Int
    BY DEF TypeOK, NoDeadline
  <2>3. now' = now + 1 /\ UNCHANGED <<ctx, timeout, token, tokenDeadline, pc>>
    BY <1>4 DEF Tick, ctxVars, tokenVars, callVars
  <2>4. CoverInv'
    <3>1. ASSUME NEW c \in Calls, pc'[c] = "create"
          PROVE  /\ ctx'[c].deadline = NoDeadline <=> timeout'[c] = 0
                 /\ now' + timeout'[c] * TicksPerMs >= ctx'[c].deadline
      <4> DEFINE m == timeout[c] * TicksPerMs
      <4>1. m \in Nat /\ ctx[c].deadline \in Int /\ now \in Nat
        BY <2>1, <2>2 DEF TypeOK
      <4>2. /\ ctx[c].deadline = NoDeadline <=> timeout[c] = 0
            /\ now + m >= ctx[c].deadline
        BY <3>1, <2>3 DEF CoverInv, DeadlineInv
      <4>3. timeout'[c] * TicksPerMs = m
        BY <2>3
      <4> HIDE DEF m
      <4>4. QED
        BY <2>3, <4>1, <4>2, <4>3
    <3>2. QED
      BY <3>1 DEF CoverInv
  <2>5. QED
    BY <2>3, <2>4 DEF TokenNotEarly, DeadlineInv
<1>5. ASSUME NEW c \in Calls,
             \/ Start(c) \/ CtxCancel(c) \/ CtxExpire(c) \/ WatcherStep(c) \/ NativeReturns(c)
             \/ Lease(c) \/ RLockBlocks(c) \/ TryRLockFails(c) \/ PollEnded(c) \/ PollAgain(c)
             \/ LeaseRejected(c) \/ LeaseAccepted(c) \/ TokenUnavailable(c) \/ CheckCtx(c)
             \/ Wake(c) \/ Dispatch(c) \/ RUnlock(c)
      PROVE  DeadlineInv'
  <2>1. UNCHANGED <<now, ctx, timeout, token, tokenDeadline>>
    BY <1>5 DEF Start, EnterEnded, EnterUnsupported, Enter, CtxCancel, CtxExpire, WatcherStep,
                WatchCtxDone, WatchCancel, WatchStop, NativeReturns, NativeReturn, Lease,
                RLockBlocks, TryRLockFails, PollEnded, PollAgain, LeaseRejected, LeaseAccepted,
                TokenUnavailable, CheckCtx, Wake, Dispatch, RUnlock, ctxVars, tokenVars
  <2>2. \A d \in Calls : pc'[d] = "create" => pc[d] = "create"
    BY <1>5 DEF Start, EnterEnded, EnterUnsupported, Enter, CtxCancel, CtxExpire, WatcherStep,
                WatchCtxDone, WatchCancel, WatchStop, NativeReturns, NativeReturn, Lease,
                RLockBlocks, TryRLockFails, PollEnded, PollAgain, LeaseRejected, LeaseAccepted,
                TokenUnavailable, CheckCtx, Wake, Dispatch, RUnlock, callVars, Goto, TypeOK
  <2>3. QED
    BY <2>1, <2>2, DeadlinesKept
<1>6. ASSUME NEW k \in Closers, CloseLock(k) \/ CloserStep(k) PROVE DeadlineInv'
  <2>1. UNCHANGED <<now, ctx, timeout, token, tokenDeadline>>
    BY <1>6 DEF CloserStep, CloseLock, CloseHandle, CloseUnlock, ctxVars, tokenVars
  <2>2. \A d \in Calls : pc'[d] = "create" => pc[d] = "create"
    BY <1>6 DEF CloserStep, CloseLock, CloseHandle, CloseUnlock, callVars, TypeOK
  <2>3. QED
    BY <2>1, <2>2, DeadlinesKept
<1>7. CASE UNCHANGED vars
  BY <1>7, DeadlinesKept DEF vars, ctxVars, tokenVars, callVars
<1>8. QED
  BY <1>1, <1>2, <1>3, <1>4, <1>5, <1>6, <1>7 DEF Next, CallStep, Quiescent

(* The native deadline a token carries is never before the deadline of the *)
(* caller's context, for any tick and any stall between the steps.         *)
THEOREM DeadlineNotEarly == Spec => []TokenNotEarly
<1>1. Init => DeadlineInv
  BY DEF Init, DeadlineInv, CoverInv, TokenNotEarly
<1>2. TypeOK /\ DeadlineInv /\ [Next]_vars => DeadlineInv'
  BY DeadlineStep
<1>3. DeadlineInv => TokenNotEarly
  BY DEF DeadlineInv
<1>4. QED
  BY <1>1, <1>2, <1>3, TypeCorrect, PTL DEF Spec
-----------------------------------------------------------------------------
(* What an answer of Core becomes.  Each response decodes to one error,    *)
(* whatever has become of the context by then.                             *)

LEMMA PlainSuccess ==
  ASSUME NEW e, NEW d \in {"rows", "empty", "unreadable"}
  PROVE  ResponseError(e, Plain("true", "", d)) = NoError
BY DEF ResponseError, sqlContextError, decodeSQLContextCommandResult, DecodeFlat, DecodeBase,
       decodeCommandResult, Extended, Plain, NoEnvelope, Absent

(* An error of the tree, by its three parts.                               *)
Err(code, native, is) == [code |-> code, native |-> native, is |-> is]

LEMMA ErrJoined ==
  ASSUME NEW k, NEW n, NEW s, NEW t
  PROVE  JoinSentinels(Err(k, n, s), t) = Err(k, n, s \cup t)
BY DEF JoinSentinels, Err

LEMMA ErrIsNoError ==
  ASSUME NEW k \in {"ResultIndeterminate", "NativeTimeout", "NativeStorage", "NativeUnclassified",
                    "ProtocolViolation"}, NEW n, NEW s
  PROVE  Err(k, n, s) # NoError /\ Err(k, n, s).code = k /\ Err(k, n, s).native = n /\ Err(k, n, s).is = s
<1>1. Err(k, n, s).code = k /\ NoError.code = "ok" /\ k # "ok"
  BY DEF Err, NoError
<1>2. Err(k, n, s).native = n /\ Err(k, n, s).is = s
  BY DEF Err
<1>3. QED
  BY <1>1, <1>2

NativeCode(x) == IF x = "cancelled" THEN "NativeUnclassified" ELSE "NativeTimeout"

(* The envelope decoded without its nested one: the cause is joined.       *)
LEMMA FlatFailure ==
  ASSUME NEW w, w.ok = "false", w.data = Absent, Extended(w) => ExtensionValid(w),
         NEW k \in {"ResultIndeterminate", "NativeTimeout", "NativeStorage", "NativeUnclassified"},
         newNativeError(w.code) = Err(k, w.code, {})
  PROVE  DecodeFlat(w) = Err(k, w.code, CauseSentinel(w.cause))
<1>1. decodeCommandResult(w) = Err(k, w.code, {})
  BY DEF decodeCommandResult
<1>2. Err(k, w.code, {}) # NoError
  BY ErrIsNoError
<1>3. NoError.is = {}
  BY DEF NoError
<1>4. DecodeBase(w, NoError) = JoinSentinels(Err(k, w.code, {}), NoError.is \cup CauseSentinel(w.cause))
  BY <1>1, <1>2 DEF DecodeBase
<1>5. {} \cup (NoError.is \cup CauseSentinel(w.cause)) = CauseSentinel(w.cause)
  BY <1>3
<1>6. DecodeBase(w, NoError) = Err(k, w.code, {} \cup (NoError.is \cup CauseSentinel(w.cause)))
  BY <1>4, ErrJoined
<1>7. DecodeBase(w, NoError) = Err(k, w.code, CauseSentinel(w.cause))
  BY <1>5, <1>6
<1>8. QED
  BY <1>7 DEF DecodeFlat

(* sqlContextError adds the end of the context to an unknown outcome and   *)
(* to nothing else.                                                        *)
LEMMA ContextJoined ==
  ASSUME NEW e \in {"none"} \cup Sentinels, NEW n, n \notin {"cancelled", "deadline_exceeded"}, NEW s
  PROVE  sqlContextError(e, Err("ResultIndeterminate", n, s))
           = Err("ResultIndeterminate", n, s \cup ({e} \ {"none"}))
<1> DEFINE err == Err("ResultIndeterminate", n, s)
<1>1. err # NoError /\ err.code = "ResultIndeterminate" /\ err.native = n
  BY ErrIsNoError
<1>2. JoinSentinels(err, {e}) = Err("ResultIndeterminate", n, s \cup {e})
  BY ErrJoined
<1> HIDE DEF err
<1>3. CASE e = "none"
  <2>1. s \cup ({e} \ {"none"}) = s
    BY <1>3
  <2>2. sqlContextError(e, err) = err
    BY <1>1, <1>3 DEF sqlContextError
  <2>3. QED
    BY <2>1, <2>2 DEF err
<1>4. CASE e # "none"
  <2>1. s \cup ({e} \ {"none"}) = s \cup {e}
    BY <1>4
  <2>2. sqlContextError(e, err) = JoinSentinels(err, {e})
    BY <1>1, <1>4 DEF sqlContextError
  <2>3. QED
    BY <1>2, <2>1, <2>2 DEF err
<1>5. QED
  BY <1>3, <1>4

LEMMA StorageFailure ==
  ASSUME NEW e
  PROVE  LET err == ResponseError(e, Plain("false", "storage_error", Absent))
         IN  err.code = "NativeStorage" /\ err.is = {}
<1> DEFINE w == Plain("false", "storage_error", Absent)
<1>1. /\ w.form = "json" /\ w.ok = "false" /\ w.code = "storage_error" /\ w.cause = "" /\ w.data = Absent
      /\ ~Extended(w)
  BY DEF Plain, Extended, NoEnvelope, Absent
<1> HIDE DEF w
<1>2. newNativeError(w.code) = Err("NativeStorage", w.code, {})
  BY <1>1 DEF newNativeError, Err
<1>3. DecodeFlat(w) = Err("NativeStorage", w.code, CauseSentinel(w.cause))
  BY <1>1, <1>2, FlatFailure
<1>4. CauseSentinel(w.cause) = {}
  BY <1>1 DEF CauseSentinel
<1> DEFINE err == Err("NativeStorage", w.code, {})
<1>5. err # NoError /\ err.code = "NativeStorage" /\ err.native = w.code /\ err.is = {}
  BY ErrIsNoError
<1>6. ResponseError(e, w) = sqlContextError(e, err)
  BY <1>1, <1>3, <1>4 DEF ResponseError, decodeSQLContextCommandResult
<1> HIDE DEF err
<1>7. sqlContextError(e, err) = err
  BY <1>1, <1>5 DEF sqlContextError
<1>8. QED
  BY <1>5, <1>6, <1>7 DEF w

(* A clean interruption carries its own cause, at the top or nested.       *)
LEMMA HiddenInterruption ==
  ASSUME NEW x \in {"cancelled", "deadline_exceeded"}
  PROVE  DecodeFlat(Interrupted(x)) = Err(NativeCode(x), x, CauseSentinel(x))
<1> DEFINE w == Interrupted(x)
<1>1. /\ w.ok = "false" /\ w.code = x /\ w.cause = x /\ w.data = Absent
      /\ w.retryable = "false" /\ w.state = "rolled_back_if_owned" /\ w.outcome = ""
      /\ w.interruption.form = Absent
  BY DEF Interrupted, Plain, NoEnvelope
<1> HIDE DEF w
<1>2. ExtensionValid(w)
  BY <1>1 DEF ExtensionValid
<1>3. newNativeError(w.code) = Err(NativeCode(x), w.code, {})
  BY <1>1 DEF newNativeError, Err, NativeCode
<1>4. NativeCode(x) \in {"NativeTimeout", "NativeUnclassified"}
  BY DEF NativeCode
<1>5. QED
  BY <1>1, <1>2, <1>3, <1>4, FlatFailure DEF w

LEMMA CleanInterruption ==
  ASSUME NEW e, NEW x \in {"cancelled", "deadline_exceeded"}
  PROVE  LET err == ResponseError(e, Interrupted(x))
         IN  err.code \in {"NativeTimeout", "NativeUnclassified"} /\ err.is = CauseSentinel(x)
<1> DEFINE w == Interrupted(x)
<1>1. w.form = "json" /\ w.cause = x
  BY DEF Interrupted, Plain
<1>2. DecodeFlat(w) = Err(NativeCode(x), x, CauseSentinel(x))
  BY HiddenInterruption
<1> HIDE DEF w
<1> DEFINE err == Err(NativeCode(x), x, CauseSentinel(x))
<1>3. NativeCode(x) \in {"NativeTimeout", "NativeUnclassified"}
  BY DEF NativeCode
<1>4. err # NoError /\ err.code = NativeCode(x) /\ err.native = x
  BY <1>3, ErrIsNoError
<1>5. CauseSentinel(x) \cup CauseSentinel(x) = CauseSentinel(x)
  OBVIOUS
<1>6. JoinSentinels(err, CauseSentinel(x)) = err
  BY <1>5, ErrJoined
<1>7. err.is = CauseSentinel(x)
  BY <1>3, ErrIsNoError
<1> HIDE DEF err
<1>8. ResponseError(e, w) = sqlContextError(e, err)
  BY <1>1, <1>2 DEF ResponseError, decodeSQLContextCommandResult, err
<1>9. sqlContextError(e, err) = err
  BY <1>4, <1>6 DEF sqlContextError
<1>10. QED
  BY <1>3, <1>4, <1>7, <1>8, <1>9 DEF w

LEMMA UnknownOutcome ==
  ASSUME NEW e \in {"none"} \cup Sentinels, NEW x \in {"cancelled", "deadline_exceeded"}
  PROVE  LET err == ResponseError(e, Indeterminate(x))
         IN  /\ err.code = "ResultIndeterminate"
             /\ err.is = CauseSentinel(x) \cup ({e} \ {"none"})
<1> DEFINE w == Indeterminate(x)
<1>1. /\ w.form = "json" /\ w.ok = "false" /\ w.code = "result_indeterminate" /\ w.cause = x
      /\ w.data = Absent /\ w.retryable = "false" /\ w.state = "consumed" /\ w.outcome = "unknown"
      /\ w.interruption.form = Absent
  BY DEF Indeterminate, Plain, NoEnvelope
<1> HIDE DEF w
<1>2. ExtensionValid(w)
  BY <1>1 DEF ExtensionValid
<1>3. newNativeError(w.code) = Err("ResultIndeterminate", w.code, {})
  BY <1>1 DEF newNativeError, Err
<1>4. DecodeFlat(w) = Err("ResultIndeterminate", w.code, CauseSentinel(x))
  BY <1>1, <1>2, <1>3, FlatFailure
<1>5. ResponseError(e, w) = sqlContextError(e, Err("ResultIndeterminate", w.code, CauseSentinel(x)))
  BY <1>1, <1>4 DEF ResponseError, decodeSQLContextCommandResult
<1>6. ResponseError(e, w) = Err("ResultIndeterminate", w.code, CauseSentinel(x) \cup ({e} \ {"none"}))
  BY <1>1, <1>5, ContextJoined
<1>7. QED
  BY <1>6, ErrIsNoError DEF w

(* A failed cleanup keeps the interruption it hides.                       *)
LEMMA FailedCleanup ==
  ASSUME NEW e \in {"none"} \cup Sentinels, NEW x \in {"cancelled", "deadline_exceeded"}
  PROVE  LET err == ResponseError(e, CleanupFailed(x))
         IN  /\ err.code = "ResultIndeterminate"
             /\ err.is = CauseSentinel(x) \cup ({e} \ {"none"})
<1> DEFINE w == CleanupFailed(x)
<1> DEFINE i == DecodeFlat(Interrupted(x))
<1>1. i = Err(NativeCode(x), x, CauseSentinel(x)) /\ NativeCode(x) \in {"NativeTimeout", "NativeUnclassified"}
  BY HiddenInterruption DEF NativeCode
<1>2. /\ w.form = "json" /\ w.ok = "false" /\ w.code = "result_indeterminate"
      /\ w.cause = "cleanup_failed" /\ w.retryable = "false" /\ w.state = "" /\ w.outcome = ""
      /\ w.data = Absent /\ w.interruption = Interrupted(x)
  BY DEF CleanupFailed, Plain
<1>3. w.interruption.form = "json" /\ w.interruption.code = x /\ w.interruption.cause = x
  BY <1>2 DEF Interrupted, Plain
<1> HIDE DEF w, i
<1>4. ExtensionValid(w) /\ CleanupShapeValid(w)
  BY <1>2, <1>3 DEF ExtensionValid, CleanupShapeValid
<1>5. i # NoError /\ i.code # "ProtocolViolation" /\ i.is = CauseSentinel(x)
  BY <1>1, ErrIsNoError
<1>6. decodeSQLContextCommandResult(w) = DecodeBase(w, i)
  BY <1>2, <1>4, <1>5 DEF decodeSQLContextCommandResult, i
<1> DEFINE base == Err("ResultIndeterminate", w.code, {})
<1>7. decodeCommandResult(w) = base
  BY <1>2 DEF decodeCommandResult, newNativeError, Err
<1>8. base # NoError
  BY ErrIsNoError
<1>9. {} \cup (i.is \cup CauseSentinel(w.cause)) = CauseSentinel(x)
  <2>1. CauseSentinel(w.cause) = {}
    BY <1>2 DEF CauseSentinel
  <2>2. QED
    BY <1>5, <2>1
<1>10. JoinSentinels(base, i.is \cup CauseSentinel(w.cause)) = Err("ResultIndeterminate", w.code, CauseSentinel(x))
  BY <1>9, ErrJoined
<1> HIDE DEF base
<1>11. DecodeBase(w, i) = Err("ResultIndeterminate", w.code, CauseSentinel(x))
  BY <1>7, <1>8, <1>10 DEF DecodeBase
<1>12. ResponseError(e, w) = sqlContextError(e, Err("ResultIndeterminate", w.code, CauseSentinel(x)))
  BY <1>2, <1>6, <1>11 DEF ResponseError
<1>13. ResponseError(e, w) = Err("ResultIndeterminate", w.code, CauseSentinel(x) \cup ({e} \ {"none"}))
  BY <1>2, <1>12, ContextJoined
<1>14. QED
  BY <1>13, ErrIsNoError DEF w

LEMMA UnusableAnswer ==
  ASSUME NEW e \in {"none"} \cup Sentinels,
         NEW w \in {[form |-> "rc", code |-> "uncertain"], [form |-> "null"], [form |-> "malformed"]}
  PROVE  LET err == ResponseError(e, w)
         IN  /\ err.code \in {"ResultIndeterminate", "ProtocolViolation"}
             /\ err.is \subseteq {e} \ {"none"}
<1>1. CASE w = [form |-> "rc", code |-> "uncertain"]
  BY <1>1 DEF ResponseError, newNativeError, sqlContextError, NoError, JoinSentinels, Sentinels
<1>2. CASE w = [form |-> "null"]
  BY <1>2 DEF ResponseError, ProtocolViolation, Fault
<1>3. CASE w = [form |-> "malformed"]
  BY <1>3 DEF ResponseError, decodeSQLContextCommandResult, sqlContextError, ProtocolViolation,
              Fault, NoError
<1>4. QED
  BY <1>1, <1>2, <1>3
-----------------------------------------------------------------------------
(* What a caller may conclude from the error an answer becomes: success    *)
(* only if the statement was executed, a definite error only if it was     *)
(* not, a rollback that reached Core is either done or known not to be.    *)
SoundFor(c, err, eff) ==
  /\ c \in Queries =>
       /\ err = NoError => eff = "applied"
       /\ err.code \notin {"ok", "ResultIndeterminate", "ProtocolViolation"} => eff = "none"
  /\ c \in Rollbacks =>
       \/ err.code \in {"DatabaseClosed", "CapabilityUnavailable", "NativeUnavailable"}
       \/ eff = "cleaned"
       \/ err.code \in {"NativeStorage", "ResultIndeterminate", "ProtocolViolation"}

(* The sentinels of an error come from the context or from the token.      *)
CausedBy(c, e, err) ==
  \A s \in err.is : s = e \/ \E x \in TokenCauses(c) : s \in CauseSentinel(x)

LEMMA TokenCauseNames ==
  ASSUME NEW c, NEW x \in TokenCauses(c)
  PROVE  x \in {"cancelled", "deadline_exceeded"}
BY DEF TokenCauses

LEMMA AnswerIsSound ==
  ASSUME NEW c \in Calls, NEW e \in {"none"} \cup Sentinels,
         NEW w \in Responses(c), NEW eff \in Effects(c, w)
  PROVE  LET err == RowsError(c, w, ResponseError(e, w))
         IN  SoundFor(c, err, eff) /\ CausedBy(c, e, err)
<1> DEFINE raw == ResponseError(e, w)
<1> DEFINE err == RowsError(c, w, raw)
<1> SUFFICES SoundFor(c, err, eff) /\ CausedBy(c, e, err)
  OBVIOUS
<1>0. (c \in Queries => c \notin Rollbacks) /\ (c \in Queries \/ c \in Rollbacks)
  BY CallsAssumption DEF Calls
<1>1. ASSUME NEW d \in {"rows", "empty", "unreadable"}, w = Plain("true", "", d)
      PROVE  SoundFor(c, err, eff) /\ CausedBy(c, e, err)
  <2>1. raw = NoError
    BY <1>1, PlainSuccess
  <2>2. w.form = "json" /\ w.code = "" /\ w.ok = "true"
    BY <1>1 DEF Plain
  <2>3. eff = Definite(c)
    BY <2>2 DEF Effects
  <2>4. err \in {NoError, ProtocolViolation}
    BY <2>1 DEF RowsError
  <2>5. /\ NoError.is = {} /\ NoError.code = "ok"
        /\ ProtocolViolation.is = {} /\ ProtocolViolation.code = "ProtocolViolation"
    BY DEF NoError, ProtocolViolation, Fault
  <2> HIDE DEF err
  <2>6. QED
    BY <1>0, <2>3, <2>4, <2>5 DEF SoundFor, CausedBy, Definite
<1>2. ASSUME w.form = "json" => w.ok = "false",
             raw # NoError, raw.code \in {"ResultIndeterminate", "ProtocolViolation"}, CausedBy(c, e, raw)
      PROVE  SoundFor(c, err, eff) /\ CausedBy(c, e, err)
  <2>1. err = raw
    BY <1>2 DEF RowsError
  <2> HIDE DEF err, raw
  <2>2. QED
    BY <1>2, <2>1 DEF SoundFor
<1>3. CASE w = Plain("false", "storage_error", Absent)
  <2>1. raw.code = "NativeStorage" /\ raw.is = {}
    BY <1>3, StorageFailure
  <2>2. w.form = "json" /\ w.code = "storage_error" /\ w.ok = "false"
    BY <1>3 DEF Plain
  <2>3. eff = "none"
    BY <2>2 DEF Effects
  <2>4. raw # NoError
    <3>1. NoError.code = "ok"
      BY DEF NoError
    <3>2. QED
      BY <2>1, <3>1
  <2>5. err = raw
    BY <2>4 DEF RowsError
  <2> HIDE DEF err, raw
  <2>6. QED
    BY <2>1, <2>3, <2>4, <2>5 DEF SoundFor, CausedBy
<1>4. ASSUME NEW x \in TokenCauses(c), w = Interrupted(x)
      PROVE  SoundFor(c, err, eff) /\ CausedBy(c, e, err)
  <2>0. x \in {"cancelled", "deadline_exceeded"}
    BY TokenCauseNames
  <2>1. raw.code \in {"NativeTimeout", "NativeUnclassified"} /\ raw.is = CauseSentinel(x)
    BY <1>4, <2>0, CleanInterruption
  <2>2. w.form = "json" /\ w.code = x /\ w.ok = "false"
    BY <1>4 DEF Plain, Interrupted
  <2>3. eff = IF c \in Rollbacks THEN "cleaned" ELSE "none"
    BY <2>0, <2>2 DEF Effects
  <2>4. raw # NoError
    <3>1. NoError.code = "ok"
      BY DEF NoError
    <3>2. QED
      BY <2>1, <3>1
  <2>5. err = raw
    BY <2>4 DEF RowsError
  <2> HIDE DEF err, raw
  <2>6. QED
    BY <1>0, <2>1, <2>3, <2>4, <2>5 DEF SoundFor, CausedBy
<1>5. ASSUME NEW x \in TokenCauses(c), w \in {Indeterminate(x), CleanupFailed(x)}
      PROVE  SoundFor(c, err, eff) /\ CausedBy(c, e, err)
  <2>0. x \in {"cancelled", "deadline_exceeded"}
    BY TokenCauseNames
  <2>1. raw.code = "ResultIndeterminate" /\ raw.is = CauseSentinel(x) \cup ({e} \ {"none"})
    BY <1>5, <2>0, UnknownOutcome, FailedCleanup
  <2>2. w.ok = "false"
    BY <1>5 DEF Plain, Indeterminate, CleanupFailed
  <2>3. raw # NoError
    <3>1. NoError.code = "ok"
      BY DEF NoError
    <3>2. QED
      BY <2>1, <3>1
  <2> HIDE DEF err, raw
  <2>4. CausedBy(c, e, raw)
    BY <2>1 DEF CausedBy
  <2>5. QED
    BY <1>2, <2>1, <2>2, <2>3, <2>4
<1>6. CASE w \in {[form |-> "rc", code |-> "uncertain"], [form |-> "null"], [form |-> "malformed"]}
  <2>1. raw.code \in {"ResultIndeterminate", "ProtocolViolation"} /\ raw.is \subseteq {e} \ {"none"}
    BY <1>6, UnusableAnswer
  <2>2. w.form # "json"
    BY <1>6
  <2>3. raw # NoError
    <3>1. NoError.code = "ok"
      BY DEF NoError
    <3>2. QED
      BY <2>1, <3>1
  <2> HIDE DEF err, raw
  <2>4. CausedBy(c, e, raw)
    BY <2>1 DEF CausedBy
  <2>5. QED
    BY <1>2, <2>1, <2>2, <2>3, <2>4
<1> HIDE DEF err, raw
<1>7. QED
  BY <1>1, <1>3, <1>4, <1>5, <1>6 DEF Responses
-----------------------------------------------------------------------------
(* Outcomes.  Until Core answers, a call has had no effect and no error;   *)
(* from then on its error is sound.  Only a query polls for the lease.     *)
BeforeAnswer ==
  {"idle", "lock", "poll", "leased", "measure", "create", "check", "sleep", "dispatch", "exec"}

AfterAnswer == {"join", "unlock", "done"}

OutcomeInv ==
  \A c \in Calls :
    /\ pc[c] \in BeforeAnswer => effect[c] = "none" /\ result[c] = Pending
    /\ pc[c] \in AfterAnswer => SoundFor(c, result[c], effect[c])
    /\ pc[c] = "poll" => c \in Queries

(* The errors a call returns before Core has seen it.                      *)
LEMMA UndispatchedError ==
  ASSUME NEW k \in {"CapabilityUnavailable", "DatabaseClosed", "NativeUnavailable", "pending"}
  PROVE  Fault(k) # NoError /\ Fault(k).code = k /\ Fault(k).is = {}
<1>1. Fault(k).code = k /\ Fault(k).is = {} /\ NoError.code = "ok" /\ k # "ok"
  BY DEF Fault, NoError
<1>2. QED
  BY <1>1

LEMMA EndedError ==
  ASSUME NEW e
  PROVE  ContextError(e) # NoError /\ ContextError(e).code = "" /\ ContextError(e).is = {e}
<1>1. ContextError(e).code = "" /\ ContextError(e).is = {e} /\ NoError.code = "ok"
  BY DEF ContextError, NoError
<1>2. QED
  BY <1>1

LEMMA OutcomeKept ==
  ASSUME OutcomeInv, UNCHANGED <<effect, result>>,
         \A c \in Calls : /\ pc'[c] \in BeforeAnswer => pc[c] \in BeforeAnswer
                          /\ pc'[c] \in AfterAnswer => pc[c] \in AfterAnswer
                          /\ pc'[c] = "poll" => c \in Queries
  PROVE  OutcomeInv'
BY DEF OutcomeInv, SoundFor

(* A call that returns err before Core has seen it.                        *)
LEMMA OutcomeReturned ==
  ASSUME TypeOK, OutcomeInv, NEW c \in Calls, NEW err, NEW to \in AfterAnswer,
         pc[c] \in BeforeAnswer,
         pc' = [pc EXCEPT ![c] = to], result' = [result EXCEPT ![c] = err], UNCHANGED effect,
         SoundFor(c, err, "none")
  PROVE  OutcomeInv'
<1>1. result'[c] = err /\ effect'[c] = "none" /\ pc'[c] = to /\ to \notin BeforeAnswer /\ to # "poll"
  BY DEF TypeOK, OutcomeInv, AfterAnswer, BeforeAnswer
<1>2. ASSUME NEW d \in Calls, d # c
      PROVE  pc'[d] = pc[d] /\ result'[d] = result[d] /\ effect'[d] = effect[d]
  BY <1>2 DEF TypeOK
<1>3. SoundFor(c, result'[c], effect'[c])
  BY <1>1
<1>4. QED
  BY <1>1, <1>2, <1>3 DEF OutcomeInv, SoundFor

LEMMA OutcomeStep == IInv /\ OutcomeInv /\ [Next]_vars => OutcomeInv'
<1> SUFFICES ASSUME TypeOK, LeaseInv, OutcomeInv, [Next]_vars PROVE OutcomeInv'
  BY DEF IInv
<1>0. \A c \in Calls : (c \in Queries => c \notin Rollbacks) /\ (c \in Queries \/ c \in Rollbacks)
  BY CallsAssumption DEF Calls
<1>1. ASSUME NEW c \in Calls, EnterEnded(c) \/ PollEnded(c) PROVE OutcomeInv'
  <2>1. c \in Queries /\ pc[c] \in BeforeAnswer
    BY <1>1 DEF EnterEnded, PollEnded, Goto, OutcomeInv, BeforeAnswer
  <2>2. /\ pc' = [pc EXCEPT ![c] = "done"] /\ UNCHANGED effect
        /\ result' = [result EXCEPT ![c] = ContextError(ctxErr[c])]
    BY <1>1 DEF EnterEnded, PollEnded, Goto, Return
  <2>3. SoundFor(c, ContextError(ctxErr[c]), "none")
    BY <1>0, <2>1, EndedError DEF SoundFor
  <2>4. QED
    BY <2>1, <2>2, <2>3, OutcomeReturned DEF AfterAnswer
<1>2. ASSUME NEW c \in Calls, EnterUnsupported(c) PROVE OutcomeInv'
  <2>1. pc[c] \in BeforeAnswer
    BY <1>2 DEF EnterUnsupported, Goto, BeforeAnswer
  <2>2. /\ pc' = [pc EXCEPT ![c] = "done"] /\ UNCHANGED effect
        /\ result' = [result EXCEPT ![c] = Fault("CapabilityUnavailable")]
    BY <1>2 DEF EnterUnsupported, Goto, Return
  <2>3. SoundFor(c, Fault("CapabilityUnavailable"), "none")
    BY UndispatchedError DEF SoundFor
  <2>4. QED
    BY <2>1, <2>2, <2>3, OutcomeReturned DEF AfterAnswer
<1>3. ASSUME NEW c \in Calls, TokenUnavailable(c) PROVE OutcomeInv'
  <2>1. pc[c] \in BeforeAnswer
    BY <1>3 DEF TokenUnavailable, Goto, BeforeAnswer
  <2>2. /\ pc' = [pc EXCEPT ![c] = "unlock"] /\ UNCHANGED effect
        /\ result' = [result EXCEPT ![c] = Fault("NativeUnavailable")]
    BY <1>3 DEF TokenUnavailable, Goto, Return
  <2>3. SoundFor(c, Fault("NativeUnavailable"), "none")
    BY UndispatchedError DEF SoundFor
  <2>4. QED
    BY <2>1, <2>2, <2>3, OutcomeReturned DEF AfterAnswer
<1>4. ASSUME NEW c \in Calls, LeaseRejected(c) PROVE OutcomeInv'
  <2>1. pc[c] \in BeforeAnswer /\ pc' = [pc EXCEPT ![c] = "unlock"] /\ UNCHANGED effect
    BY <1>4 DEF LeaseRejected, Goto, BeforeAnswer
  <2>2. CASE result' = [result EXCEPT ![c] = Fault("DatabaseClosed")]
    <3>1. SoundFor(c, Fault("DatabaseClosed"), "none")
      BY UndispatchedError DEF SoundFor
    <3>2. QED
      BY <2>1, <2>2, <3>1, OutcomeReturned DEF AfterAnswer
  <2>3. CASE c \in Queries /\ result' = [result EXCEPT ![c] = ContextError(ctxErr[c])]
    <3>1. SoundFor(c, ContextError(ctxErr[c]), "none")
      BY <1>0, <2>3, EndedError DEF SoundFor
    <3>2. QED
      BY <2>1, <2>3, <3>1, OutcomeReturned DEF AfterAnswer
  <2>4. QED
    BY <1>4, <2>2, <2>3 DEF LeaseRejected, Return
<1>5. ASSUME NEW c \in Calls, NativeReturns(c) PROVE OutcomeInv'
  <2>1. PICK w \in Responses(c) : \E e \in Effects(c, w) : NativeReturn(c, w, e)
    BY <1>5 DEF NativeReturns
  <2>2. PICK eff \in Effects(c, w) : NativeReturn(c, w, eff)
    BY <2>1
  <2> DEFINE e == IF mode[c] = "context" THEN ctxErr[c] ELSE "none"
  <2> DEFINE err == RowsError(c, w, ResponseError(e, w))
  <2>3. e \in {"none"} \cup Sentinels
    BY DEF TypeOK
  <2>4. result' = [result EXCEPT ![c] = err] /\ effect' = [effect EXCEPT ![c] = eff]
    BY <2>2 DEF NativeReturn, Return
  <2> HIDE DEF e
  <2>5. SoundFor(c, err, eff)
    BY <2>3, AnswerIsSound
  <2> HIDE DEF err
  <2>6. pc'[c] \in {"join", "unlock"} /\ result'[c] = err /\ effect'[c] = eff
    BY <2>2, <2>4 DEF NativeReturn, Goto, TypeOK
  <2>7. ASSUME NEW d \in Calls, d # c
        PROVE  pc'[d] = pc[d] /\ result'[d] = result[d] /\ effect'[d] = effect[d]
    BY <2>2, <2>4, <2>7 DEF NativeReturn, Goto, TypeOK
  <2>8. SoundFor(c, result'[c], effect'[c])
    BY <2>5, <2>6
  <2>9. QED
    BY <2>6, <2>7, <2>8 DEF OutcomeInv, SoundFor, BeforeAnswer, AfterAnswer
<1>6. ASSUME NEW c \in Calls,
             \/ Enter(c) \/ CtxCancel(c) \/ CtxExpire(c) \/ WatcherStep(c)
             \/ Lease(c) \/ RLockBlocks(c) \/ PollAgain(c) \/ LeaseAccepted(c) \/ Measure(c)
             \/ CreateToken(c) \/ CheckCtx(c) \/ Wake(c) \/ Dispatch(c) \/ JoinAndFree(c) \/ RUnlock(c)
      PROVE  OutcomeInv'
  <2>1. UNCHANGED <<effect, result>>
    BY <1>6 DEF Enter, CtxCancel, CtxExpire, WatcherStep, WatchCtxDone, WatchCancel, WatchStop,
                Lease, RLockBlocks, PollAgain, LeaseAccepted, Measure, CreateToken, CheckCtx,
                Wake, Dispatch, JoinAndFree, RUnlock, callVars
  <2>2. \A d \in Calls : /\ pc'[d] \in BeforeAnswer => pc[d] \in BeforeAnswer
                         /\ pc'[d] \in AfterAnswer => pc[d] \in AfterAnswer
                         /\ pc'[d] = "poll" => pc[d] = "poll"
    BY <1>6 DEF Enter, CtxCancel, CtxExpire, WatcherStep, WatchCtxDone, WatchCancel, WatchStop,
                Lease, RLockBlocks, PollAgain, LeaseAccepted, Measure, CreateToken, CheckCtx,
                Wake, Dispatch, JoinAndFree, RUnlock, callVars, Goto, TypeOK, BeforeAnswer, AfterAnswer
  <2>3. QED
    BY <2>1, <2>2, OutcomeKept DEF OutcomeInv
<1>7. ASSUME NEW c \in Calls, TryRLockFails(c) PROVE OutcomeInv'
  <2>1. UNCHANGED <<effect, result>> /\ c \in Queries /\ pc[c] = "lock" /\ pc' = [pc EXCEPT ![c] = "poll"]
    BY <1>0, <1>7 DEF TryRLockFails, Goto, Blocking
  <2>2. \A d \in Calls : /\ pc'[d] \in BeforeAnswer => pc[d] \in BeforeAnswer
                         /\ pc'[d] \in AfterAnswer => pc[d] \in AfterAnswer
                         /\ pc'[d] = "poll" => d \in Queries
    BY <2>1 DEF OutcomeInv, TypeOK, BeforeAnswer, AfterAnswer
  <2>3. QED
    BY <2>1, <2>2, OutcomeKept
<1>8. ASSUME NEW k \in Closers, CloseLock(k) \/ CloseHandle(k) PROVE OutcomeInv'
  <2>1. UNCHANGED <<effect, result, pc>>
    BY <1>8 DEF CloseLock, CloseHandle, callVars
  <2>2. QED
    BY <2>1, OutcomeKept DEF OutcomeInv
<1>9. CASE Tick \/ UNCHANGED vars
  <2>1. UNCHANGED <<effect, result, pc>>
    BY <1>9 DEF Tick, vars, callVars
  <2>2. QED
    BY <2>1, OutcomeKept DEF OutcomeInv
<1>10. ASSUME NEW k \in Closers, CloseUnlock(k) PROVE OutcomeInv'
  <2>1. UNCHANGED <<effect, result>> /\ pc' = [c \in Calls |-> IF c \in parked THEN "leased" ELSE pc[c]]
    BY <1>10 DEF CloseUnlock
  <2>2. \A d \in Calls : /\ pc'[d] \in BeforeAnswer => pc[d] \in BeforeAnswer
                         /\ pc'[d] \in AfterAnswer => pc[d] \in AfterAnswer
                         /\ pc'[d] = "poll" => pc[d] = "poll"
    BY <1>10, <2>1 DEF BeforeAnswer, AfterAnswer, LeaseInv
  <2>3. QED
    BY <2>1, <2>2, OutcomeKept DEF OutcomeInv
<1>11. QED
  BY <1>5, <1>6, <1>7, <1>1, <1>2, <1>3, <1>4, <1>8, <1>10, <1>9
  DEF Next, Start, CallStep, CloserStep, Quiescent

LEMMA OutcomeInvariance == Spec => []OutcomeInv
<1>1. Init => OutcomeInv
  BY DEF Init, OutcomeInv, BeforeAnswer, AfterAnswer
<1>2. IInv /\ OutcomeInv /\ [Next]_vars => OutcomeInv'
  BY OutcomeStep
<1>3. QED
  BY <1>1, <1>2, Invariance, PTL DEF Spec

(* A query that returns success was applied, and one that returns any      *)
(* error but ResultIndeterminate and ProtocolViolation was not, however    *)
(* the end of its context races the answer.                                *)
THEOREM OutcomeKnown == Spec => []OutcomeIsKnown
<1>1. OutcomeInv => OutcomeIsKnown
  BY DEF OutcomeInv, OutcomeIsKnown, SoundFor, AfterAnswer, Calls
<1>2. QED
  BY <1>1, OutcomeInvariance, PTL

(* A rollback is never skipped because of its context: it was carried out  *)
(* by Core, or its error says that it may not have been.                   *)
THEOREM RollbacksDispatched == Spec => []RollbackDispatched
<1>1. OutcomeInv => RollbackDispatched
  BY DEF OutcomeInv, RollbackDispatched, SoundFor, AfterAnswer, Calls
<1>2. QED
  BY <1>1, OutcomeInvariance, PTL
-----------------------------------------------------------------------------
(* Causes.  A token is cancelled only for a context its owner cancelled:   *)
(* an expired one always had a positive timeout, which DeadlineEnded sees. *)
Expired(c) == ctx[c].deadline # NoDeadline /\ now >= ctx[c].deadline

SentinelsOwned(c, is) ==
  /\ "Canceled" \in is => ctxErr[c] = "Canceled"
  /\ "DeadlineExceeded" \in is => Expired(c)

CauseInv ==
  \A c \in Calls :
    /\ tokenCancelled[c] \/ watcher[c] = "cancelling" => ctxErr[c] = "Canceled"
    /\ ctxErr[c] = "DeadlineExceeded" => Expired(c)
    /\ pc[c] = "create" \/ token[c] = "live" => (ctx[c].deadline = NoDeadline <=> timeout[c] = 0)
    /\ SentinelsOwned(c, result[c].is)

(* What a step must leave alone for the causes to stay: contexts only end, *)
(* the clock only advances.                                                *)
LEMMA CausesKept ==
  ASSUME TypeOK, CauseInv, now' \in Nat, now' >= now, UNCHANGED <<ctx, ctxErr, timeout, result>>,
         \A c \in Calls :
            /\ tokenCancelled'[c] \/ watcher'[c] = "cancelling" =>
                 tokenCancelled[c] \/ watcher[c] = "cancelling" \/ ctxErr[c] = "Canceled"
            /\ pc'[c] = "create" \/ token'[c] = "live" => pc[c] = "create" \/ token[c] = "live"
  PROVE  CauseInv'
<1>1. ASSUME NEW c \in Calls, Expired(c) PROVE Expired(c)'
  BY <1>1 DEF Expired, TypeOK, NoDeadline
<1>2. QED
  BY <1>1 DEF CauseInv, SentinelsOwned

LEMMA CauseReturned ==
  ASSUME TypeOK, CauseInv, NEW c \in Calls, NEW err, result' = [result EXCEPT ![c] = err],
         UNCHANGED <<now, ctx, ctxErr, timeout, token, tokenCancelled, watcher>>,
         \A d \in Calls : pc'[d] = "create" => pc[d] = "create",
         SentinelsOwned(c, err.is)
  PROVE  CauseInv'
<1>1. result'[c] = err /\ \A d \in Calls : d # c => result'[d] = result[d]
  BY DEF TypeOK
<1>2. \A d \in Calls : SentinelsOwned(d, result'[d].is)
  BY <1>1 DEF CauseInv
<1>3. QED
  BY <1>2 DEF CauseInv, SentinelsOwned, Expired

(* An expired context with a live token always had a positive timeout.     *)
LEMMA OnlyCancelled ==
  ASSUME TypeOK, CauseInv, NEW c \in Calls, token[c] = "live", ctxErr[c] # "none", ~DeadlineEnded(c)
  PROVE  ctxErr[c] = "Canceled"
BY DEF TypeOK, CauseInv, DeadlineEnded, Expired, Sentinels

(* Core reads a cause from the token that is the caller's.                 *)
LEMMA TokenCauseOwned ==
  ASSUME IInv, DeadlineInv, CauseInv, NEW c \in Calls, pc[c] = "exec",
         NEW x \in TokenCauses(c), NEW s \in CauseSentinel(x)
  PROVE  (s = "Canceled" /\ ctxErr[c] = "Canceled") \/ (s = "DeadlineExceeded" /\ Expired(c))
<1>1. mode[c] = "context" /\ token[c] = "live"
  BY DEF IInv, TokenInv, TokenCauses, WithToken
<1>2. CASE x = "cancelled"
  BY <1>2 DEF CauseSentinel, CauseInv, TokenCauses
<1>3. CASE x = "deadline_exceeded"
  <2>1. s = "DeadlineExceeded"
    BY <1>3 DEF CauseSentinel
  <2>2. tokenDeadline[c] # NoDeadline /\ now >= tokenDeadline[c]
    BY <1>3 DEF TokenCauses
  <2>3. ctx[c].deadline # NoDeadline /\ tokenDeadline[c] >= ctx[c].deadline
    BY <1>1, <2>2 DEF DeadlineInv, TokenNotEarly
  <2>4. now \in Nat /\ tokenDeadline[c] \in Nat /\ ctx[c].deadline \in Nat
    BY <2>2, <2>3 DEF IInv, TypeOK
  <2>5. QED
    BY <2>1, <2>2, <2>3, <2>4 DEF Expired
<1>4. QED
  BY <1>2, <1>3, TokenCauseNames

LEMMA CauseStep == IInv /\ DeadlineInv /\ CauseInv /\ [Next]_vars => CauseInv'
<1> SUFFICES ASSUME IInv, DeadlineInv, CauseInv, [Next]_vars PROVE CauseInv'
  OBVIOUS
<1>0. TypeOK /\ TokenInv /\ TokenSafety
  BY DEF IInv, TypeOK, TokenInv, TokenSafety, WithToken, CallStates
<1>1. ASSUME NEW c \in Calls, EnterEnded(c) \/ PollEnded(c) \/ LeaseRejected(c)
      PROVE  CauseInv'
  <2>1. PICK err \in {ContextError(ctxErr[c]), Fault("DatabaseClosed")} :
           result' = [result EXCEPT ![c] = err]
    BY <1>1 DEF EnterEnded, PollEnded, LeaseRejected, Return
  <2>2. UNCHANGED <<now, ctx, ctxErr, timeout, token, tokenCancelled, watcher>>
    BY <1>1 DEF EnterEnded, PollEnded, LeaseRejected, ctxVars, tokenVars
  <2>3. \A d \in Calls : pc'[d] = "create" => pc[d] = "create"
    BY <1>0, <1>1 DEF EnterEnded, PollEnded, LeaseRejected, Goto, TypeOK
  <2>4. SentinelsOwned(c, err.is)
    BY <1>0, <2>1, EndedError, UndispatchedError DEF SentinelsOwned, CauseInv
  <2>5. QED
    BY <1>0, <2>1, <2>2, <2>3, <2>4, CauseReturned
<1>2. ASSUME NEW c \in Calls, EnterUnsupported(c) \/ TokenUnavailable(c) PROVE CauseInv'
  <2>1. PICK err \in {Fault("CapabilityUnavailable"), Fault("NativeUnavailable")} :
           result' = [result EXCEPT ![c] = err]
    BY <1>2 DEF EnterUnsupported, TokenUnavailable, Return
  <2>2. UNCHANGED <<now, ctx, ctxErr, timeout, token, tokenCancelled, watcher>>
    BY <1>2 DEF EnterUnsupported, TokenUnavailable, ctxVars, tokenVars
  <2>3. \A d \in Calls : pc'[d] = "create" => pc[d] = "create"
    BY <1>0, <1>2 DEF EnterUnsupported, TokenUnavailable, Goto, TypeOK
  <2>4. SentinelsOwned(c, err.is)
    BY <2>1, UndispatchedError DEF SentinelsOwned
  <2>5. QED
    BY <1>0, <2>1, <2>2, <2>3, <2>4, CauseReturned
<1>3. ASSUME NEW c \in Calls, NativeReturns(c) PROVE CauseInv'
  <2>1. PICK w \in Responses(c) : \E e \in Effects(c, w) : NativeReturn(c, w, e)
    BY <1>3 DEF NativeReturns
  <2>2. PICK eff \in Effects(c, w) : NativeReturn(c, w, eff)
    BY <2>1
  <2> DEFINE e == IF mode[c] = "context" THEN ctxErr[c] ELSE "none"
  <2> DEFINE err == RowsError(c, w, ResponseError(e, w))
  <2>3. e \in {"none"} \cup Sentinels /\ (e # "none" => e = ctxErr[c])
    BY <1>0 DEF TypeOK
  <2>4. /\ result' = [result EXCEPT ![c] = err] /\ pc[c] = "exec"
        /\ UNCHANGED <<now, ctx, ctxErr, timeout, token, tokenCancelled, watcher>>
    BY <2>2 DEF NativeReturn, Return, Goto, ctxVars, tokenVars
  <2> HIDE DEF e
  <2>5. CausedBy(c, e, err)
    BY <2>3, AnswerIsSound
  <2> HIDE DEF err
  <2>6. ASSUME NEW s \in err.is, s \in Sentinels
        PROVE  (s = "Canceled" /\ ctxErr[c] = "Canceled") \/ (s = "DeadlineExceeded" /\ Expired(c))
    <3>1. CASE s = e
      BY <2>3, <2>6, <3>1 DEF Sentinels, CauseInv
    <3>2. CASE \E x \in TokenCauses(c) : s \in CauseSentinel(x)
      BY <2>4, <3>2, TokenCauseOwned
    <3>3. QED
      BY <2>5, <3>1, <3>2 DEF CausedBy
  <2>7. SentinelsOwned(c, err.is)
    BY <2>6 DEF SentinelsOwned, Sentinels
  <2>8. \A d \in Calls : pc'[d] = "create" => pc[d] = "create"
    BY <1>0, <2>2 DEF NativeReturn, Goto, TypeOK
  <2>9. QED
    BY <1>0, <2>4, <2>7, <2>8, CauseReturned
<1>4. ASSUME NEW c \in Calls, Measure(c) PROVE CauseInv'
  <2>1. /\ pc[c] = "measure" /\ pc' = [pc EXCEPT ![c] = "create"]
        /\ timeout' = [timeout EXCEPT ![c] = TimeoutMillis(ctx[c].deadline, now)]
        /\ UNCHANGED <<now, ctx, ctxErr, token, tokenCancelled, watcher, result>>
    BY <1>4 DEF Measure, Goto, ctxVars
  <2>2. ctx[c].deadline = NoDeadline <=> TimeoutMillis(ctx[c].deadline, now) = 0
    BY <1>0, TimeoutCovers DEF TypeOK
  <2>3. timeout'[c] = TimeoutMillis(ctx[c].deadline, now)
    BY <1>0, <2>1 DEF TypeOK
  <2>4. \A d \in Calls : d # c => timeout'[d] = timeout[d] /\ pc'[d] = pc[d]
    BY <1>0, <2>1 DEF TypeOK
  <2>5. QED
    BY <2>1, <2>2, <2>3, <2>4 DEF CauseInv, SentinelsOwned, Expired
<1>5. ASSUME NEW c \in Calls, CreateToken(c) PROVE CauseInv'
  <2>1. /\ now' = now /\ UNCHANGED <<ctx, ctxErr, timeout, result, tokenCancelled>>
        /\ pc[c] = "create" /\ pc' = [pc EXCEPT ![c] = "check"]
        /\ token' = [token EXCEPT ![c] = "live"] /\ watcher' = [watcher EXCEPT ![c] = "watching"]
    BY <1>5 DEF CreateToken, Goto, ctxVars
  <2>2. \A d \in Calls :
          /\ tokenCancelled'[d] \/ watcher'[d] = "cancelling" => tokenCancelled[d] \/ watcher[d] = "cancelling"
          /\ pc'[d] = "create" \/ token'[d] = "live" => pc[d] = "create" \/ token[d] = "live"
    BY <1>0, <2>1 DEF TypeOK
  <2>3. QED
    BY <1>0, <2>1, <2>2, CausesKept DEF TypeOK
<1>6. ASSUME NEW c \in Calls, CheckCtx(c) PROVE CauseInv'
  <2>1. /\ pc[c] = "check" /\ now' = now
        /\ UNCHANGED <<ctx, ctxErr, timeout, result, token, watcher>>
    BY <1>6 DEF CheckCtx, Goto, ctxVars
  <2>2. token[c] = "live"
    BY <1>0, <2>1 DEF TokenInv, WithToken
  <2>3. \A d \in Calls : pc'[d] = "create" => pc[d] = "create"
    BY <1>0, <1>6 DEF CheckCtx, Goto, TypeOK
  <2>4. \A d \in Calls : tokenCancelled'[d] => tokenCancelled[d] \/ (d = c /\ ctxErr[c] # "none" /\ ~DeadlineEnded(c))
    BY <1>0, <1>6 DEF CheckCtx, TypeOK
  <2>5. \A d \in Calls : tokenCancelled'[d] => tokenCancelled[d] \/ ctxErr[d] = "Canceled"
    BY <1>0, <2>2, <2>4, OnlyCancelled
  <2>6. QED
    BY <1>0, <2>1, <2>3, <2>5, CausesKept DEF TypeOK
<1>7. ASSUME NEW c \in Calls, WatchCtxDone(c) PROVE CauseInv'
  <2>1. /\ watcher[c] = "watching" /\ ctxErr[c] # "none" /\ now' = now
        /\ watcher' = [watcher EXCEPT ![c] = IF DeadlineEnded(c) THEN "exited" ELSE "cancelling"]
        /\ UNCHANGED <<ctx, ctxErr, timeout, result, token, tokenCancelled, pc>>
    BY <1>7 DEF WatchCtxDone, ctxVars, callVars
  <2>2. token[c] = "live"
    BY <1>0, <2>1 DEF TokenSafety
  <2>3. ~DeadlineEnded(c) => ctxErr[c] = "Canceled"
    BY <1>0, <2>1, <2>2, OnlyCancelled
  <2>4. \A d \in Calls : watcher'[d] = "cancelling" => watcher[d] = "cancelling" \/ ctxErr[d] = "Canceled"
    BY <1>0, <2>1, <2>3 DEF TypeOK
  <2>5. QED
    BY <1>0, <2>1, <2>4, CausesKept DEF TypeOK
<1>8. ASSUME NEW c \in Calls, WatchCancel(c) \/ WatchStop(c) PROVE CauseInv'
  <2>1. now' = now /\ UNCHANGED <<ctx, ctxErr, timeout, result, token, pc>>
    BY <1>8 DEF WatchCancel, WatchStop, ctxVars, callVars
  <2>2. \A d \in Calls : tokenCancelled'[d] \/ watcher'[d] = "cancelling"
                           => tokenCancelled[d] \/ watcher[d] = "cancelling"
    BY <1>0, <1>8 DEF WatchCancel, WatchStop, TypeOK
  <2>3. QED
    BY <1>0, <2>1, <2>2, CausesKept DEF TypeOK
<1>9. ASSUME NEW c \in Calls, CtxCancel(c) \/ CtxExpire(c) PROVE CauseInv'
  <2>1. /\ ctxErr[c] = "none"
        /\ UNCHANGED <<now, ctx, timeout, result, token, tokenCancelled, watcher, pc>>
    BY <1>9 DEF CtxCancel, CtxExpire, tokenVars, callVars
  <2>2. \A d \in Calls : d # c => ctxErr'[d] = ctxErr[d]
    BY <1>0, <1>9 DEF CtxCancel, CtxExpire, TypeOK
  <2>3. ctxErr'[c] = "DeadlineExceeded" => Expired(c)
    BY <1>0, <1>9 DEF CtxCancel, CtxExpire, TypeOK, Expired
  <2>4. QED
    BY <2>1, <2>2, <2>3 DEF CauseInv, SentinelsOwned, Expired
<1>10. ASSUME NEW c \in Calls,
             \/ Enter(c) \/ Lease(c) \/ RLockBlocks(c) \/ TryRLockFails(c) \/ PollAgain(c)
             \/ LeaseAccepted(c) \/ Wake(c) \/ Dispatch(c) \/ JoinAndFree(c) \/ RUnlock(c)
      PROVE  CauseInv'
  <2>1. now' = now /\ UNCHANGED <<ctx, ctxErr, timeout, result, tokenCancelled, watcher>>
    BY <1>10 DEF Enter, Lease, RLockBlocks, TryRLockFails, PollAgain, LeaseAccepted, Wake, Dispatch,
                 JoinAndFree, RUnlock, ctxVars, tokenVars, callVars
  <2>2. \A d \in Calls : pc'[d] = "create" \/ token'[d] = "live" => pc[d] = "create" \/ token[d] = "live"
    BY <1>0, <1>10 DEF Enter, Lease, RLockBlocks, TryRLockFails, PollAgain, LeaseAccepted, Wake, Dispatch,
                 JoinAndFree, RUnlock, Goto, TypeOK, tokenVars, callVars
  <2>3. QED
    BY <1>0, <2>1, <2>2, CausesKept DEF TypeOK
<1>11. ASSUME NEW k \in Closers, CloseLock(k) \/ CloserStep(k) PROVE CauseInv'
  <2>1. now' = now /\ UNCHANGED <<ctx, ctxErr, timeout, result, token, tokenCancelled, watcher>>
    BY <1>11 DEF CloserStep, CloseLock, CloseHandle, CloseUnlock, ctxVars, tokenVars, callVars
  <2>2. \A d \in Calls : pc'[d] = "create" => pc[d] = "create"
    BY <1>11 DEF CloserStep, CloseLock, CloseHandle, CloseUnlock, callVars
  <2>3. QED
    BY <1>0, <2>1, <2>2, CausesKept DEF TypeOK
<1>12. CASE Tick \/ UNCHANGED vars
  <2>1. UNCHANGED <<ctx, ctxErr, timeout, result, token, tokenCancelled, watcher, pc>>
    BY <1>12 DEF Tick, vars, ctxVars, tokenVars, callVars
  <2>2. now' \in Nat /\ now' >= now
    BY <1>0, <1>12 DEF Tick, vars, TypeOK
  <2>3. QED
    BY <1>0, <2>1, <2>2, CausesKept
<1>13. QED
  BY <1>4, <1>5, <1>6, <1>1, <1>2, <1>3, <1>7, <1>8, <1>9, <1>12, <1>11, <1>10
  DEF Next, Start, CallStep, WatcherStep, Quiescent

(* The cause a caller is told is its own: "cancelled" only after the owner *)
(* cancelled, "deadline exceeded" only after its own deadline.             *)
THEOREM CauseOwned == Spec => []CauseIsTheCallers
<1>1. Init => CauseInv /\ DeadlineInv
  <2>1. Init => CauseInv
    BY UndispatchedError DEF Init, CauseInv, SentinelsOwned, Pending
  <2>2. Init => DeadlineInv
    BY DEF Init, DeadlineInv, CoverInv, TokenNotEarly
  <2>3. QED
    BY <2>1, <2>2
<1>2. IInv /\ DeadlineInv /\ CauseInv /\ [Next]_vars => DeadlineInv' /\ CauseInv'
  BY DeadlineStep, CauseStep DEF IInv
<1>3. CauseInv => CauseIsTheCallers
  BY DEF CauseInv, SentinelsOwned, Expired, CauseIsTheCallers
<1>4. QED
  BY <1>1, <1>2, <1>3, Invariance, PTL DEF Spec
-----------------------------------------------------------------------------
(* The slept-out millisecond.  A token with the 1 ms timeout expires at    *)
(* most one millisecond after any later instant, and an expired rollback   *)
(* sleeps that long before it is dispatched.                               *)
BeforeCheck == {"idle", "lock", "poll", "leased", "measure", "create", "check"}

WakeInv ==
  \A c \in Calls :
    /\ pc[c] \in BeforeCheck => wake[c] = NoDeadline
    /\ token[c] = "live" /\ timeout[c] = 1 => tokenDeadline[c] <= now + TicksPerMs
    /\ pc[c] \in {"sleep", "dispatch"} /\ wake[c] # NoDeadline /\ timeout[c] = 1
         => wake[c] >= tokenDeadline[c]
    /\ pc[c] = "dispatch" /\ wake[c] # NoDeadline => now >= wake[c]

LEMMA WakeKept ==
  ASSUME TypeOK, WakeInv, now' \in Nat, now' >= now, UNCHANGED <<timeout, tokenDeadline, wake>>,
         \A c \in Calls :
            /\ token'[c] = "live" => token[c] = "live"
            /\ pc'[c] \in BeforeCheck => pc[c] \in BeforeCheck
            /\ pc'[c] = "sleep" => pc[c] = "sleep"
            /\ pc'[c] = "dispatch" => pc[c] = "dispatch"
  PROVE  WakeInv'
BY TimeAssumption DEF WakeInv, TypeOK, NoDeadline

LEMMA WakeStep == IInv /\ WakeInv /\ [Next]_vars => WakeInv'
<1> SUFFICES ASSUME IInv, WakeInv, [Next]_vars PROVE WakeInv'
  OBVIOUS
<1>0. TypeOK /\ LeaseInv /\ TokenInv
  BY DEF IInv
<1>1. ASSUME NEW c \in Calls, Measure(c) PROVE WakeInv'
  <2>1. /\ pc[c] = "measure" /\ pc' = [pc EXCEPT ![c] = "create"]
        /\ \A d \in Calls : d # c => timeout'[d] = timeout[d]
        /\ UNCHANGED <<now, token, tokenDeadline, wake>>
    BY <1>0, <1>1 DEF Measure, Goto, TypeOK
  <2>2. token[c] = "none"
    BY <1>0, <2>1 DEF TokenInv
  <2>3. QED
    BY <1>0, <2>1, <2>2 DEF WakeInv, TypeOK, BeforeCheck
<1>2. ASSUME NEW c \in Calls, CreateToken(c) PROVE WakeInv'
  <2>1. /\ pc[c] = "create" /\ pc' = [pc EXCEPT ![c] = "check"]
        /\ \A d \in Calls : d # c => tokenDeadline'[d] = tokenDeadline[d] /\ token'[d] = token[d]
        /\ tokenDeadline'[c] = IF timeout[c] = 0 THEN NoDeadline ELSE now + timeout[c] * TicksPerMs
        /\ UNCHANGED <<now, timeout, wake>>
    BY <1>0, <1>2 DEF CreateToken, Goto, TypeOK
  <2>2. timeout[c] = 1 => tokenDeadline'[c] = now + TicksPerMs
    BY <2>1, TimeAssumption
  <2>3. now \in Nat /\ TicksPerMs \in Nat
    BY <1>0, TimeAssumption DEF TypeOK
  <2>4. QED
    BY <1>0, <2>1, <2>2, <2>3 DEF WakeInv, TypeOK, BeforeCheck
<1>3. ASSUME NEW c \in Calls, CheckCtx(c) PROVE WakeInv'
  <2>1. /\ pc[c] = "check" /\ wake[c] = NoDeadline
        /\ UNCHANGED <<now, timeout, token, tokenDeadline>>
    BY <1>3 DEF CheckCtx, Goto, WakeInv, BeforeCheck
  <2>2. token[c] = "live"
    BY <1>0, <2>1 DEF TokenInv, WithToken
  <2>3. \A d \in Calls : d # c => wake'[d] = wake[d] /\ pc'[d] = pc[d]
    BY <1>0, <1>3 DEF CheckCtx, Goto, TypeOK
  <2>4. \/ pc'[c] = "dispatch" /\ wake'[c] = NoDeadline
        \/ pc'[c] = "sleep" /\ wake'[c] = now + TicksPerMs
    BY <1>0, <1>3, <2>1 DEF CheckCtx, Goto, TypeOK
  <2>5. timeout[c] = 1 => tokenDeadline[c] <= now + TicksPerMs
    BY <2>2 DEF WakeInv
  <2>6. now \in Nat /\ TicksPerMs \in Nat /\ tokenDeadline[c] \in Int
    BY <1>0, TimeAssumption DEF TypeOK, NoDeadline
  <2>7. QED
    BY <2>1, <2>2, <2>3, <2>4, <2>5, <2>6 DEF WakeInv, BeforeCheck
<1>4. ASSUME NEW c \in Calls, Wake(c) PROVE WakeInv'
  BY <1>0, <1>4 DEF Wake, Goto, WakeInv, TypeOK, BeforeCheck, tokenVars
<1>5. ASSUME NEW c \in Calls,
             \/ Start(c) \/ CtxCancel(c) \/ CtxExpire(c) \/ WatcherStep(c) \/ NativeReturns(c)
             \/ Lease(c) \/ RLockBlocks(c) \/ TryRLockFails(c) \/ PollEnded(c) \/ PollAgain(c)
             \/ LeaseRejected(c) \/ LeaseAccepted(c) \/ TokenUnavailable(c) \/ Dispatch(c)
             \/ JoinAndFree(c) \/ RUnlock(c)
      PROVE  WakeInv'
  <2>1. now' = now /\ UNCHANGED <<timeout, tokenDeadline, wake>>
    BY <1>5 DEF Start, EnterEnded, EnterUnsupported, Enter, CtxCancel, CtxExpire, WatcherStep,
                WatchCtxDone, WatchCancel, WatchStop, NativeReturns, NativeReturn, Lease,
                RLockBlocks, TryRLockFails, PollEnded, PollAgain, LeaseRejected, LeaseAccepted,
                TokenUnavailable, Dispatch, JoinAndFree, RUnlock, tokenVars, callVars
  <2>2. \A d \in Calls : token'[d] = "live" => token[d] = "live"
    BY <1>0, <1>5
         DEF Start, EnterEnded, EnterUnsupported, Enter, CtxCancel, CtxExpire, WatcherStep,
             WatchCtxDone, WatchCancel, WatchStop, NativeReturns, NativeReturn, Lease,
             RLockBlocks, TryRLockFails, PollEnded, PollAgain, LeaseRejected, LeaseAccepted,
             TokenUnavailable, Dispatch, JoinAndFree, RUnlock, tokenVars, TypeOK
  <2>3. \A d \in Calls : /\ pc'[d] \in BeforeCheck => pc[d] \in BeforeCheck
                         /\ pc'[d] = "sleep" => pc[d] = "sleep"
                         /\ pc'[d] = "dispatch" => pc[d] = "dispatch"
    BY <1>0, <1>5
         DEF Start, EnterEnded, EnterUnsupported, Enter, CtxCancel, CtxExpire, WatcherStep,
             WatchCtxDone, WatchCancel, WatchStop, NativeReturns, NativeReturn, Lease,
             RLockBlocks, TryRLockFails, PollEnded, PollAgain, LeaseRejected, LeaseAccepted,
             TokenUnavailable, Dispatch, JoinAndFree, RUnlock, callVars, Goto, TypeOK, BeforeCheck
  <2>4. QED
    BY <1>0, <2>1, <2>2, <2>3, WakeKept DEF TypeOK
<1>6. ASSUME NEW k \in Closers, CloseLock(k) \/ CloserStep(k) PROVE WakeInv'
  <2>1. now' = now /\ UNCHANGED <<timeout, token, tokenDeadline, wake>>
    BY <1>6 DEF CloserStep, CloseLock, CloseHandle, CloseUnlock, tokenVars, callVars
  <2>2. \A d \in Calls : /\ pc'[d] \in BeforeCheck => pc[d] \in BeforeCheck
                         /\ pc'[d] = "sleep" => pc[d] = "sleep"
                         /\ pc'[d] = "dispatch" => pc[d] = "dispatch"
    BY <1>0, <1>6 DEF CloserStep, CloseLock, CloseHandle, CloseUnlock, callVars, LeaseInv, BeforeCheck
  <2>3. QED
    BY <1>0, <2>1, <2>2, WakeKept DEF TypeOK
<1>7. CASE Tick \/ UNCHANGED vars
  <2>1. UNCHANGED <<timeout, token, tokenDeadline, wake, pc>>
    BY <1>7 DEF Tick, vars, tokenVars, callVars
  <2>2. now' \in Nat /\ now' >= now
    BY <1>0, <1>7 DEF Tick, vars, TypeOK
  <2>3. QED
    BY <1>0, <2>1, <2>2, WakeKept
<1>8. QED
  BY <1>5, <1>1, <1>2, <1>3, <1>4, <1>7, <1>6 DEF Next, CallStep, Quiescent

(* A rollback that entered expired and measured the 1 ms timeout reaches   *)
(* Core with a token that has expired, whatever time its steps take.       *)
THEOREM ExpiredStaysExpired == Spec => ExpiredAtEntryStaysExpired
<1>1. Init => WakeInv
  BY DEF Init, WakeInv, BeforeCheck
<1>2. IInv /\ WakeInv /\ [Next]_vars => WakeInv'
  BY WakeStep
<1>3. IInv /\ WakeInv =>
        \A c \in Rollbacks : (Dispatch(c) /\ wake[c] # NoDeadline /\ timeout[c] = 1) => now >= tokenDeadline[c]
  <2> SUFFICES ASSUME IInv, WakeInv, NEW c \in Rollbacks, Dispatch(c), wake[c] # NoDeadline, timeout[c] = 1
               PROVE  now >= tokenDeadline[c]
    OBVIOUS
  <2>1. c \in Calls /\ pc[c] = "dispatch"
    BY DEF Calls, Dispatch, Goto
  <2>2. now >= wake[c] /\ wake[c] >= tokenDeadline[c]
    BY <2>1 DEF WakeInv
  <2>3. now \in Nat /\ wake[c] \in Int /\ tokenDeadline[c] \in Int
    BY <2>1 DEF IInv, TypeOK, NoDeadline
  <2>4. QED
    BY <2>2, <2>3
<1>4. QED
  BY <1>1, <1>2, <1>3, Invariance, PTL DEF Spec, ExpiredAtEntryStaysExpired
-----------------------------------------------------------------------------
(* Any response at all, whoever built it: no field is assumed to have a    *)
(* value the SDK knows.                                                    *)

Violation(s) == Err("ProtocolViolation", "", s)

LEMMA ViolationParts ==
  ASSUME NEW s
  PROVE  /\ Violation(s).code = "ProtocolViolation" /\ Violation(s).is = s
         /\ Violation(s) # NoError
         /\ \A t : JoinSentinels(Violation(s), t) = Violation(s \cup t)
<1> DEFINE k == "ProtocolViolation"
           n == ""
<1>1. k \in {"ResultIndeterminate", "NativeTimeout", "NativeStorage", "NativeUnclassified", "ProtocolViolation"}
  OBVIOUS
<1>2. Violation(s) = Err(k, n, s) /\ \A t : Violation(s \cup t) = Err(k, n, s \cup t)
  BY DEF Violation
<1>3. k = "ProtocolViolation"
  OBVIOUS
<1> HIDE DEF k, n
<1>4. Err(k, n, s) # NoError /\ Err(k, n, s).code = k /\ Err(k, n, s).is = s
  BY <1>1, ErrIsNoError
<1>5. \A t : JoinSentinels(Err(k, n, s), t) = Err(k, n, s \cup t)
  BY ErrJoined
<1>6. QED
  BY <1>2, <1>3, <1>4, <1>5

(* The base envelope decodes to success without a machine code, to a       *)
(* protocol violation, or to the error of its code.                        *)
LEMMA BaseDecodes ==
  ASSUME NEW w
  PROVE  \/ decodeCommandResult(w) = NoError /\ w.ok = "true" /\ w.code = ""
         \/ decodeCommandResult(w) = Violation({})
         \/ /\ decodeCommandResult(w) = Err(newNativeError(w.code).code, w.code, {})
            /\ newNativeError(w.code).code \notin {"ok", "ProtocolViolation"}
            /\ w.ok = "false"
<1>1. ProtocolViolation = Violation({})
  BY DEF ProtocolViolation, Fault, Violation, Err
<1>2. newNativeError(w.code) = Err(newNativeError(w.code).code, w.code, {})
  BY DEF newNativeError, Err
<1>3. newNativeError(w.code).code \notin {"ok", "ProtocolViolation"}
  BY DEF newNativeError
<1>4. QED
  BY <1>1, <1>2, <1>3, Zenon DEF decodeCommandResult

(* The tail of the decoder joins sentinels to whatever the base said.      *)
LEMMA TailDecodes ==
  ASSUME NEW w, NEW inner
  PROVE  \/ DecodeBase(w, inner) = NoError /\ w.ok = "true" /\ w.code = ""
         \/ DecodeBase(w, inner) = Violation(inner.is \cup CauseSentinel(w.cause))
         \/ /\ DecodeBase(w, inner) = Err(newNativeError(w.code).code, w.code, inner.is \cup CauseSentinel(w.cause))
            /\ newNativeError(w.code).code \notin {"ok", "ProtocolViolation"}
            /\ w.ok = "false"
<1> DEFINE s == inner.is \cup CauseSentinel(w.cause)
           k == newNativeError(w.code).code
<1>1. CASE decodeCommandResult(w) = NoError /\ w.ok = "true" /\ w.code = ""
  BY <1>1 DEF DecodeBase
<1>2. CASE decodeCommandResult(w) = Violation({})
  <2>1. Violation({}) # NoError
    BY ViolationParts
  <2>2. JoinSentinels(Violation({}), s) = Violation({} \cup s)
    BY ViolationParts
  <2>3. {} \cup s = s
    OBVIOUS
  <2>4. DecodeBase(w, inner) = JoinSentinels(Violation({}), s)
    BY <1>2, <2>1 DEF DecodeBase
  <2>5. QED
    BY <2>2, <2>3, <2>4
<1>3. CASE /\ decodeCommandResult(w) = Err(k, w.code, {})
           /\ k \notin {"ok", "ProtocolViolation"} /\ w.ok = "false"
  <2>1. Err(k, w.code, {}) # NoError
    BY <1>3 DEF Err, NoError
  <2>2. JoinSentinels(Err(k, w.code, {}), s) = Err(k, w.code, {} \cup s)
    BY ErrJoined
  <2>3. {} \cup s = s
    OBVIOUS
  <2>4. DecodeBase(w, inner) = JoinSentinels(Err(k, w.code, {}), s)
    BY <1>3, <2>1 DEF DecodeBase
  <2>5. QED
    BY <1>3, <2>2, <2>3, <2>4
<1>4. QED
  BY <1>1, <1>2, <1>3, BaseDecodes

(* An error of the decoder, by what it says about the envelope.            *)
Decoded(w, err, causes) ==
  \/ err = NoError /\ w.ok = "true" /\ w.code = ""
  \/ \E s \in SUBSET causes : err = Violation(s)
  \/ /\ \E s \in SUBSET causes : err = Err(newNativeError(w.code).code, w.code, s)
     /\ newNativeError(w.code).code \notin {"ok", "ProtocolViolation"}
     /\ w.ok = "false"

LEMMA FlatDecodes ==
  ASSUME NEW w
  PROVE  /\ Decoded(w, DecodeFlat(w), CauseSentinel(w.cause))
         /\ DecodeFlat(w) # NoError /\ DecodeFlat(w).code # "ProtocolViolation" =>
              /\ DecodeFlat(w).is = CauseSentinel(w.cause)
              /\ w.ok = "false"
<1> DEFINE c == CauseSentinel(w.cause)
<1>1. NoError.is = {} /\ {} \cup c = c /\ NoError.is \cup c = c
  BY DEF NoError
<1>2. CASE Extended(w) /\ ~ExtensionValid(w)
  <2>1. DecodeFlat(w) = Violation({})
    BY <1>2 DEF DecodeFlat, ProtocolViolation, Fault, Violation, Err
  <2>2. Violation({}).code = "ProtocolViolation"
    BY ViolationParts
  <2>3. QED
    BY <2>1, <2>2 DEF Decoded
<1>3. CASE ~(Extended(w) /\ ~ExtensionValid(w))
  <2>1. DecodeFlat(w) = DecodeBase(w, NoError)
    BY <1>3 DEF DecodeFlat
  <2> HIDE DEF c
  <2>3. \/ DecodeFlat(w) = NoError /\ w.ok = "true" /\ w.code = ""
        \/ DecodeFlat(w) = Violation(c)
        \/ /\ DecodeFlat(w) = Err(newNativeError(w.code).code, w.code, c)
           /\ newNativeError(w.code).code \notin {"ok", "ProtocolViolation"}
           /\ w.ok = "false"
    BY <1>1, <2>1, TailDecodes DEF c
  <2>4. Decoded(w, DecodeFlat(w), c)
    BY <2>3 DEF Decoded
  <2>5. DecodeFlat(w) # NoError /\ DecodeFlat(w).code # "ProtocolViolation" =>
          DecodeFlat(w).is = c /\ w.ok = "false"
    <3>1. CASE DecodeFlat(w) = Violation(c)
      BY <3>1, ViolationParts
    <3>2. CASE DecodeFlat(w) = Err(newNativeError(w.code).code, w.code, c) /\ w.ok = "false"
      BY <3>2 DEF Err
    <3>3. QED
      BY <2>3, <3>1, <3>2
  <2>6. QED
    BY <2>4, <2>5 DEF c
<1>4. QED
  BY <1>2, <1>3

(* The sentinels a response can put into the error tree before ctx.Err()   *)
(* is looked at.                                                           *)
NamedCauses(w) ==
  CauseSentinel(w.cause)
    \cup (IF w.cause = "cleanup_failed" /\ w.interruption.form = "json"
          THEN CauseSentinel(w.interruption.cause) ELSE {})

LEMMA ContextDecodes ==
  ASSUME NEW w
  PROVE  LET err == decodeSQLContextCommandResult(w)
         IN  /\ Decoded(w, err, NamedCauses(w))
             /\ w.cause = "cleanup_failed" /\ err # NoError /\ err.code # "ProtocolViolation" =>
                  /\ w.interruption.form = "json" /\ w.interruption.ok = "false"
                  /\ w.interruption.cause \in {"cancelled", "deadline_exceeded"}
                  /\ CauseSentinel(w.interruption.cause) \subseteq err.is
                  /\ w.retryable = "false"
<1> DEFINE err == decodeSQLContextCommandResult(w)
           inner == DecodeFlat(w.interruption)
           named == NamedCauses(w)
<1>1. \A s : Violation(s).code = "ProtocolViolation"
  BY ViolationParts
<1>2. ProtocolViolation = Violation({})
  BY DEF ProtocolViolation, Fault, Violation, Err
<1>3. err = ProtocolViolation => Decoded(w, err, named) /\ err.code = "ProtocolViolation"
  BY <1>1, <1>2 DEF Decoded
<1>4. CASE w.form = "malformed"
  BY <1>3, <1>4 DEF decodeSQLContextCommandResult
<1>5. CASE w.form # "malformed" /\ w.cause # "cleanup_failed"
  <2>1. err = DecodeFlat(w) /\ named = CauseSentinel(w.cause)
    BY <1>5 DEF decodeSQLContextCommandResult, NamedCauses
  <2>2. Decoded(w, err, named)
    BY <2>1, FlatDecodes
  <2>3. QED
    BY <1>5, <2>2
<1>6. CASE w.form # "malformed" /\ w.cause = "cleanup_failed"
  <2>1. CASE ~ExtensionValid(w) \/ ~CleanupShapeValid(w)
    <3>1. err = ProtocolViolation
      BY <1>6, <2>1 DEF decodeSQLContextCommandResult
    <3>2. QED
      BY <1>3, <3>1
  <2>2. CASE ExtensionValid(w) /\ CleanupShapeValid(w)
    <3>1. /\ w.interruption.form = "json" /\ w.retryable = "false"
          /\ w.interruption.cause \in {"cancelled", "deadline_exceeded"}
      BY <2>2 DEF ExtensionValid, CleanupShapeValid
    <3>2. CauseSentinel(w.cause) = {}
      BY <1>6 DEF CauseSentinel
    <3>3. named = CauseSentinel(w.interruption.cause)
      BY <1>6, <3>1, <3>2 DEF NamedCauses
    <3>4. /\ Decoded(w.interruption, inner, named)
          /\ inner # NoError /\ inner.code # "ProtocolViolation" =>
               inner.is = named /\ w.interruption.ok = "false"
      BY <3>3, FlatDecodes
    <3> HIDE DEF inner, named
    <3>5. CASE inner = NoError \/ inner.code = "ProtocolViolation"
      <4>1. err = JoinSentinels(ProtocolViolation, inner.is)
        BY <1>6, <2>2, <3>5 DEF decodeSQLContextCommandResult, inner
      <4>2. err = Violation({} \cup inner.is)
        BY <1>2, <4>1, ViolationParts
      <4>3. inner.is \subseteq named
        <5>1. CASE inner = NoError
          BY <5>1 DEF NoError
        <5>2. CASE \E s \in SUBSET named : inner = Violation(s)
          BY <5>2, ViolationParts
        <5>3. CASE \E s \in SUBSET named :
                     inner = Err(newNativeError(w.interruption.code).code, w.interruption.code, s)
          BY <5>3 DEF Err
        <5>4. QED
          BY <3>4, <5>1, <5>2, <5>3 DEF Decoded
      <4>4. {} \cup inner.is \in SUBSET named
        BY <4>3
      <4>5. Decoded(w, err, named)
        BY <4>2, <4>4 DEF Decoded
      <4>6. err.code = "ProtocolViolation"
        BY <1>1, <4>2
      <4>7. QED
        BY <4>5, <4>6 DEF named
    <3>6. CASE inner # NoError /\ inner.code # "ProtocolViolation"
      <4>1. err = DecodeBase(w, inner)
        BY <1>6, <2>2, <3>6 DEF decodeSQLContextCommandResult, inner
      <4>2. inner.is \cup CauseSentinel(w.cause) = named /\ w.interruption.ok = "false"
        BY <3>2, <3>4, <3>6
      <4>3. \/ err = NoError /\ w.ok = "true" /\ w.code = ""
            \/ err = Violation(named)
            \/ /\ err = Err(newNativeError(w.code).code, w.code, named)
               /\ newNativeError(w.code).code \notin {"ok", "ProtocolViolation"}
               /\ w.ok = "false"
        BY <4>1, <4>2, TailDecodes
      <4>4. Decoded(w, err, named)
        BY <4>3 DEF Decoded
      <4>5. err # NoError => err.is = named
        <5>1. CASE err = Violation(named)
          BY <5>1, ViolationParts
        <5>2. CASE err = Err(newNativeError(w.code).code, w.code, named)
          BY <5>2 DEF Err
        <5>3. QED
          BY <4>3, <5>1, <5>2
      <4>6. QED
        BY <3>1, <3>3, <4>2, <4>4, <4>5 DEF named
    <3>7. QED
      BY <3>5, <3>6
  <2>3. QED
    BY <2>1, <2>2
<1>7. QED
  BY <1>4, <1>5, <1>6

(* ctx.Err() adds the sentinel of the native code or, to an uncertain      *)
(* outcome, its own; it changes nothing else.                              *)
LEMMA ContextAdds ==
  ASSUME NEW e, NEW k, NEW n, NEW s, k # "ok"
  PROVE  \E x : /\ sqlContextError(e, Err(k, n, s)) = Err(k, n, s \cup x)
                /\ \A t \in x : t \in CauseSentinel(n) \/ (k = "ResultIndeterminate" /\ t = e)
<1> DEFINE err == Err(k, n, s)
<1>1. err # NoError /\ err.code = k /\ err.native = n
  BY DEF Err, NoError
<1>2. \A x : JoinSentinels(err, x) = Err(k, n, s \cup x)
  BY ErrJoined
<1> HIDE DEF err
<1>5. CASE n \in {"cancelled", "deadline_exceeded"}
  <2>1. sqlContextError(e, err) = Err(k, n, s \cup CauseSentinel(n))
    BY <1>1, <1>2, <1>5 DEF sqlContextError
  <2> DEFINE x == CauseSentinel(n)
  <2>2. \A t \in x : t \in CauseSentinel(n)
    OBVIOUS
  <2> HIDE DEF x
  <2>3. QED
    BY <2>1, <2>2 DEF err, x
<1>6. CASE n \notin {"cancelled", "deadline_exceeded"} /\ k = "ResultIndeterminate" /\ e # "none"
  <2>1. sqlContextError(e, err) = Err(k, n, s \cup {e})
    BY <1>1, <1>2, <1>6 DEF sqlContextError
  <2>2. QED
    BY <1>6, <2>1 DEF err
<1>7. CASE n \notin {"cancelled", "deadline_exceeded"} /\ ~(k = "ResultIndeterminate" /\ e # "none")
  <2>1. sqlContextError(e, err) = err
    BY <1>1, <1>7 DEF sqlContextError
  <2>2. PICK x : x = {}
    OBVIOUS
  <2>3. s \cup x = s
    BY <2>2
  <2>4. sqlContextError(e, err) = Err(k, n, s \cup x)
    BY <2>1, <2>3 DEF err
  <2>5. QED
    BY <2>2, <2>4 DEF err
<1>8. QED
  BY <1>5, <1>6, <1>7

LEMMA ViolationKept ==
  ASSUME NEW e, NEW s
  PROVE  sqlContextError(e, Violation(s)) = Violation(s)
<1> DEFINE k == "ProtocolViolation"
           n == ""
<1>1. Violation(s) = Err(k, n, s) /\ k # "ok" /\ k # "ResultIndeterminate"
  BY DEF Violation
<1>2. CauseSentinel(n) = {}
  BY DEF CauseSentinel
<1>3. \A x : x = {} => s \cup x = s
  OBVIOUS
<1> HIDE DEF k, n
<1>4. PICK x : /\ sqlContextError(e, Err(k, n, s)) = Err(k, n, s \cup x)
               /\ \A t \in x : t \in CauseSentinel(n) \/ (k = "ResultIndeterminate" /\ t = e)
  BY <1>1, ContextAdds
<1>5. x = {}
  BY <1>1, <1>2, <1>4
<1>6. QED
  BY <1>1, <1>3, <1>4, <1>5

(* What executeSQLContext makes of any response under any ctx.Err().       *)
Classified(e, w, err) ==
  \/ err = NoError /\ w.form = "json" /\ w.code = ""
  \/ \E s : err = Violation(s) /\ (s # {} => w.form = "json" /\ s \subseteq NamedCauses(w))
  \/ /\ w.form \in {"json", "rc"}
     /\ \E s, x : /\ err = Err(newNativeError(w.code).code, w.code, s \cup x)
                  /\ s # {} => w.form = "json" /\ s \subseteq NamedCauses(w)
                  /\ \A t \in x : \/ t \in CauseSentinel(w.code)
                                  \/ newNativeError(w.code).code = "ResultIndeterminate" /\ t = e
     /\ w.form = "json" /\ w.cause = "cleanup_failed" =>
          /\ w.interruption.form = "json" /\ w.interruption.ok = "false"
          /\ w.interruption.cause \in {"cancelled", "deadline_exceeded"}
          /\ CauseSentinel(w.interruption.cause) \subseteq err.is
          /\ w.retryable = "false"

LEMMA ResponseDecodes ==
  ASSUME NEW e, NEW w, w.form \in {"json", "rc", "null", "malformed"}
  PROVE  Classified(e, w, ResponseError(e, w))
<1> DEFINE err == ResponseError(e, w)
           k == newNativeError(w.code).code
           d == decodeSQLContextCommandResult(w)
<1>1. k # "ok" /\ k # "ProtocolViolation"
  BY DEF newNativeError
<1>2. ProtocolViolation = Violation({})
  BY DEF ProtocolViolation, Fault, Violation, Err
<1>3. CASE w.form = "rc"
  <2>1. newNativeError(w.code) = Err(k, w.code, {})
    BY DEF newNativeError, Err
  <2>2. err = sqlContextError(e, Err(k, w.code, {}))
    BY <1>3, <2>1 DEF ResponseError
  <2> HIDE DEF k, err
  <2>3. PICK x : /\ err = Err(k, w.code, {} \cup x)
                 /\ \A t \in x : t \in CauseSentinel(w.code) \/ (k = "ResultIndeterminate" /\ t = e)
    BY <1>1, <2>2, ContextAdds
  <2>4. QED
    BY <1>3, <2>3 DEF k, err, Classified
<1>4. CASE w.form = "null"
  BY <1>2, <1>4 DEF ResponseError, Classified
<1>5. CASE w.form = "malformed"
  <2>1. d = Violation({})
    BY <1>2, <1>5 DEF decodeSQLContextCommandResult
  <2>2. err = sqlContextError(e, d)
    BY <1>5 DEF ResponseError
  <2>3. err = Violation({})
    BY <2>1, <2>2, ViolationKept
  <2>4. QED
    BY <2>3 DEF Classified
<1>6. CASE w.form = "json"
  <2>1. err = sqlContextError(e, d)
    BY <1>6 DEF ResponseError
  <2>2. /\ Decoded(w, d, NamedCauses(w))
        /\ w.cause = "cleanup_failed" /\ d # NoError /\ d.code # "ProtocolViolation" =>
             /\ w.interruption.form = "json" /\ w.interruption.ok = "false"
             /\ w.interruption.cause \in {"cancelled", "deadline_exceeded"}
             /\ CauseSentinel(w.interruption.cause) \subseteq d.is
             /\ w.retryable = "false"
    BY ContextDecodes
  <2> HIDE DEF d, k, err
  <2>3. CASE d = NoError /\ w.code = ""
    BY <1>6, <2>1, <2>3 DEF sqlContextError, Classified, err
  <2>4. CASE \E s \in SUBSET NamedCauses(w) : d = Violation(s)
    BY <1>6, <2>1, <2>4, ViolationKept DEF Classified, err
  <2>5. CASE \E s \in SUBSET NamedCauses(w) : d = Err(k, w.code, s)
    <3>1. PICK s \in SUBSET NamedCauses(w) : d = Err(k, w.code, s)
      BY <2>5
    <3>2. d # NoError /\ d.code # "ProtocolViolation" /\ d.is = s
      BY <1>1, <3>1 DEF Err, NoError
    <3>3. PICK x : /\ err = Err(k, w.code, s \cup x)
                   /\ \A t \in x : t \in CauseSentinel(w.code) \/ (k = "ResultIndeterminate" /\ t = e)
      BY <1>1, <2>1, <3>1, ContextAdds
    <3>4. err.is = s \cup x
      BY <3>3 DEF Err
    <3>5. w.cause = "cleanup_failed" =>
                 /\ w.interruption.form = "json" /\ w.interruption.ok = "false"
                 /\ w.interruption.cause \in {"cancelled", "deadline_exceeded"}
                 /\ CauseSentinel(w.interruption.cause) \subseteq err.is
                 /\ w.retryable = "false"
      BY <2>2, <3>2, <3>4
    <3>6. s \subseteq NamedCauses(w)
      OBVIOUS
    <3>7. QED
      BY <1>6, <3>3, <3>5, <3>6 DEF k, err, Classified
  <2>6. QED
    BY <2>2, <2>3, <2>4, <2>5 DEF Decoded, k, err
<1>7. QED
  BY <1>3, <1>4, <1>5, <1>6

LEMMA UncertaintyShown ==
  ASSUME NEW e, NEW w \in Wires
  PROVE  ~HidesUncertainty(w, ResponseError(e, w))
<1> DEFINE err == ResponseError(e, w)
<1> HIDE DEF err
<1>1. SUFFICES ASSUME w.code \in {"uncertain", "result_indeterminate"}
               PROVE  err.code \in {"ResultIndeterminate", "ProtocolViolation"}
  BY DEF HidesUncertainty, err
<1>2. newNativeError(w.code).code = "ResultIndeterminate" /\ w.code # ""
  BY <1>1 DEF newNativeError
<1>3. \A s : Violation(s).code = "ProtocolViolation"
  BY ViolationParts
<1>4. \/ \E s : err = Violation(s)
      \/ \E s, x : err = Err("ResultIndeterminate", w.code, s \cup x)
  <2>1. Classified(e, w, err)
    BY ResponseDecodes, WiresAssumption DEF err
  <2>2. QED
    BY <1>2, <2>1 DEF Classified
<1>5. CASE \E s : err = Violation(s)
  BY <1>3, <1>5
<1>6. CASE \E s, x : err = Err("ResultIndeterminate", w.code, s \cup x)
  BY <1>6 DEF Err
<1>7. QED
  BY <1>4, <1>5, <1>6

LEMMA SentinelsNamed ==
  ASSUME NEW e, NEW w \in Wires
  PROVE  ~InventsSentinel(w, ResponseError(e, w), e)
<1> DEFINE err == ResponseError(e, w)
           k == newNativeError(w.code).code
<1> HIDE DEF err, k
<1>1. SUFFICES ASSUME NEW t \in err.is
               PROVE  \/ w.form = "json" /\ t \in CauseSentinel(w.cause) \cup CauseSentinel(w.code)
                      \/ /\ w.form = "json" /\ w.cause = "cleanup_failed" /\ w.interruption.form = "json"
                         /\ t \in CauseSentinel(w.interruption.cause)
                      \/ w.form = "rc" /\ t \in CauseSentinel(w.code)
                      \/ err.code = "ResultIndeterminate" /\ t = e
  BY DEF InventsSentinel, err
<1>2. CASE err = NoError
  BY <1>1, <1>2 DEF NoError
<1>3. ASSUME NEW s, err = Violation(s), s # {} => w.form = "json" /\ s \subseteq NamedCauses(w)
      PROVE  w.form = "json" /\ t \in NamedCauses(w)
  <2>1. err.is = s
    BY <1>3, ViolationParts
  <2>2. QED
    BY <1>1, <1>3, <2>1
<1>4. ASSUME w.form \in {"json", "rc"}, NEW s, NEW x, err = Err(k, w.code, s \cup x),
             s # {} => w.form = "json" /\ s \subseteq NamedCauses(w),
             \A u \in x : u \in CauseSentinel(w.code) \/ (k = "ResultIndeterminate" /\ u = e)
      PROVE  \/ w.form = "json" /\ t \in NamedCauses(w)
             \/ w.form \in {"json", "rc"} /\ t \in CauseSentinel(w.code)
             \/ err.code = "ResultIndeterminate" /\ t = e
  <2>1. err.is = s \cup x /\ err.code = k
    BY <1>4 DEF Err
  <2>2. QED
    BY <1>1, <1>4, <2>1
<1>5. t \in NamedCauses(w) => \/ t \in CauseSentinel(w.cause)
                              \/ /\ w.cause = "cleanup_failed" /\ w.interruption.form = "json"
                                 /\ t \in CauseSentinel(w.interruption.cause)
  BY DEF NamedCauses
<1>6. \/ err = NoError
      \/ \E s : err = Violation(s) /\ (s # {} => w.form = "json" /\ s \subseteq NamedCauses(w))
      \/ /\ w.form \in {"json", "rc"}
         /\ \E s, x : /\ err = Err(k, w.code, s \cup x)
                      /\ s # {} => w.form = "json" /\ s \subseteq NamedCauses(w)
                      /\ \A u \in x : u \in CauseSentinel(w.code) \/ (k = "ResultIndeterminate" /\ u = e)
  <2>1. Classified(e, w, err)
    BY ResponseDecodes, WiresAssumption DEF err
  <2>2. QED
    BY <2>1 DEF Classified, k
<1>7. QED
  BY <1>2, <1>3, <1>4, <1>5, <1>6

LEMMA InterruptionShown ==
  ASSUME NEW e, NEW w \in Wires
  PROVE  ~LosesInterruption(w, ResponseError(e, w))
<1> DEFINE err == ResponseError(e, w)
<1> HIDE DEF err
<1>1. SUFFICES ASSUME w.form = "json", err.code = "ResultIndeterminate", w.cause = "cleanup_failed"
               PROVE  /\ w.interruption.form = "json"
                      /\ CauseSentinel(w.interruption.cause) \subseteq err.is
                      /\ w.interruption.cause \in {"cancelled", "deadline_exceeded"}
                      /\ w.interruption.ok = "false"
                      /\ w.retryable = "false"
  BY DEF LosesInterruption, err
<1>2. err # NoError
  <2>1. NoError.code = "ok"
    BY DEF NoError
  <2>2. QED
    BY <1>1, <2>1
<1>3. \A s : Violation(s).code = "ProtocolViolation"
  BY ViolationParts
<1>4. \A s : err # Violation(s)
  BY <1>1, <1>3
<1>5. Classified(e, w, err)
  BY ResponseDecodes, WiresAssumption DEF err
<1>6. QED
  BY <1>1, <1>2, <1>4, <1>5 DEF Classified

(* Whatever response comes, an answer that admits an unknown commit is     *)
(* never decoded as a known outcome (talon_sql_context.go 191-195).        *)
THEOREM UncertaintyKept == Spec => []UncertaintyPreserved
<1>1. TypeOK => UncertaintyPreserved
  BY UncertaintyShown DEF TypeOK, UncertaintyPreserved, UncertaintyHidden, ContextErrs
<1>2. QED
  BY <1>1, TypeCorrect, PTL

(* No failure is dressed up as a cancellation: a sentinel in the error     *)
(* tree has a cause in the response or, for an unknown outcome, in the     *)
(* caller's context.                                                       *)
THEOREM SentinelsCaused == Spec => []SentinelsHaveACause
<1>1. TypeOK => SentinelsHaveACause
  BY SentinelsNamed DEF TypeOK, SentinelsHaveACause, SentinelsInvented, ContextErrs
<1>2. QED
  BY <1>1, TypeCorrect, PTL

(* A failed cleanup never swallows the interruption that led to it.        *)
THEOREM InterruptionKept == Spec => []CleanupKeepsInterruption
<1>1. TypeOK => CleanupKeepsInterruption
  BY InterruptionShown DEF TypeOK, CleanupKeepsInterruption, InterruptionsLost, ContextErrs
<1>2. QED
  BY <1>1, TypeCorrect, PTL
============================================================================
