----------------------------- MODULE SQLContext -----------------------------
(***************************************************************************)
(* Context-bounded SQL calls on one talon.DB: executeSQLContext and its    *)
(* watcher goroutine (talon_sql_context.go), the handle lease they share   *)
(* with DB.Close (talon.go), and the legacy execute path a Core without    *)
(* native_sql_context falls back to.                                       *)
(*                                                                         *)
(* Processes: one goroutine per call, one watcher per call that owns a     *)
(* native token, one goroutine per Close, the Go context of each call      *)
(* (cancelled by its owner or expired by its timer), the Core (external),  *)
(* and the clock.  A call's steps are separate actions wherever another    *)
(* process, or time, can come between them: before the lock, between       *)
(* reading the remaining time and creating the token, between the token    *)
(* and the ctx.Err() test, around the native call, and around the join.    *)
(*                                                                         *)
(* Time is discrete: TicksPerMs ticks make one millisecond, so a deadline  *)
(* need not fall on the millisecond grid the native ABI counts in.         *)
(***************************************************************************)
EXTENDS Integers, FiniteSets, SQLContextEnvelope

CONSTANTS
  Queries,      \* calls of QueryResultContext, directly or through ExecContext
  Execs,        \* those of them made by ExecContext
  Rollbacks,    \* calls of SQLRollbackContext
  Closers,      \* calls of DB.Close
  Contexts,     \* the [done, deadline] contexts a caller may pass
  Runtimes,     \* the sets of capabilities an admitted Core may attest
  Faults,       \* the kinds of failing answers Core gives in this instance
  TicksPerMs,   \* clock ticks in one millisecond
  MaxTime,      \* bound: the clock stops here unless a call is asleep
  Wires,        \* responses, well formed or not, that the decoder is asked about
  NoProc        \* "no closer holds the writer lock"

Calls == Queries \cup Rollbacks

NoDeadline == -1

Capabilities == {"native_sql_result", "native_sql_context"}

FaultKinds == {"unreadable", "storage", "interrupted", "indeterminate", "unusable"}

ASSUME CallsAssumption ==
  /\ Queries \cap Rollbacks = {}
  /\ Execs \subseteq Queries
  /\ NoProc \notin Closers
  /\ Faults \subseteq FaultKinds

ASSUME TimeAssumption ==
  /\ TicksPerMs \in Nat \ {0}
  /\ MaxTime \in Nat

(* A context with a deadline always has a Done channel; a context without  *)
(* one is context.Background, which never ends.                            *)
ASSUME ContextAssumption ==
  /\ Contexts \subseteq [done: BOOLEAN, deadline: Nat \cup {NoDeadline}]
  /\ \A x \in Contexts : x.deadline # NoDeadline => x.done
  /\ Runtimes \subseteq SUBSET Capabilities

(* A native call fails with a code or returns a pointer: null, to bytes    *)
(* the strict decoder refuses, or to a JSON envelope.                      *)
ASSUME WiresAssumption == \A wire \in Wires : wire.form \in {"json", "rc", "null", "malformed"}

VARIABLES
  now,            \* the monotonic clock, in ticks
  caps,           \* capabilities the admitted Core attests (fixed at Open)
  handle,         \* db.handle: "open" or "nil"
  nativeCloses,   \* how often talon_sdk_close was called on the handle
  readers,        \* calls holding db.mu for reading
  parked,         \* calls blocked in db.mu.RLock behind a writer
  writer,         \* the closer that announced db.mu.Lock, or NoProc
  closer,         \* program counter of each Close
  ctx,            \* the context each call was given
  ctxErr,         \* its Err(): "none", "Canceled", "DeadlineExceeded"
  pc,             \* program counter of each call
  mode,           \* "context", or "legacy" for the execute fallback
  timeout,        \* the whole milliseconds handed to the native token
  token,          \* native token: "none", "live", "freed"
  tokenDeadline,  \* tick at which the token expires, or NoDeadline
  tokenCancelled, \* talon_sdk_sql_context_cancel was called on it
  watcher,        \* the watcher goroutine of the call
  wake,           \* tick at which a sleeping call resumes, or NoDeadline
  effect,         \* what Core did: "none", "applied", "cleaned"
  result          \* the error a finished call returns (NoError on success)

lockVars  == <<readers, parked, writer>>
dbVars    == <<handle, nativeCloses, closer>>
ctxVars   == <<ctx, ctxErr, caps>>
tokenVars == <<timeout, token, tokenDeadline, tokenCancelled, watcher>>
callVars  == <<pc, mode, wake, effect, result>>
vars == <<now, lockVars, dbVars, ctxVars, tokenVars, callVars>>

Pending == Fault("pending")

CallStates == {"idle", "lock", "poll", "leased", "measure", "create", "check",
               "sleep", "dispatch", "exec", "join", "unlock", "done"}

TypeOK ==
  /\ now \in Nat
  /\ caps \in SUBSET Capabilities
  /\ handle \in {"open", "nil"}
  /\ nativeCloses \in Nat
  /\ readers \subseteq Calls
  /\ parked \subseteq Calls
  /\ writer \in Closers \cup {NoProc}
  /\ closer \in [Closers -> {"idle", "pending", "unlocking", "done"}]
  /\ ctx \in [Calls -> [done: BOOLEAN, deadline: Nat \cup {NoDeadline}]]
  /\ ctxErr \in [Calls -> {"none"} \cup Sentinels]
  /\ pc \in [Calls -> CallStates]
  /\ mode \in [Calls -> {"context", "legacy"}]
  /\ timeout \in [Calls -> Nat]
  /\ token \in [Calls -> {"none", "live", "freed"}]
  /\ tokenDeadline \in [Calls -> Nat \cup {NoDeadline}]
  /\ tokenCancelled \in [Calls -> BOOLEAN]
  /\ watcher \in [Calls -> {"none", "watching", "cancelling", "exited"}]
  /\ wake \in [Calls -> Nat \cup {NoDeadline}]
  /\ effect \in [Calls -> {"none", "applied", "cleaned"}]
  /\ DOMAIN result = Calls

Init ==
  /\ now = 0
  /\ caps \in Runtimes
  /\ handle = "open"
  /\ nativeCloses = 0
  /\ readers = {}
  /\ parked = {}
  /\ writer = NoProc
  /\ closer = [k \in Closers |-> "idle"]
  /\ ctx \in [Calls -> Contexts]
  /\ ctxErr = [c \in Calls |-> "none"]
  /\ pc = [c \in Calls |-> "idle"]
  /\ mode = [c \in Calls |-> "context"]
  /\ timeout = [c \in Calls |-> 0]
  /\ token = [c \in Calls |-> "none"]
  /\ tokenDeadline = [c \in Calls |-> NoDeadline]
  /\ tokenCancelled = [c \in Calls |-> FALSE]
  /\ watcher = [c \in Calls |-> "none"]
  /\ wake = [c \in Calls |-> NoDeadline]
  /\ effect = [c \in Calls |-> "none"]
  /\ result = [c \in Calls |-> Pending]

Goto(c, from, to) ==
  /\ pc[c] = from
  /\ pc' = [pc EXCEPT ![c] = to]

Return(c, err) == result' = [result EXCEPT ![c] = err]
-----------------------------------------------------------------------------
(* Entry: the checks before the handle lease.  Only a query looks at       *)
(* ctx.Err() here; a rollback is dispatched whatever its context says.     *)

EnterEnded(c) ==
  /\ c \in Queries
  /\ ctxErr[c] # "none"
  /\ Goto(c, "idle", "done")
  /\ Return(c, ContextError(ctxErr[c]))
  /\ UNCHANGED <<now, lockVars, dbVars, ctxVars, tokenVars, mode, wake, effect>>

Admitted(c) == c \in Rollbacks \/ ctxErr[c] = "none"

EnterUnsupported(c) ==
  /\ Admitted(c)
  /\ \/ "native_sql_result" \notin caps
     \/ "native_sql_context" \notin caps /\ ctx[c].done
  /\ Goto(c, "idle", "done")
  /\ Return(c, Fault("CapabilityUnavailable"))
  /\ UNCHANGED <<now, lockVars, dbVars, ctxVars, tokenVars, mode, wake, effect>>

Enter(c) ==
  /\ Admitted(c)
  /\ "native_sql_result" \in caps
  /\ \/ /\ "native_sql_context" \in caps
        /\ UNCHANGED mode
     \/ /\ "native_sql_context" \notin caps
        /\ ~ctx[c].done
        /\ mode' = [mode EXCEPT ![c] = "legacy"]
  /\ Goto(c, "idle", "lock")
  /\ UNCHANGED <<now, lockVars, dbVars, ctxVars, tokenVars, wake, effect, result>>
-----------------------------------------------------------------------------
(* The handle lease.  sync.RWMutex admits no new reader, by RLock or by    *)
(* TryRLock, once a writer has announced itself; RLock parks the reader    *)
(* and the writer's Unlock hands the lease to every parked one.            *)

(* Mutant: queries take the lease with RLock too.                          *)
Blocking_RLockAlways(c) == TRUE

Blocking(c) == c \in Rollbacks \/ mode[c] = "legacy"

Lease(c) ==
  /\ writer = NoProc
  /\ Goto(c, "lock", "leased")
  /\ readers' = readers \cup {c}
  /\ UNCHANGED <<now, parked, writer, dbVars, ctxVars, tokenVars, mode, wake, effect, result>>

RLockBlocks(c) ==
  /\ Blocking(c)
  /\ pc[c] = "lock"
  /\ c \notin parked
  /\ writer # NoProc
  /\ parked' = parked \cup {c}
  /\ UNCHANGED <<now, readers, writer, dbVars, ctxVars, tokenVars, callVars>>

TryRLockFails(c) ==
  /\ ~Blocking(c)
  /\ writer # NoProc
  /\ Goto(c, "lock", "poll")
  /\ UNCHANGED <<now, lockVars, dbVars, ctxVars, tokenVars, mode, wake, effect, result>>

PollEnded(c) ==
  /\ ctxErr[c] # "none"
  /\ Goto(c, "poll", "done")
  /\ Return(c, ContextError(ctxErr[c]))
  /\ UNCHANGED <<now, lockVars, dbVars, ctxVars, tokenVars, mode, wake, effect>>

PollAgain(c) ==
  /\ Goto(c, "poll", "lock")
  /\ UNCHANGED <<now, lockVars, dbVars, ctxVars, tokenVars, mode, wake, effect, result>>
-----------------------------------------------------------------------------
(* Under the lease.                                                        *)

(* Mutant: an early return that forgets RUnlock.                           *)
LeaseRejected_NoUnlock(c) ==
  /\ Goto(c, "leased", "done")
  /\ \/ handle = "nil" /\ Return(c, Fault("DatabaseClosed"))
     \/ c \in Queries /\ ctxErr[c] # "none" /\ Return(c, ContextError(ctxErr[c]))
  /\ UNCHANGED <<now, lockVars, dbVars, ctxVars, tokenVars, mode, wake, effect>>

(* Mutant: a rollback is skipped when its context has ended, like a query. *)
LeaseRejected_SkipsRollback(c) ==
  /\ Goto(c, "leased", "unlock")
  /\ \/ handle = "nil" /\ Return(c, Fault("DatabaseClosed"))
     \/ handle = "open" /\ ctxErr[c] # "none" /\ Return(c, ContextError(ctxErr[c]))
  /\ UNCHANGED <<now, lockVars, dbVars, ctxVars, tokenVars, mode, wake, effect>>

LeaseRejected(c) ==
  /\ Goto(c, "leased", "unlock")
  /\ \/ /\ handle = "nil"
        /\ Return(c, Fault("DatabaseClosed"))
     \/ /\ handle = "open"
        /\ c \in Queries /\ mode[c] = "context"
        /\ ctxErr[c] # "none"
        /\ Return(c, ContextError(ctxErr[c]))
  /\ UNCHANGED <<now, lockVars, dbVars, ctxVars, tokenVars, mode, wake, effect>>

LeaseAccepted(c) ==
  /\ handle = "open"
  /\ \/ mode[c] = "legacy" /\ Goto(c, "leased", "exec")
     \/ mode[c] = "context" /\ Admitted(c) /\ Goto(c, "leased", "measure")
  /\ UNCHANGED <<now, lockVars, dbVars, ctxVars, tokenVars, mode, wake, effect, result>>

(* Mutant: truncate the remaining time to whole milliseconds.              *)
TimeoutMillis_Truncates(deadline, t) ==
  IF deadline = NoDeadline THEN 0
  ELSE IF deadline <= t THEN 1
  ELSE (deadline - t) \div TicksPerMs

(* Mutant: the remaining time is converted although it may be negative.    *)
TimeoutMillis_Signed(deadline, t) ==
  IF deadline = NoDeadline THEN 0 ELSE (deadline - t) \div TicksPerMs

(* Whole milliseconds, rounded up; 0 would mean "no deadline" to the ABI,  *)
(* so a deadline already behind becomes 1.                                 *)
TimeoutMillis(deadline, t) ==
  IF deadline = NoDeadline THEN 0
  ELSE IF deadline <= t THEN 1
  ELSE ((deadline - t) \div TicksPerMs)
         + (IF (deadline - t) % TicksPerMs # 0 THEN 1 ELSE 0)

Measure(c) ==
  /\ Goto(c, "measure", "create")
  /\ timeout' = [timeout EXCEPT ![c] = TimeoutMillis(ctx[c].deadline, now)]
  /\ UNCHANGED <<now, lockVars, dbVars, ctxVars, token, tokenDeadline, tokenCancelled,
                 watcher, mode, wake, effect, result>>

TokenUnavailable(c) ==
  /\ Goto(c, "create", "unlock")
  /\ Return(c, Fault("NativeUnavailable"))
  /\ UNCHANGED <<now, lockVars, dbVars, ctxVars, tokenVars, mode, wake, effect>>

(* talon_sdk_sql_context_new and the start of the watcher goroutine.       *)
CreateToken(c) ==
  /\ Goto(c, "create", "check")
  /\ token' = [token EXCEPT ![c] = "live"]
  /\ tokenDeadline' = [tokenDeadline EXCEPT ![c] =
       IF timeout[c] = 0 THEN NoDeadline ELSE now + timeout[c] * TicksPerMs]
  /\ watcher' = [watcher EXCEPT ![c] = "watching"]
  /\ UNCHANGED <<now, lockVars, dbVars, ctxVars, timeout, tokenCancelled,
                 mode, wake, effect, result>>

(* Mutant: signal the token whatever ended the context.                    *)
DeadlineEnded_Never(c) == FALSE

(* The ended context leaves it to the token's own deadline only when it is *)
(* the deadline that ended it.                                             *)
DeadlineEnded(c) == ctxErr[c] = "DeadlineExceeded" /\ timeout[c] > 0

(* Mutant: dispatch an expired rollback without sleeping out its 1 ms.     *)
CheckCtx_NoSleep(c) ==
  /\ \/ /\ ctxErr[c] = "none" \/ DeadlineEnded(c)
        /\ UNCHANGED tokenCancelled
     \/ /\ ctxErr[c] # "none" /\ ~DeadlineEnded(c)
        /\ tokenCancelled' = [tokenCancelled EXCEPT ![c] = TRUE]
  /\ Goto(c, "check", "dispatch")
  /\ wake' = [wake EXCEPT ![c] = IF DeadlineEnded(c) THEN now ELSE @]
  /\ UNCHANGED <<now, lockVars, dbVars, ctxVars, timeout, token, tokenDeadline,
                 watcher, mode, effect, result>>

CheckCtx(c) ==
  /\ \/ /\ ctxErr[c] = "none"
        /\ Goto(c, "check", "dispatch")
        /\ UNCHANGED <<wake, tokenCancelled>>
     \/ /\ DeadlineEnded(c)
        /\ Goto(c, "check", "sleep")
        /\ wake' = [wake EXCEPT ![c] = now + TicksPerMs]
        /\ UNCHANGED tokenCancelled
     \/ /\ ctxErr[c] # "none" /\ ~DeadlineEnded(c)
        /\ Goto(c, "check", "dispatch")
        /\ tokenCancelled' = [tokenCancelled EXCEPT ![c] = TRUE]
        /\ UNCHANGED wake
  /\ UNCHANGED <<now, lockVars, dbVars, ctxVars, timeout, token, tokenDeadline,
                 watcher, mode, effect, result>>

Wake(c) ==
  /\ now >= wake[c]
  /\ Goto(c, "sleep", "dispatch")
  /\ UNCHANGED <<now, lockVars, dbVars, ctxVars, tokenVars, mode, wake, effect, result>>

Dispatch(c) ==
  /\ Goto(c, "dispatch", "exec")
  /\ UNCHANGED <<now, lockVars, dbVars, ctxVars, tokenVars, mode, wake, effect, result>>
-----------------------------------------------------------------------------
(* The Core (external).  It answers success, a plain failure, or an        *)
(* interruption for a cause its token shows.  Success and a clean          *)
(* interruption are definite; an indeterminate or unusable answer hides    *)
(* whether the statement took effect.  A rollback is finished ("cleaned")  *)
(* before any answer but a failed cleanup or an unusable response.         *)

TokenCauses(c) ==
  {x \in {"cancelled", "deadline_exceeded"} :
     /\ mode[c] = "context"
     /\ \/ x = "cancelled" /\ tokenCancelled[c]
        \/ /\ x = "deadline_exceeded" /\ tokenDeadline[c] # NoDeadline
           /\ now >= tokenDeadline[c]}

Plain(ok, code, data) ==
  [form |-> "json", ok |-> ok, code |-> code, cause |-> "", retryable |-> Absent,
   state |-> "", outcome |-> "", data |-> data, interruption |-> NoEnvelope]

Interrupted(x) ==
  [Plain("false", x, Absent) EXCEPT
     !.cause = x, !.retryable = "false", !.state = "rolled_back_if_owned"]

Indeterminate(x) ==
  [Plain("false", "result_indeterminate", Absent) EXCEPT
     !.cause = x, !.retryable = "false", !.state = "consumed", !.outcome = "unknown"]

CleanupFailed(x) ==
  [Plain("false", "result_indeterminate", Absent) EXCEPT
     !.cause = "cleanup_failed", !.retryable = "false", !.interruption = Interrupted(x)]

Definite(c) == IF c \in Rollbacks THEN "cleaned" ELSE "applied"

(* The responses Core may give call c now.                                 *)
Responses(c) ==
  LET If(f, answers) == IF f \in Faults THEN answers ELSE {}
  IN  {Plain("true", "", "rows"), Plain("true", "", "empty")}
        \cup If("unreadable", {Plain("true", "", "unreadable")})
        \cup If("storage", {Plain("false", "storage_error", Absent)})
        \cup If("interrupted", {Interrupted(x) : x \in TokenCauses(c)})
        \cup If("indeterminate", {Indeterminate(x) : x \in TokenCauses(c)}
                                   \cup {CleanupFailed(x) : x \in TokenCauses(c)})
        \cup If("unusable", {[form |-> "rc", code |-> "uncertain"], [form |-> "null"],
                              [form |-> "malformed"]})

(* What the statement may have done when Core gives response w.            *)
Effects(c, w) ==
  IF w.form # "json" \/ w.code = "result_indeterminate" THEN {"none", Definite(c)}
  ELSE IF w.ok = "true" THEN {Definite(c)}
  ELSE IF c \in Rollbacks /\ w.code # "storage_error" THEN {"cleaned"}
  ELSE {"none"}

(* After a successful envelope, decodeSQLResult may still refuse the data  *)
(* and ExecContext refuses rows.                                           *)
RowsError(c, w, err) ==
  IF /\ err = NoError
     /\ w.data = "unreadable" \/ (w.data = "rows" /\ c \in Execs)
  THEN ProtocolViolation
  ELSE err

(* The response comes back on the calling goroutine: decode it, build the  *)
(* error while ctx may already have ended, and run the deferred calls up   *)
(* to close(stop).  The rows are decoded after the deferred calls, from    *)
(* data this goroutine owns.                                               *)
NativeReturn(c, w, e) ==
  /\ Goto(c, "exec", IF mode[c] = "context" THEN "join" ELSE "unlock")
  /\ effect' = [effect EXCEPT ![c] = e]
  /\ Return(c, RowsError(c, w,
               ResponseError(IF mode[c] = "context" THEN ctxErr[c] ELSE "none", w)))
  /\ UNCHANGED <<now, lockVars, dbVars, ctxVars, tokenVars, mode, wake>>

NativeReturns(c) == \E w \in Responses(c) : \E e \in Effects(c, w) : NativeReturn(c, w, e)
-----------------------------------------------------------------------------
(* The watcher goroutine: it only signals the token.                       *)

WatchCtxDone(c) ==
  /\ watcher[c] = "watching"
  /\ ctxErr[c] # "none"
  /\ watcher' = [watcher EXCEPT ![c] = IF DeadlineEnded(c) THEN "exited" ELSE "cancelling"]
  /\ UNCHANGED <<now, lockVars, dbVars, ctxVars, timeout, token, tokenDeadline,
                 tokenCancelled, callVars>>

WatchCancel(c) ==
  /\ watcher[c] = "cancelling"
  /\ tokenCancelled' = [tokenCancelled EXCEPT ![c] = TRUE]
  /\ watcher' = [watcher EXCEPT ![c] = "exited"]
  /\ UNCHANGED <<now, lockVars, dbVars, ctxVars, timeout, token, tokenDeadline, callVars>>

WatchStop(c) ==
  /\ watcher[c] = "watching"
  /\ pc[c] = "join"
  /\ watcher' = [watcher EXCEPT ![c] = "exited"]
  /\ UNCHANGED <<now, lockVars, dbVars, ctxVars, timeout, token, tokenDeadline,
                 tokenCancelled, callVars>>

(* Mutant: free the token without waiting for the watcher.                 *)
JoinAndFree_NoJoin(c) ==
  /\ Goto(c, "join", "unlock")
  /\ token' = [token EXCEPT ![c] = "freed"]
  /\ UNCHANGED <<now, lockVars, dbVars, ctxVars, timeout, tokenDeadline, tokenCancelled,
                 watcher, mode, wake, effect, result>>

(* <-joined, then the token is freed.                                      *)
JoinAndFree(c) ==
  /\ watcher[c] = "exited"
  /\ Goto(c, "join", "unlock")
  /\ token' = [token EXCEPT ![c] = "freed"]
  /\ UNCHANGED <<now, lockVars, dbVars, ctxVars, timeout, tokenDeadline, tokenCancelled,
                 watcher, mode, wake, effect, result>>

RUnlock(c) ==
  /\ Goto(c, "unlock", "done")
  /\ readers' = readers \ {c}
  /\ UNCHANGED <<now, parked, writer, dbVars, ctxVars, tokenVars, mode, wake, effect, result>>
-----------------------------------------------------------------------------
(* DB.Close.                                                               *)

CloseLock(k) ==
  /\ closer[k] = "idle"
  /\ writer = NoProc
  /\ writer' = k
  /\ closer' = [closer EXCEPT ![k] = "pending"]
  /\ UNCHANGED <<now, readers, parked, handle, nativeCloses, ctxVars, tokenVars, callVars>>

(* Mutant: close the native handle while calls still hold the lease.       *)
CloseHandle_NoWait(k) ==
  /\ closer[k] = "pending"
  /\ nativeCloses' = IF handle = "open" THEN nativeCloses + 1 ELSE nativeCloses
  /\ handle' = "nil"
  /\ closer' = [closer EXCEPT ![k] = "unlocking"]
  /\ UNCHANGED <<now, lockVars, ctxVars, tokenVars, callVars>>

CloseHandle(k) ==
  /\ closer[k] = "pending"
  /\ readers = {}
  /\ nativeCloses' = IF handle = "open" THEN nativeCloses + 1 ELSE nativeCloses
  /\ handle' = "nil"
  /\ closer' = [closer EXCEPT ![k] = "unlocking"]
  /\ UNCHANGED <<now, lockVars, ctxVars, tokenVars, callVars>>

(* Mutant: Close returns without Unlock.                                   *)
CloseUnlock_KeepsLock(k) ==
  /\ closer[k] = "unlocking"
  /\ closer' = [closer EXCEPT ![k] = "done"]
  /\ UNCHANGED <<now, lockVars, handle, nativeCloses, ctxVars, tokenVars, callVars>>

CloseUnlock(k) ==
  /\ closer[k] = "unlocking"
  /\ closer' = [closer EXCEPT ![k] = "done"]
  /\ writer' = NoProc
  /\ readers' = readers \cup parked
  /\ parked' = {}
  /\ pc' = [c \in Calls |-> IF c \in parked THEN "leased" ELSE pc[c]]
  /\ UNCHANGED <<now, handle, nativeCloses, ctxVars, tokenVars, mode, wake, effect, result>>
-----------------------------------------------------------------------------
(* The Go context of each call, and time.  The context's timer may fire    *)
(* any time after the deadline, and its owner may cancel at any time.      *)

CtxCancel(c) ==
  /\ ctx[c].done
  /\ ctxErr[c] = "none"
  /\ pc[c] # "done"
  /\ ctxErr' = [ctxErr EXCEPT ![c] = "Canceled"]
  /\ UNCHANGED <<now, lockVars, dbVars, ctx, caps, tokenVars, callVars>>

CtxExpire(c) ==
  /\ ctx[c].deadline # NoDeadline
  /\ now >= ctx[c].deadline
  /\ ctxErr[c] = "none"
  /\ ctxErr' = [ctxErr EXCEPT ![c] = "DeadlineExceeded"]
  /\ UNCHANGED <<now, lockVars, dbVars, ctx, caps, tokenVars, callVars>>

Tick ==
  /\ now < MaxTime \/ \E c \in Calls : pc[c] = "sleep" /\ now < wake[c]
  /\ now' = now + 1
  /\ UNCHANGED <<lockVars, dbVars, ctxVars, tokenVars, callVars>>
-----------------------------------------------------------------------------
Start(c) == EnterEnded(c) \/ EnterUnsupported(c) \/ Enter(c)

(* The steps a started call takes by itself, the Core's answer apart.      *)
CallStep(c) ==
  \/ Lease(c) \/ RLockBlocks(c) \/ TryRLockFails(c) \/ PollEnded(c) \/ PollAgain(c)
  \/ LeaseRejected(c) \/ LeaseAccepted(c) \/ Measure(c)
  \/ TokenUnavailable(c) \/ CreateToken(c) \/ CheckCtx(c) \/ Wake(c) \/ Dispatch(c)
  \/ JoinAndFree(c) \/ RUnlock(c)

WatcherStep(c) == WatchCtxDone(c) \/ WatchCancel(c) \/ WatchStop(c)

CloserStep(k) == CloseHandle(k) \/ CloseUnlock(k)

(* Every call returned and every Close finished: nothing left to do.       *)
Quiescent ==
  /\ \A c \in Calls : pc[c] = "done"
  /\ \A k \in Closers : closer[k] = "done"
  /\ UNCHANGED vars

Next ==
  \/ \E c \in Calls :
       Start(c) \/ CallStep(c) \/ NativeReturns(c) \/ WatcherStep(c)
         \/ CtxCancel(c) \/ CtxExpire(c)
  \/ \E k \in Closers : CloseLock(k) \/ CloserStep(k)
  \/ Tick
  \/ Quiescent

Spec == Init /\ [][Next]_vars

(* The Go scheduler runs every runnable goroutine, timers fire, and a      *)
(* select with two ready cases picks each of them again and again (its     *)
(* choice is uniform), hence strong fairness for the poll's Done case.     *)
Fairness ==
  /\ \A c \in Calls : WF_vars(CallStep(c)) /\ SF_vars(PollEnded(c))
  /\ \A c \in Calls : WF_vars(WatcherStep(c)) /\ WF_vars(CtxExpire(c))
  /\ \A k \in Closers : WF_vars(CloserStep(k))
  /\ WF_vars(Tick)

(* Nothing is assumed of the Core: its cancellation is cooperative and a   *)
(* native call may never come back.                                        *)
FairSpec == Spec /\ Fairness
-----------------------------------------------------------------------------
(* A native token is live for everyone who may still touch it: the call    *)
(* between its creation and its release, and a watcher that has seen the   *)
(* end of the context and is about to signal it.  (Go joins the watcher    *)
(* before talon_sdk_sql_context_free.)                                     *)
TokenSafety ==
  \A c \in Calls :
    /\ watcher[c] \in {"watching", "cancelling"} => token[c] = "live"
    /\ (mode[c] = "context" /\ pc[c] \in {"check", "sleep", "dispatch", "exec", "join"})
         => token[c] = "live"

(* Native code never runs on a closed handle, whatever Close, legacy and   *)
(* context calls are interleaved, and the handle is closed at most once.   *)
HandleSafety ==
  /\ \A c \in Calls : pc[c] \in {"measure", "create", "check", "sleep", "dispatch", "exec"}
                        => handle = "open"
  /\ nativeCloses = IF handle = "open" THEN 0 ELSE 1

(* Tokens do not outlive their call: a finished call left no token, no     *)
(* watcher and no lease behind, on any of its early returns.               *)
NothingLeaks ==
  \A c \in Calls : pc[c] = "done" =>
    /\ token[c] # "live"
    /\ watcher[c] \in {"none", "exited"}
    /\ c \notin readers \cup parked

(* The native deadline is never ahead of the Go deadline, in spite of the  *)
(* rounding to milliseconds and of the time that passes between reading    *)
(* the remaining time and creating the token.                              *)
TokenNotEarly ==
  \A c \in Calls : token[c] = "live" =>
    /\ ctx[c].deadline = NoDeadline <=> tokenDeadline[c] = NoDeadline
    /\ tokenDeadline[c] >= ctx[c].deadline

(* The first cause Core reports is the caller's: "cancelled" only after    *)
(* the owner cancelled (never because a deadline passed and the watcher    *)
(* latched it as a cancellation), "deadline_exceeded" only after the       *)
(* caller's own deadline passed.                                           *)
CauseIsTheCallers ==
  \A c \in Calls :
    /\ tokenCancelled[c] => ctxErr[c] = "Canceled"
    /\ "Canceled" \in result[c].is => ctxErr[c] = "Canceled"
    /\ "DeadlineExceeded" \in result[c].is =>
         ctx[c].deadline # NoDeadline /\ now >= ctx[c].deadline

(* What a caller may conclude from its error.  An error that is neither    *)
(* ResultIndeterminate nor ProtocolViolation says the statement took no    *)
(* effect, so replaying it is safe; success says it did.  A cancellation   *)
(* that races the answer changes neither.                                  *)
OutcomeIsKnown ==
  \A c \in Queries : pc[c] = "done" =>
    /\ result[c] = NoError => effect[c] = "applied"
    /\ result[c].code \notin {"ok", "ResultIndeterminate", "ProtocolViolation"}
         => effect[c] = "none"

(* SQLRollbackContext "always dispatches cleanup even if ctx is already    *)
(* cancelled": a rollback that returns was executed by Core, unless the    *)
(* database was closed, the runtime cannot bound it or the token could not *)
(* be allocated - never because of its context.                            *)
RollbackDispatched ==
  \A c \in Rollbacks : pc[c] = "done" =>
    \/ result[c].code \in {"DatabaseClosed", "CapabilityUnavailable", "NativeUnavailable"}
    \/ effect[c] = "cleaned"
    \/ result[c].code \in {"NativeStorage", "ResultIndeterminate", "ProtocolViolation"}

(* A rollback whose context had expired before the remaining time was read *)
(* reaches Core with an expired token: 1 ms, slept out.                    *)
ExpiredAtEntryStaysExpired ==
  [][\A c \in Rollbacks :
       (Dispatch(c) /\ wake[c] # NoDeadline /\ timeout[c] = 1) => now >= tokenDeadline[c]]_vars

(* talon_sql_context.go 144: "Expired rollback still dispatches cleanup    *)
(* with an expired token", for every rollback found expired at line 142.   *)
ExpiredRollbackUsesExpiredToken ==
  [][\A c \in Rollbacks :
       (Dispatch(c) /\ wake[c] # NoDeadline) => now >= tokenDeadline[c]]_vars

-----------------------------------------------------------------------------
(* The envelopes that the decoder would misread under a given ctx.Err(),   *)
(* each by one of three conditions.                                        *)
HidesUncertainty(wire, err) ==
  /\ wire.form \in {"json", "rc"} /\ wire.code \in {"uncertain", "result_indeterminate"}
  /\ err.code \notin {"ResultIndeterminate", "ProtocolViolation"}

InventsSentinel(wire, err, ended) ==
  \E s \in err.is :
    ~ \/ wire.form = "json" /\ s \in CauseSentinel(wire.cause) \cup CauseSentinel(wire.code)
      \/ /\ wire.form = "json" /\ wire.cause = "cleanup_failed" /\ wire.interruption.form = "json"
         /\ s \in CauseSentinel(wire.interruption.cause)
      \/ wire.form = "rc" /\ s \in CauseSentinel(wire.code)
      \/ err.code = "ResultIndeterminate" /\ s = ended

LosesInterruption(wire, err) ==
  /\ wire.form = "json" /\ err.code = "ResultIndeterminate" /\ wire.cause = "cleanup_failed"
  /\ ~ /\ wire.interruption.form = "json"
       /\ CauseSentinel(wire.interruption.cause) \subseteq err.is
       /\ wire.interruption.cause \in {"cancelled", "deadline_exceeded"}
       /\ wire.interruption.ok = "false"
       /\ wire.retryable = "false"

ContextErrs == {"none"} \cup Sentinels

UncertaintyHidden ==
  [e \in ContextErrs |-> {wire \in Wires : HidesUncertainty(wire, ResponseError(e, wire))}]

SentinelsInvented ==
  [e \in ContextErrs |-> {wire \in Wires : InventsSentinel(wire, ResponseError(e, wire), e)}]

InterruptionsLost ==
  [e \in ContextErrs |-> {wire \in Wires : LosesInterruption(wire, ResponseError(e, wire))}]

(* talon_sql_context.go 191-195: "Keep uncertain as the primary            *)
(* classification".  Whatever a call is doing when its answer comes, an    *)
(* answer that admits an unknown commit is never turned into a known       *)
(* outcome: the caller sees ResultIndeterminate or, when the envelope is   *)
(* unusable, ProtocolViolation, and never a bare success or a timeout;     *)
(* ctx.Err() only adds a sentinel.                                         *)
UncertaintyPreserved == \A c \in Calls : UncertaintyHidden[ctxErr[c]] = {}

(* A sentinel in the error tree was put there by a cause the native side   *)
(* named or, for an uncertain outcome only, by the caller's own context:   *)
(* an unrelated failure is never dressed up as a cancellation.             *)
SentinelsHaveACause == \A c \in Calls : SentinelsInvented[ctxErr[c]] = {}

(* A failed cleanup keeps the interruption it hides: when the caller sees  *)
(* an indeterminate result for cause cleanup_failed, the sentinel of the   *)
(* nested interruption is in the error tree, and Core promised no retry.   *)
CleanupKeepsInterruption == \A c \in Calls : InterruptionsLost[ctxErr[c]] = {}

-----------------------------------------------------------------------------
(* A native call that never returns: the only thing Close and the calls    *)
(* queued behind it may wait for forever.                                  *)
NativeHangs == [](\E c \in Calls : pc[c] = "exec")

(* "Close waits for native completion", and for nothing else: an announced *)
(* Close finishes although rollbacks and legacy calls keep queueing behind *)
(* it and queries keep polling, unless a native call hangs.                *)
CloseCompletes ==
  \A k \in Closers : closer[k] = "pending" ~> (closer[k] = "done" \/ NativeHangs)

(* Every started call returns, also one that parks behind a Close or waits *)
(* for its watcher, unless a native call hangs.                            *)
CallsReturn ==
  \A c \in Calls : pc[c] \notin {"idle", "done"} ~> (pc[c] = "done" \/ NativeHangs)

(* "A waiting query can observe its deadline while acquiring the handle    *)
(* lease": a query whose context ended before it got to the native call    *)
(* returns even if every native call in flight hangs and Close with it.    *)
WaitingQueryObservesEnd ==
  \A c \in Queries :
    (pc[c] \in {"lock", "poll", "leased"} /\ mode[c] = "context" /\ ctxErr[c] # "none")
      ~> pc[c] = "done"
=============================================================================
