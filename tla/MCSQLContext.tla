---------------------------- MODULE MCSQLContext ----------------------------
(***************************************************************************)
(* Small instances of SQLContext: which contexts the callers pass, and     *)
(* which runtimes are admitted.  The decoder of responses is checked       *)
(* beside them on a table of envelopes larger than Core sends.             *)
(***************************************************************************)
EXTENDS SQLContext, TLC

CONSTANTS q1, r1, k1, k2

Background == [done |-> FALSE, deadline |-> NoDeadline]

Cancellable == [done |-> TRUE, deadline |-> NoDeadline]

Until(t) == [done |-> TRUE, deadline |-> t]

(* Interleavings of calls and closers: a context of each kind, one         *)
(* deadline, and both the current and the legacy Core.                     *)
RaceContexts == {Background, Until(1)}

RaceRuntimes == {Capabilities, {"native_sql_result"}}

(* The closers do the same thing; only invariants are checked with it.     *)
ClosersAlike == Permutations({k1, k2})

(* Time: one rollback and no Close (a query takes the same steps, or       *)
(* fewer, once it has the lease), deadlines on and off the millisecond grid. *)
TimedContexts == {Cancellable} \cup {Until(t) : t \in 0..4}

TimedRuntimes == {Capabilities, {}}

(* Liveness: the deadline is reached whatever the goroutines do.           *)
LiveContexts == {Until(1)}

CurrentRuntime == {Capabilities}

(* A deadline 1.5 ms ahead, rounded up to 2 ms.                            *)
StalledContexts == {Until(3)}

-----------------------------------------------------------------------------
(* Every combination of envelope fields, well formed or not, to be decoded *)
(* under every ctx.Err().                                                  *)

NativeCodes == {"", "cancelled", "deadline_exceeded", "result_indeterminate",
                "uncertain", "storage_error"}

Causes == {"", "cancelled", "deadline_exceeded", "cleanup_failed", "other"}

FlatEnvelopes ==
  [form: {"json"}, ok: {Absent, "true", "false"}, code: NativeCodes,
   cause: Causes, retryable: {Absent, "true", "false"},
   state: {"", "rolled_back_if_owned", "consumed"}, outcome: {"", "unknown"},
   data: {Absent, "null", "rows"}, interruption: {NoEnvelope, [form |-> "null"]}]

(* Nested envelopes as a Core with a fault in its cleanup path could send. *)
NestedEnvelopes ==
  [form: {"json"}, ok: {"true", "false"},
   code: {"cancelled", "deadline_exceeded", "result_indeterminate", "storage_error"},
   cause: {"", "cancelled", "deadline_exceeded", "cleanup_failed"},
   retryable: {Absent, "false"}, state: {"rolled_back_if_owned", "consumed"},
   outcome: {"", "unknown"}, data: {Absent, "rows"}, interruption: {NoEnvelope}]

CleanupEnvelopes ==
  [form: {"json"}, ok: {"true", "false"}, code: {"result_indeterminate", "cancelled"},
   cause: {"cleanup_failed"}, retryable: {"false"}, state: {"", "consumed"},
   outcome: {""}, data: {Absent, "rows"}, interruption: NestedEnvelopes]

FailedCalls == [form: {"rc"}, code: NativeCodes] \cup {[form |-> "null"], [form |-> "malformed"]}

Envelopes == FlatEnvelopes \cup CleanupEnvelopes \cup FailedCalls
=============================================================================
