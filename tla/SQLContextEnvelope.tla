------------------------- MODULE SQLContextEnvelope -------------------------
(***************************************************************************)
(* How a native_sql_context response becomes a Go error: the versioned     *)
(* error envelope of talon_sql_context.go, the base envelope of talon.go   *)
(* and the classification of errors.go.                                    *)
(*                                                                         *)
(* A response is a record of the envelope fields the decoders branch on.   *)
(* Message text, term and leader hint are left out: no branch that         *)
(* decides a code or a cause reads them on the SQL path.  An error is      *)
(*   code   : what ErrorCodeOf reports ("" for a bare context error),      *)
(*   native : what NativeCodeOf reports,                                   *)
(*   is     : the context sentinels errors.Is finds in the error tree.     *)
(***************************************************************************)

(* Absent stands for a JSON member that is missing (or null for a bool).   *)
Absent == "absent"

NoEnvelope == [form |-> Absent]

Sentinels == {"Canceled", "DeadlineExceeded"}

NoError == [code |-> "ok", native |-> "", is |-> {}]

Fault(c) == [code |-> c, native |-> "", is |-> {}]

ProtocolViolation == Fault("ProtocolViolation")

(* A bare ctx.Err(): no TalonError in the tree, so no code.                *)
ContextError(e) == [code |-> "", native |-> "", is |-> {e}]

JoinSentinels(err, s) == [err EXCEPT !.is = @ \cup s]

(* Mutant: "uncertain" falls through to the unclassified default.          *)
newNativeError_UncertainUnmapped(nc) ==
  [code   |-> CASE nc = "result_indeterminate" -> "ResultIndeterminate"
                [] nc \in {"timeout", "deadline_exceeded"} -> "NativeTimeout"
                [] nc = "storage_error" -> "NativeStorage"
                [] OTHER -> "NativeUnclassified",
   native |-> nc,
   is     |-> {}]

(* newNativeError: the mapping of the machine codes the SQL path can carry *)
newNativeError(nc) ==
  [code   |-> CASE nc \in {"uncertain", "result_indeterminate"} -> "ResultIndeterminate"
                [] nc \in {"timeout", "deadline_exceeded"} -> "NativeTimeout"
                [] nc = "storage_error" -> "NativeStorage"
                [] OTHER -> "NativeUnclassified",
   native |-> nc,
   is     |-> {}]

CauseSentinel(cause) ==
  CASE cause = "cancelled" -> {"Canceled"}
    [] cause = "deadline_exceeded" -> {"DeadlineExceeded"}
    [] OTHER -> {}

(* decodeCommandResult on the base envelope.                               *)
decodeCommandResult(w) ==
  IF w.ok = "false" /\ w.data = Absent
  THEN newNativeError(w.code)
  ELSE IF w.ok = "true" /\ w.data \notin {Absent, "null"} /\ w.code = ""
       THEN NoError
       ELSE ProtocolViolation

Extended(w) ==
  \/ w.cause # "" \/ w.retryable # Absent \/ w.state # ""
  \/ w.outcome # "" \/ w.interruption.form # Absent

(* The switch on wire.Code that admits an extended envelope.               *)
ExtensionValid(w) ==
  /\ w.ok = "false"
  /\ w.retryable = "false"
  /\ \/ /\ w.code \in {"cancelled", "deadline_exceeded"}
        /\ w.cause = w.code
        /\ w.state = "rolled_back_if_owned"
        /\ w.outcome = ""
        /\ w.interruption.form = Absent
     \/ /\ w.code = "result_indeterminate"
        /\ w.cause \in {"cancelled", "deadline_exceeded", "cleanup_failed"}
        /\ \/ w.cause = "cleanup_failed"
           \/ w.state = "consumed" /\ w.outcome = "unknown" /\ w.interruption.form = Absent

(* cleanup_failed names the interruption it hides in a nested envelope.    *)
CleanupShapeValid(w) ==
  /\ w.state = "" /\ w.outcome = ""
  /\ w.interruption.form = "json"
  /\ w.interruption.code \in {"cancelled", "deadline_exceeded", "result_indeterminate"}
  /\ w.interruption.cause \in {"cancelled", "deadline_exceeded"}

(* Mutant: the nested interruption is checked and then dropped.            *)
DecodeBase_DropsInterruption(w, interruption) ==
  LET base == decodeCommandResult(w)
  IN  IF base = NoError THEN NoError ELSE JoinSentinels(base, CauseSentinel(w.cause))

(* The tail of decodeSQLContextCommandResult: decode the base, then join   *)
(* the nested interruption and the sentinel of this envelope's cause.      *)
DecodeBase(w, interruption) ==
  LET base == decodeCommandResult(w)
  IN  IF base = NoError
      THEN NoError
      ELSE JoinSentinels(base, interruption.is \cup CauseSentinel(w.cause))

(* An envelope without a nested one.  CleanupShapeValid only lets causes   *)
(* other than cleanup_failed be nested, so the decoder's self-call never   *)
(* goes deeper than this.                                                  *)
DecodeFlat(w) ==
  IF Extended(w) /\ ~ExtensionValid(w)
  THEN ProtocolViolation
  ELSE DecodeBase(w, NoError)

(* decodeSQLContextCommandResult.  A malformed response fails the strict   *)
(* JSON decoder.                                                           *)
decodeSQLContextCommandResult(w) ==
  IF w.form = "malformed" THEN ProtocolViolation
  ELSE IF w.cause # "cleanup_failed" THEN DecodeFlat(w)
  ELSE IF ~ExtensionValid(w) \/ ~CleanupShapeValid(w) THEN ProtocolViolation
  ELSE LET interruption == DecodeFlat(w.interruption)
       IN  IF interruption = NoError \/ interruption.code = "ProtocolViolation"
           THEN JoinSentinels(ProtocolViolation, interruption.is)
           ELSE DecodeBase(w, interruption)

(* Mutant: an ended context is joined to every failure.                    *)
sqlContextError_JoinsAlways(e, err) ==
  IF err = NoError \/ e = "none" THEN err ELSE JoinSentinels(err, {e})

(* Mutant: an ended context replaces the native answer.                    *)
sqlContextError_ContextWins(e, err) ==
  IF e # "none" THEN ContextError(e) ELSE err

(* sqlContextError: e is ctx.Err() ("none", "Canceled", "DeadlineExceeded").*)
sqlContextError(e, err) ==
  IF err = NoError THEN NoError
  ELSE IF err.native \in {"cancelled", "deadline_exceeded"}
       THEN JoinSentinels(err, CauseSentinel(err.native))
       ELSE IF err.code = "ResultIndeterminate" /\ e # "none"
            THEN JoinSentinels(err, {e})
            ELSE err

(* What executeSQLContext returns for a native response: a non-zero return *)
(* code leaves only its machine code, a null output pointer is a protocol  *)
(* violation of its own, anything else is decoded.                         *)
ResponseError(e, w) ==
  CASE w.form = "rc"   -> sqlContextError(e, newNativeError(w.code))
    [] w.form = "null" -> ProtocolViolation
    [] OTHER           -> sqlContextError(e, decodeSQLContextCommandResult(w))
=============================================================================
