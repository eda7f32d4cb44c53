------------------------------ MODULE SdkErrors ------------------------------
(***************************************************************************)
(* The error codes the on-chain functions of the SDK (sdk/src/verify.ts)   *)
(* reject with.                                                            *)
(***************************************************************************)

\* classifyError, of an exception that carries no contract error: which code it
\* becomes depends on the words of its message.
ThrownCode == {"RESOURCE_LIMIT_EXCEEDED", "NETWORK_ERROR", "CONTRACT_INVOCATION_FAILED"}

\* CONTRACT_ERROR_CODES of an Err; a panic carries no contract error.
ErrorCodes(verdict) ==
  CASE verdict = "RateLimitExceeded" -> {"RATE_LIMIT_EXCEEDED"}
    [] verdict = "ProofExpired"      -> {"PROOF_EXPIRED"}
    [] verdict = "CallerNotAllowed"  -> {"CALLER_NOT_ALLOWED"}
    [] OTHER                         -> ThrownCode

\* The codes that tell the caller the contract did not, and will not, count
\* this call.
CertainCode == {"INVALID_PROOF_FORMAT", "NETWORK_MISMATCH", "TRANSACTION_REJECTED",
                "RATE_LIMIT_EXCEEDED", "PROOF_EXPIRED", "CALLER_NOT_ALLOWED"}

=============================================================================
