------------------------ MODULE RegistryClientProofs ------------------------
(***************************************************************************)
(* Theorems about RegistryClient for every number of sessions, every       *)
(* request and every history of registrations, and their proofs.           *)
(***************************************************************************)
EXTENDS RegistryClient, TLAPS

-----------------------------------------------------------------------------
(* Types.                                                                  *)

LEMMA FlagsType ==
  ASSUME opts \in [Session -> Request], NEW s \in Session
  PROVE  Flags(Verdicts(s)) \in Seq(BOOLEAN)
<1>1. opts[s].items \in Seq(Item)
  BY ClientAssumption DEF RequestType
<1> DEFINE n == Len(opts[s].items)
<1>2. n \in Nat /\ DOMAIN opts[s].items = 1..n
  BY <1>1
<1>3. DOMAIN Verdicts(s) = 1..n
  BY <1>2 DEF Verdicts
<1>4. Flags(Verdicts(s)) \in [1..n -> BOOLEAN]
  BY <1>3 DEF Flags
<1> QED
  BY <1>2, <1>4

\* What a step of one session can be, as the type invariant sees it.
LEMMA SessionTypeOK ==
  ASSUME ClientTypeOK, NEW s \in Session, SessionStep(s), UNCHANGED opts
  PROVE  ClientTypeOK'
<1>1. ASSUME NEW phase \in {"network", "account", "simulate"},
             call[s].phase # "done", Proceed(s, phase)
      PROVE  ClientTypeOK'
  BY <1>1 DEF ClientTypeOK, Proceed, At
<1>2. ASSUME NEW code \in ThrownCode \cup {"INVALID_PROOF_FORMAT", "NETWORK_MISMATCH"},
             Reject(s, code)
      PROVE  ClientTypeOK'
  BY <1>2 DEF ClientTypeOK, Reject, At, ThrownCode
<1>3. ASSUME Resolve(s, Flags(Verdicts(s)))
      PROVE  ClientTypeOK'
  <2>1. Flags(Verdicts(s)) \in Seq(BOOLEAN)
    BY FlagsType DEF ClientTypeOK
  <2> QED
    BY <1>3, <2>1 DEF ClientTypeOK, Resolve, At
<1> QED
  BY <1>1, <1>2, <1>3
  DEF SessionStep, Start, GetNetwork, GetAccount, Simulate, RequestFails, At, ThrownCode

LEMMA NextClientTypeOK ==
  ASSUME ClientTypeOK, [ClientNext]_allVars
  PROVE  ClientTypeOK'
<1>1. CASE UNCHANGED <<opts, call>>
  BY <1>1 DEF ClientTypeOK, At
<1>2. CASE (\E s \in Session : SessionStep(s)) /\ UNCHANGED opts
  BY <1>2, SessionTypeOK
<1> QED
  BY <1>1, <1>2 DEF ClientNext, allVars, clientVars

\* Every reachable session is well typed, and settled exactly when it has an
\* outcome.
THEOREM ClientTypeCorrect == ClientSpec => []ClientTypeOK
<1>1. ClientInit => ClientTypeOK
  BY DEF ClientInit, ClientTypeOK, NewCall, At, ThrownCode
<1>2. ClientTypeOK /\ [ClientNext]_allVars => ClientTypeOK'
  BY NextClientTypeOK
<1> QED
  BY <1>1, <1>2, PTL DEF ClientSpec

-----------------------------------------------------------------------------
(* What reaches the contract.                                              *)

\* A call under way has passed validation.
SentInv ==
  /\ ClientTypeOK
  /\ \A s \in Session : call[s].phase \notin {"idle", "done"} => ~Malformed(opts[s])

\* A session's own step: past "idle" only if what it was given is well formed.
LEMMA SessionSent ==
  ASSUME SentInv, NEW s \in Session, SessionStep(s)
  PROVE  call'[s].phase \notin {"idle", "done"} => ~Malformed(opts[s])
<1>1. ASSUME NEW code, Reject(s, code)
      PROVE  call'[s].phase = "done"
  BY <1>1 DEF Reject, SentInv, ClientTypeOK
<1>2. ASSUME NEW flags, Resolve(s, flags)
      PROVE  call'[s].phase = "done"
  BY <1>2 DEF Resolve, SentInv, ClientTypeOK
<1> QED
  BY <1>1, <1>2
  DEF SentInv, SessionStep, Start, GetNetwork, GetAccount, Simulate, RequestFails, At

\* It leaves the other sessions where they are.
LEMMA OtherSessions ==
  ASSUME SentInv, NEW s \in Session, SessionStep(s), NEW t \in Session, t # s
  PROVE  call'[t] = call[t]
<1>1. ASSUME NEW code, Reject(s, code)
      PROVE  call'[t] = call[t]
  BY <1>1 DEF Reject, SentInv, ClientTypeOK
<1>2. ASSUME NEW flags, Resolve(s, flags)
      PROVE  call'[t] = call[t]
  BY <1>2 DEF Resolve, SentInv, ClientTypeOK
<1>3. ASSUME NEW phase, Proceed(s, phase)
      PROVE  call'[t] = call[t]
  BY <1>3 DEF Proceed, SentInv, ClientTypeOK
<1> QED
  BY <1>1, <1>2, <1>3
  DEF SessionStep, Start, GetNetwork, GetAccount, Simulate, RequestFails

LEMMA NextSent ==
  ASSUME SentInv, [ClientNext]_allVars
  PROVE  SentInv'
<1>1. ClientTypeOK'
  BY NextClientTypeOK DEF SentInv
<1>2. opts' = opts
  BY DEF ClientNext, allVars, clientVars
<1>3. CASE UNCHANGED call
  BY <1>1, <1>2, <1>3 DEF SentInv, Malformed
<1>4. CASE \E s \in Session : SessionStep(s)
  <2>1. ASSUME NEW t \in Session, call'[t].phase \notin {"idle", "done"}
        PROVE  ~Malformed(opts[t])
    BY <1>4, <2>1, SessionSent, OtherSessions DEF SentInv
  <2> QED
    BY <1>1, <1>2, <2>1 DEF SentInv, Malformed
<1> QED
  BY <1>3, <1>4 DEF ClientNext, allVars, clientVars

\* A verdict that is a panic, of a proof with the lengths of curve points.
LEMMA PanicOffCurve ==
  ASSUME NEW item \in Item, item.points # "badLength", Verdict(item) = "Trap"
  PROVE  LET key == circuits[item.id]
         IN  /\ key # NoVk /\ key.icLen = item.inputs + 1
             /\ item.points = "offCurve" \/ ~key.onCurve
<1>1. item \in ItemType
  BY ConstantsAssumption
<1>2. item.inputs \in Nat /\ item.points \in {"valid", "badLength", "offCurve"}
  BY <1>1 DEF ItemType
<1> QED
  BY <1>2 DEF Verdict

\* What the SDK sends for any caller panics in the contract only for points off
\* the curve, whatever circuits are registered or replaced meanwhile.
THEOREM SentPanicsHolds == ClientSpec => []SentPanics
<1>1. ClientInit => SentInv
  BY DEF ClientInit, SentInv, ClientTypeOK, NewCall, At, ThrownCode
<1>2. SentInv /\ [ClientNext]_allVars => SentInv'
  BY NextSent
<1>3. SentInv => SentPanics
  <2> SUFFICES ASSUME SentInv, NEW s \in Session, At(s, "simulate"),
                      NEW i \in DOMAIN opts[s].items, Verdict(opts[s].items[i]) = "Trap"
               PROVE  LET item == opts[s].items[i]
                          key == circuits[item.id]
                      IN  /\ key # NoVk /\ key.icLen = item.inputs + 1
                          /\ item.points = "offCurve" \/ ~key.onCurve
    BY DEF SentPanics, Panics, Verdicts
  <2>1. opts[s].items \in Seq(Item)
    BY ClientAssumption DEF SentInv, ClientTypeOK, RequestType
  <2>2. opts[s].items[i] \in Item
    BY <2>1
  <2>3. opts[s].items[i].points # "badLength"
    BY DEF SentInv, Malformed, At
  <2> QED
    BY <2>2, <2>3, PanicOffCurve
<1> QED
  BY <1>1, <1>2, <1>3, PTL DEF ClientSpec

=============================================================================
