----------------------- MODULE HandoffContractProofs -----------------------
(***************************************************************************)
(* What follows from the handoff contract, for every set of attempts: one  *)
(* attempt in flight per action, and one landing per event.  A system that *)
(* keeps the contract (EffectKernel!KeepsContract) has both.               *)
(***************************************************************************)
EXTENDS HandoffContract, TLAPS

Inv == ContractTypeOK /\ OneInFlight /\ EventLandsOnce

-----------------------------------------------------------------------------
(* An answer only ever turns an unanswered attempt into an answered one.   *)
LEMMA AnswersStand ==
    ASSUME ContractTypeOK, Answer, NEW k \in handed
    PROVE  /\ verdict'[k] = Unanswered => verdict[k] = Unanswered
           /\ verdict[k] = "NotApplied" => verdict'[k] = "NotApplied"
  BY DEF ContractTypeOK, Answer, Unanswered

LEMMA HandOffKeepsInv ==
    ASSUME Inv, NEW k \in Key, HandOff(k)
    PROVE  Inv'
<1> USE DEF Inv, ContractTypeOK
<1>1. handed' = handed \cup {k} /\ verdict' = verdict
  BY DEF HandOff
<1>2. ContractTypeOK'
  BY <1>1
<1>3. ASSUME NEW i \in handed', NEW j \in handed', i.action = j.action,
             verdict'[i] = Unanswered, verdict'[j] = Unanswered
      PROVE  i = j
  <2>1. CASE i \in handed /\ j \in handed
    BY <1>1, <1>3, <2>1 DEF OneInFlight
  <2>2. CASE i = k \/ j = k
    BY <1>1, <1>3, <2>2 DEF HandOff
  <2>3. QED
    BY <1>1, <2>1, <2>2
<1>4. ASSUME NEW i \in handed', NEW j \in handed', SameEvent(i, j), i # j
      PROVE  "NotApplied" \in {verdict'[i], verdict'[j]}
  <2>1. CASE i \in handed /\ j \in handed
    BY <1>1, <1>4, <2>1 DEF EventLandsOnce
  <2>2. CASE j = k /\ i \in handed
    <3>1. verdict[i] # Unanswered /\ verdict[i] # "Applied"
      BY <1>4, <2>2 DEF HandOff, SameEvent
    <3>2. QED
      BY <1>1, <2>2, <3>1 DEF Evidence
  <2>3. CASE i = k /\ j \in handed
    <3>1. verdict[j] # Unanswered /\ verdict[j] # "Applied"
      BY <1>4, <2>3 DEF HandOff, SameEvent
    <3>2. QED
      BY <1>1, <2>3, <3>1 DEF Evidence
  <2>4. QED
    BY <1>1, <1>4, <2>1, <2>2, <2>3
<1>5. QED
  BY <1>2, <1>3, <1>4 DEF OneInFlight, EventLandsOnce, SameEvent

LEMMA AnswerKeepsInv ==
    ASSUME Inv, Answer
    PROVE  Inv'
<1> USE DEF Inv
<1>1. ContractTypeOK'
  BY DEF ContractTypeOK, Answer
<1>2. handed' = handed
  BY DEF Answer
<1>3. OneInFlight'
  BY <1>2, AnswersStand DEF OneInFlight
<1>4. ASSUME NEW i \in handed', NEW j \in handed', SameEvent(i, j), i # j
      PROVE  "NotApplied" \in {verdict'[i], verdict'[j]}
  <2>1. "NotApplied" \in {verdict[i], verdict[j]}
    BY <1>2, <1>4 DEF EventLandsOnce
  <2>2. QED
    BY <1>2, <2>1, AnswersStand
<1>5. QED
  BY <1>1, <1>3, <1>4 DEF EventLandsOnce, SameEvent

THEOREM ContractInvariant == ContractSpec => []Inv
<1>1. ContractInit => Inv
  BY DEF ContractInit, Inv, ContractTypeOK, OneInFlight, EventLandsOnce
<1>2. Inv /\ [ContractNext]_contractVars => Inv'
  <2>1. Inv /\ UNCHANGED contractVars => Inv'
    BY DEF contractVars, Inv, ContractTypeOK, OneInFlight, EventLandsOnce, SameEvent
  <2>2. QED
    BY <2>1, HandOffKeepsInv, AnswerKeepsInv DEF ContractNext
<1>3. QED
  BY <1>1, <1>2, PTL DEF ContractSpec

(* The bytes of two attempts at one action are never in flight together.   *)
THEOREM OneAttemptInFlight == ContractSpec => []OneInFlight
  BY ContractInvariant, PTL DEF Inv

(* An event lands once, however often it is redelivered and retried.       *)
THEOREM OneLandingPerEvent == ContractSpec => []EventLandsOnce
  BY ContractInvariant, PTL DEF Inv
=============================================================================
