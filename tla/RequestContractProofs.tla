------------------------ MODULE RequestContractProofs ------------------------
(* What the contract's answers are worth, proved for any number of         *)
(* requests and ways to send them.  BridgeServer and Application implement *)
(* the contract, so it holds of the bridge and of the SDK under DoRetry.   *)
EXTENDS RequestContract, TLAPS

ContractTypeOK ==
  /\ phase \in [Requests -> {"free", "open", "ok", "failed", "refused"}]
  /\ kind \in [Requests -> Sendings \cup {NotSent}]
  /\ runs \in [Requests -> Nat]

(* Honest is not inductive: a request can be refused as it comes in, or    *)
(* before it is sent, and has not run then only because nothing is left    *)
(* over from the slot's last request; and the refusal is final.            *)
Unsent ==
  \A r \in Requests : phase[r] \in {"free", "refused"} => kind[r] = NotSent

ContractInv == ContractTypeOK /\ Honest /\ Unsent

(* A request that has not been sent has no runs.                           *)
LEMMA NoneNever ==
  ASSUME ContractInv, NEW r \in Requests, kind[r] = NotSent
  PROVE  runs[r] = 0
  <1>1. runs[r] \in Nat
    BY DEF ContractInv, ContractTypeOK
  <1>2. runs[r] <= 0
    BY DEF ContractInv, Honest, NotSent
  <1> QED
    BY <1>1, <1>2

LEMMA ContractInitInv == ContractInit => ContractInv
  BY DEF ContractInit, ContractInv, ContractTypeOK, Honest, Unsent, NotSent

(* Every action of the contract keeps the invariant.                       *)
LEMMA ContractStepInv ==
  ASSUME Sendings \subseteq [limit : Nat, sure : BOOLEAN], ContractInv, [ContractNext]_contractVars
  PROVE  ContractInv'
  <1> USE DEF ContractInv, ContractTypeOK, Honest, Unsent
  <1>0. /\ NotSent.limit = 0 /\ NotSent.sure = TRUE
        /\ \A k \in Sendings \cup {NotSent} : k.limit \in Nat
    BY DEF NotSent
  <1>1. ASSUME NEW r \in Requests, Accept(r)
        PROVE  ContractInv'
    BY <1>1 DEF Accept
  <1>2. ASSUME NEW r \in Requests, NEW k \in Sendings, Dispatch(r, k)
        PROVE  ContractInv'
    <2>1. runs[r] = 0
      BY <1>2, NoneNever DEF Dispatch
    <2> QED
      BY <1>0, <1>2, <2>1 DEF Dispatch
  <1>3. ASSUME NEW r \in Requests, Perform(r)
        PROVE  ContractInv'
    BY <1>0, <1>3 DEF Perform
  <1>4. ASSUME NEW r \in Requests, Succeed(r)
        PROVE  ContractInv'
    BY <1>4 DEF Succeed
  <1>5. ASSUME NEW r \in Requests, Fail(r)
        PROVE  ContractInv'
    BY <1>5 DEF Fail
  <1>6. ASSUME NEW r \in Requests, Refuse(r)
        PROVE  ContractInv'
    <2>1. runs[r] = 0
      BY <1>6, NoneNever DEF Refuse
    <2> QED
      BY <1>0, <1>6, <2>1 DEF Refuse
  <1>7. ASSUME NEW r \in Requests, Forget(r)
        PROVE  ContractInv'
    BY <1>0, <1>7 DEF Forget
  <1>8. CASE UNCHANGED contractVars
    BY <1>8 DEF contractVars
  <1> QED
    BY <1>1, <1>2, <1>3, <1>4, <1>5, <1>6, <1>7, <1>8 DEF ContractNext

(* A request that was refused has not run, one that was sent never runs    *)
(* more often than the way it was sent allows, and a success whose answer  *)
(* is the service's own has been run at least once.                        *)
THEOREM AnswersAreHonest ==
  ASSUME Sendings \subseteq [limit : Nat, sure : BOOLEAN]
  PROVE  ContractSpec => []Honest
  <1>1. ContractInit => ContractInv
    BY ContractInitInv
  <1>2. ContractInv /\ [ContractNext]_contractVars => ContractInv'
    BY ContractStepInv
  <1>3. ContractInv => Honest
    BY DEF ContractInv
  <1> QED
    BY <1>1, <1>2, <1>3, PTL DEF ContractSpec
=============================================================================
