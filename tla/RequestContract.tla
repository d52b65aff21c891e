---------------------------- MODULE RequestContract ----------------------------
(* What the sender of a unary request is promised, without routes,         *)
(* breakers or protocols: one answer, and what each answer says about how  *)
(* often the downstream service ran the request.  BridgeServer implements  *)
(* it, and so does Application on the callers' side.                       *)
EXTENDS Integers

CONSTANTS
  Requests,
  Sendings       \* ways to send a request: limit, the copies there may be of
                 \* it; sure, whether a success is an answer of the service's

VARIABLES
  phase,         \* what the sender knows of the request
  kind,          \* how it has been sent, if it has
  runs           \* how often the downstream service ran it

contractVars == <<phase, kind, runs>>

NotSent == [limit |-> 0, sure |-> TRUE]

ContractInit ==
  /\ phase = [r \in Requests |-> "free"]
  /\ kind = [r \in Requests |-> NotSent]
  /\ runs = [r \in Requests |-> 0]

Accept(r) ==
  /\ phase[r] = "free"
  /\ phase' = [phase EXCEPT ![r] = "open"]
  /\ UNCHANGED <<kind, runs>>

(* The request goes out, in one copy or in several.                        *)
Dispatch(r, k) ==
  /\ phase[r] = "open"
  /\ kind[r] = NotSent
  /\ kind' = [kind EXCEPT ![r] = k]
  /\ UNCHANGED <<phase, runs>>

(* A copy may arrive even after the sender has been told of a failure.     *)
Perform(r) ==
  /\ runs[r] < kind[r].limit
  /\ runs' = [runs EXCEPT ![r] = @ + 1]
  /\ UNCHANGED <<phase, kind>>

(* An answer without a status.                                             *)
Succeed(r) ==
  /\ phase[r] = "open"
  /\ kind[r].sure => runs[r] > 0
  /\ phase' = [phase EXCEPT ![r] = "ok"]
  /\ UNCHANGED <<kind, runs>>

(* A failure says nothing of what the downstream service did ...           *)
Fail(r) ==
  /\ phase[r] = "open"
  /\ phase' = [phase EXCEPT ![r] = "failed"]
  /\ UNCHANGED <<kind, runs>>

(* ... but a request refused (no route, no handler, breaker open) was not  *)
(* sent, and never runs; it may be refused as it comes in.                 *)
Refuse(r) ==
  /\ phase[r] \in {"free", "open"}
  /\ kind[r] = NotSent
  /\ phase' = [phase EXCEPT ![r] = "refused"]
  /\ UNCHANGED <<kind, runs>>

Forget(r) ==
  /\ phase[r] \in {"ok", "failed", "refused"}
  /\ phase' = [phase EXCEPT ![r] = "free"]
  /\ kind' = [kind EXCEPT ![r] = NotSent]
  /\ runs' = [runs EXCEPT ![r] = 0]

ContractNext ==
  \E r \in Requests :
     \/ Accept(r) \/ Perform(r) \/ Succeed(r) \/ Fail(r) \/ Refuse(r) \/ Forget(r)
     \/ \E k \in Sendings : Dispatch(r, k)

ContractSpec == ContractInit /\ [][ContractNext]_contractVars

(* A request never runs more often than the way it was sent allows, one    *)
(* that was refused has not run; and a success whose answer is the         *)
(* service's own has been run by it.                                       *)
Honest ==
  \A r \in Requests :
     /\ runs[r] <= kind[r].limit
     /\ phase[r] = "refused" => runs[r] = 0
     /\ phase[r] = "ok" /\ kind[r].sure => runs[r] > 0
=============================================================================
