------------------------------ MODULE TeeRules ------------------------------
(***************************************************************************)
(* What the services behind the engine answer, as operators without state: *)
(* a strategy or the judge in its TEE (matching/llm_engine.py), and the    *)
(* attestation of the enclave and its GPUs (attestation/verifier.py).      *)
(***************************************************************************)
EXTENDS Integers, FiniteSets, Sequences

(***************************************************************************)
(* Inference.  A setup says whether the API key is set, whether any model  *)
(* is allowed, and whether the role's model is on the allowlist.  A reply  *)
(* says what became of the call, whether its signature was verified, and   *)
(* which matches the parsed answer has.                                    *)
(***************************************************************************)

MayCall(setup) == setup.key /\ (setup.anyModel \/ setup.allowed)

\* The call raised, the content was empty, no JSON or no object, or had null
\* for its matches.
Unusable == {"raised", "empty", "unparsable", "notObject", "noMatches"}

\* _call_tee: an error, or the parsed answer.  Whether its signature could be
\* verified is recorded in the answer and decides nothing.
CallTee(setup, reply) ==
  IF ~MayCall(setup) \/ reply.outcome \in Unusable THEN [error |-> TRUE, matches |-> << >>]
  ELSE [error |-> FALSE, matches |-> reply.matches]

(***************************************************************************)
(* Attestation.  A report has the addresses that sign for the enclave and  *)
(* one NVIDIA payload per GPU; a check of a payload is what the NVIDIA     *)
(* service said of it.                                                     *)
(***************************************************************************)

RETRY_COUNT == 3

\* _get_with_retry, _post_with_retry: an answer when one of the attempts gets
\* through; attempts is the sequence of what each would meet.
Answers(attempts) == \E i \in DOMAIN attempts : i <= RETRY_COUNT /\ attempts[i] = "ok"

\* verify_attestation: a failure without a report or an address; otherwise a
\* success, whatever the GPUs' checks say, which gpuVerified records.
VerifyAttestation(reportAttempts, addresses, checks) ==
  IF ~Answers(reportAttempts) \/ addresses = {} THEN [success |-> FALSE, gpuVerified |-> FALSE]
  ELSE [success |-> TRUE,
        gpuVerified |-> checks # << >> /\ \A i \in DOMAIN checks : checks[i] = "passed"]
=============================================================================
