-------------------------- MODULE AttestationCache --------------------------
(***************************************************************************)
(* The attestation endpoint (routes.py, lines 116 to 167) with its cache   *)
(* of one answer, and the requests that arrive while another one holds the *)
(* lock and waits for the services.  Time is abstracted to whether the     *)
(* cached answer has passed its time to live.                              *)
(***************************************************************************)
EXTENDS TeeRules

CONSTANT Requests    \* requests for the attestation, each asked at most once

VARIABLES
  cached,    \* _ATTESTATION_CACHE: "none", "fresh" or "expired"
  request    \* where each request is, or what it was answered

attestationVars == <<cached, request>>

\* Waiting for the lock, holding it, and the answers.
InProgress == {"waiting", "verifying"}
Answered200 == {"fresh", "expired"}
Answer == Answered200 \union {"error"}

AttestationInit ==
  /\ cached = "none"
  /\ request = [r \in Requests |-> "unasked"]

\* Mutant: any cached answer is good enough.
UsableAlways == cached # "none"

Usable == cached = "fresh"

\* The first look at the cache, without the lock.
AskAttestation(r) ==
  /\ request[r] = "unasked"
  /\ request' = [request EXCEPT ![r] = IF Usable THEN cached ELSE "waiting"]
  /\ UNCHANGED cached

\* The second look, with the lock: the one before may have filled the cache.
TakeLock(r) ==
  /\ request[r] = "waiting"
  /\ \A q \in Requests : request[q] # "verifying"
  /\ request' = [request EXCEPT ![r] = IF Usable THEN cached ELSE "verifying"]
  /\ UNCHANGED cached

\* What the services may say: a report after some attempts, with or without
\* an address, and with checks of its payloads.
Outcomes ==
  {VerifyAttestation(attempts, addresses, checks) :
     attempts \in {<<"ok">>, <<"lost", "lost", "ok">>, <<"lost", "lost", "lost", "ok">>},
     addresses \in {{}, {"enclave"}},
     checks \in {<< >>, <<"passed">>, <<"passed", "refused">>}}

\* A success is stored and returned.  After a failure, which an exception
\* counts as, the cached answer is returned however old it is.
EndVerification(r, outcome) ==
  /\ request[r] = "verifying"
  /\ cached' = IF outcome.success THEN "fresh" ELSE cached
  /\ request' = [request EXCEPT ![r] = IF outcome.success THEN "fresh"
                                       ELSE IF cached # "none" THEN cached ELSE "error"]

Expire ==
  /\ cached = "fresh"
  /\ cached' = "expired"
  /\ UNCHANGED request

\* The endpoint runs on; its calls are bounded by their timeouts and retries.
AttestationStep ==
  \E r \in Requests :
    \/ TakeLock(r)
    \/ \E outcome \in Outcomes : EndVerification(r, outcome)

AttestationTypeOK ==
  /\ cached \in {"none", "fresh", "expired"}
  /\ request \in [Requests -> {"unasked"} \union InProgress \union Answer]
=============================================================================
