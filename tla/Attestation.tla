---------------------------- MODULE Attestation ----------------------------
(***************************************************************************)
(* Digests and signatures (packages/engine/src/attest.js), ideally: two    *)
(* payloads with one digest are one payload, and a signature is accepted   *)
(* under the public key of the key that made it and under no other.  A     *)
(* payload is a record, so its fields have no order, as canonicalize sorts *)
(* them at every level.                                                    *)
(***************************************************************************)
CONSTANTS Key,     \* Ed25519 pairs; a pair stands for both of its halves
          NoKey,   \* ATTEST_PRIVATE_KEY is not set: createAttestor is null
          Undefined \* JavaScript's undefined, as the value of a field

ASSUME KeyAssumption == NoKey \notin Key

Attestor == Key \union {NoKey}

\* sha256 over the canonical form, which has every field of the payload, one
\* that is undefined included.
epochDigest(payload) == [sha256 |-> payload]

\* An absent signature is the one by NoKey.
sign(digest, attestor) == [by |-> attestor, over |-> digest]

\* JSON.stringify and back, on the way to a file or a caller: a field that is
\* undefined is dropped.
stringify(payload) ==
    [f \in {g \in DOMAIN payload : payload[g] # Undefined} |-> payload[f]]

\* The `attestation` block of a payload.
attest(payload, attestor) ==
    LET digest == epochDigest(payload)
    IN  [digest |-> digest, signature |-> sign(digest, attestor)]

\* verifyAttestation, under a public key that may not have been given.
verifyAttestation(attestation, publicKey) ==
    /\ publicKey # NoKey
    /\ attestation.signature = sign(attestation.digest, publicKey)

\* The documented recipe: `rest` is the answer without its attestation block.
Reproduces(rest, attestation) == epochDigest(rest) = attestation.digest
=============================================================================
