----------------------------- MODULE ShareGrade -----------------------------
(***************************************************************************)
(* How a submission is graded: the share target of the job is put into the *)
(* compact form the proof verifier takes, which expands it again.  Byte    *)
(* and mantissa have their real sizes, targets have up to MaxBytes bytes.  *)
(* The verifier multiplies the target by the size of the proven product,   *)
(* about 2^19: a hash is counted in units of that factor.                  *)
(***************************************************************************)
EXTENDS Integers, FiniteSetsExt

CONSTANTS
    MaxBytes,  \* the bytes of the largest target: 32 in the code
    Targets,   \* bound: share targets of jobs
    Offsets    \* bound: how far a hash lies from its target

VARIABLES
    target,    \* the job's share target
    hash,      \* the hash of the proof, -1 before there is one
    verdict    \* unknown, share or refused

vars == <<target, hash, verdict>>

(* What a byte counts that is n places up *)
Place[n \in Nat] == IF n = 0 THEN 1 ELSE 256 * Place[n - 1]

ByteLength(t) == Min({n \in 1..MaxBytes : t \div Place[n - 1] < 256})

(* Fault: a mantissa of eight digits too many keeps its sign bit *)
TargetToBitsSigned(t) ==
    LET n == ByteLength(t)
        m == IF n =< 3 THEN t * Place[3 - n] ELSE t \div Place[n - 3]
    IN  [exponent |-> n, mantissa |-> m % 2^23]

(* Fault: the mantissa is rounded up *)
TargetToBitsUp(t) ==
    LET n == ByteLength(t)
        m == (IF n =< 3 THEN t * Place[3 - n] ELSE t \div Place[n - 3]) + 1
    IN  IF m >= 2^23
        THEN [exponent |-> n + 1, mantissa |-> m \div 256]
        ELSE [exponent |-> n, mantissa |-> m]

(* target_to_bits: three bytes of mantissa with the sign bit clear *)
TargetToBits(t) ==
    LET n == ByteLength(t)
        m == IF n =< 3 THEN t * Place[3 - n] ELSE t \div Place[n - 3]
    IN  IF m >= 2^23
        THEN [exponent |-> n + 1, mantissa |-> m \div 256]
        ELSE [exponent |-> n, mantissa |-> m]

(* The verifier's expansion *)
BitsToTarget(bits) ==
    IF bits.exponent =< 3
    THEN bits.mantissa \div Place[3 - bits.exponent]
    ELSE bits.mantissa * Place[bits.exponent - 3]

(* A proof is found for the job, at some distance from its target *)
Submit(offset) ==
    /\ hash = -1 /\ target + offset >= 0
    /\ hash' = target + offset
    /\ UNCHANGED <<target, verdict>>

(* The verifier grades the proof by the compact target *)
Grade ==
    /\ hash # -1 /\ verdict = "unknown"
    /\ verdict' = IF hash =< BitsToTarget(TargetToBits(target)) THEN "share" ELSE "refused"
    /\ UNCHANGED <<target, hash>>

Init == target \in Targets /\ hash = -1 /\ verdict = "unknown"

Next == (\E offset \in Offsets : Submit(offset)) \/ Grade

Spec == Init /\ [][Next]_vars

-----------------------------------------------------------------------------
(* Properties *)

(* The compact target is never easier: no share above its target is credited. *)
CreditIsEarned == verdict = "share" => hash =< target

(***************************************************************************)
(* It is hardly harder: a hash is refused only above the target or in the  *)
(* last of its 2^15 parts.                                                 *)
(***************************************************************************)
RefusalIsMarginal == verdict = "refused" => hash > target - (target \div 2^15) - 1
=============================================================================
