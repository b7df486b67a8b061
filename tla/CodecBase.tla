----------------------------- MODULE CodecBase ------------------------------
(***************************************************************************)
(* What the generated decoders and encoders of the five targets have in    *)
(* common.  A target is a table of records in a fixed order; a record has  *)
(* the features it `needs' and the encoder and the decoder each look for   *)
(* the first record that fits and that the engine's features allow.        *)
(***************************************************************************)
EXTENDS Integers, Sequences, FiniteSets

CodecStatuses == {"OK", "DECODE_FAILED", "ENCODE_FAILED", "OUTPUT_TOO_SMALL",
                  "UNSUPPORTED_FEATURE", "UNSUPPORTED_INSTRUCTION",
                  "BRANCH_OUT_OF_RANGE"}

LeastOf(S) == CHOOSE x \in S : \A y \in S : x <= y

FeaturesMatch(feats, rec) == rec.needs \subseteq feats

\* A search through the table: the index of the record found, 0 for none, and
\* whether a record that fits had to be passed over for want of a feature.
Search(records, feats, Fits(_)) ==
    LET hits == {i \in DOMAIN records : Fits(records[i])}
        free == {i \in hits : FeaturesMatch(feats, records[i])}
        at   == IF free = {} THEN 0 ELSE LeastOf(free)
    IN  [at |-> at, blocked |-> \E i \in hits \ free : at = 0 \/ i < at]

\* The encoders look by id first and by mnemonic and operands after that, and
\* remember whether either search met a record the features forbid.
SearchTwice(first, second) ==
    IF first.at # 0 THEN first
    ELSE [at |-> second.at, blocked |-> first.blocked \/ second.blocked]

Encoding(st, size, code) == [st |-> st, size |-> size, code |-> code]
Decoding(st, inst)       == [st |-> st, inst |-> inst]

\* Mutant of NotFound: the record that was passed over is forgotten.
NotFoundPlain(search) == "UNSUPPORTED_INSTRUCTION"

NotFound(search) ==
    IF search.blocked THEN "UNSUPPORTED_FEATURE" ELSE "UNSUPPORTED_INSTRUCTION"

Pow2(n) == 2 ^ n

\* A number read as `bits' bits of two's complement.
Wrap(x, bits)   == x % Pow2(bits)
Signed(x, bits) == IF Wrap(x, bits) >= Pow2(bits - 1)
                   THEN Wrap(x, bits) - Pow2(bits) ELSE Wrap(x, bits)

FitsSigned(x, bits)   == -Pow2(bits - 1) <= x /\ x < Pow2(bits - 1)
FitsUnsigned(x, bits) == 0 <= x /\ x < Pow2(bits)
=============================================================================
