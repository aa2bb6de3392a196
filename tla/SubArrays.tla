----------------------------- MODULE SubArrays -----------------------------
(***************************************************************************)
(* What the keyword index and the range index of Client have in common:    *)
(* the rows of a table, the key stream that permutes them, and the upload  *)
(* of the sub arrays, one for each of 2^alpha ORAMs.  Each ORAM is the     *)
(* memory that PathOram implements.                                        *)
(***************************************************************************)
EXTENDS SealUtils, Sequences, FiniteSetsExt

CONSTANTS
    MaxRows,    \* bound on the rows of the table
    alpha,      \* 2^alpha ORAMs
    StreamLength,   \* bound on the numbers that a key stream has
    Streams,    \* key streams of randombytes_buf_deterministic
    MaxLost     \* bound on the blocks that a failed access loses

ASSUME RowsAssumption == MaxRows \in Nat
ASSUME AlphaAssumption == alpha \in Nat
ASSUME StreamAssumption ==
    /\ StreamLength \in Nat
    /\ \A s \in Streams : s \in [0 .. StreamLength - 1 -> Nat]

VARIABLES
    rows,       \* what every row has in the column; row j is document j - 1
    stream,     \* the key stream of the secret key
    stored,     \* slots <<ORAM, address>> written to the ORAMs
    pc,         \* "store", "ready", "search", "answered", "thrown"; the keyword
                \* index begins with "pad" and "insert"
    ans         \* what the search has read

\* The helpers write slot after slot.
UploadNext(slots) ==
    /\ pc = "store"
    /\ stored' = stored \cup {FirstSlot(slots \ stored)}
    /\ pc' = IF stored' = slots THEN "ready" ELSE "store"

\* A call to the server fails.  The exception is logged and the client goes on
\* with what was uploaded, less the blocks that the failed access lost.
UploadFails(slots) ==
    /\ pc = "store"
    /\ \E n \in 0 .. MaxLost :
       \E lost \in kSubset(n, {t \in stored : t[1] = FirstSlot(slots \ stored)[1]}) :
          stored' = stored \ lost
    /\ pc' = "ready"
=============================================================================
