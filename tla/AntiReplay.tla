----------------------------- MODULE AntiReplay -----------------------------
(***************************************************************************)
(* AntiReplayWindow (crates/ovpn-crypto/src/anti_replay.rs): the newest    *)
(* packet id and a bitmap of the ids below it, kept in two machine words.  *)
(* A word is the set of its bits; bit d of the bitmap, counted over both   *)
(* words, stands for the packet d below the newest.                        *)
(***************************************************************************)
EXTENDS Integers, FiniteSets

CONSTANTS
    WordBits,   \* bits of a word: 64 in the code
    MaxSeq,     \* largest packet id
    MaxRejects  \* bound on the packets that are rejected

ASSUME WordBitsAssumption == WordBits \in Nat /\ WordBits > 0
ASSUME MaxSeqAssumption == MaxSeq \in Nat
ASSUME MaxRejectsAssumption == MaxRejects \in Nat

Seqs == 0..MaxSeq
Bits == 0..(WordBits - 1)
WINDOW_SIZE == 2 * WordBits

VARIABLES
    max_seq,         \* highest packet id accepted so far
    bitmap,          \* bitmap[0] covers offsets 0..63, bitmap[1] offsets 64..127
    initialized,     \* a packet has been accepted
    accepted_count,
    rejected_count,
    seen,            \* history: the packets accepted since the last reset
    verdict          \* history: the latest decision

vars == <<max_seq, bitmap, initialized, accepted_count, rejected_count, seen, verdict>>

TypeOK ==
    /\ max_seq \in Seqs
    /\ bitmap \in [0..1 -> SUBSET Bits]
    /\ initialized \in BOOLEAN
    /\ accepted_count \in Nat
    /\ rejected_count \in 0..MaxRejects
    /\ seen \subseteq Seqs
    /\ verdict \in [seq : Seqs, ok : BOOLEAN]

Init ==
    /\ max_seq = 0
    /\ bitmap = [w \in 0..1 |-> {}]
    /\ initialized = FALSE
    /\ accepted_count = 0
    /\ rejected_count = 0
    /\ seen = {}
    /\ verdict = [seq |-> 0, ok |-> FALSE]

\* Shifts of a word: bits that leave it are lost.
ShiftLeft(word, n) == {b \in Bits : b - n \in word}
ShiftRight(word, n) == {b \in Bits : b + n \in word}

\* Mutant: the carry from the newer word into the older one is forgotten.
Advance_NoCarry(diff) ==
    IF diff >= WINDOW_SIZE THEN [w \in 0..1 |-> IF w = 0 THEN {0} ELSE {}]
    ELSE IF diff >= WordBits
    THEN [w \in 0..1 |-> IF w = 0 THEN {0}
                         ELSE ShiftLeft(bitmap[0], diff - WordBits)]
    ELSE [w \in 0..1 |-> IF w = 0 THEN ShiftLeft(bitmap[0], diff) \cup {0}
                         ELSE ShiftLeft(bitmap[1], diff)]

\* The bitmap after the newest packet id has advanced by diff.  A word has
\* WordBits bits, so each shift below stays within a word's width.
Advance(diff) ==
    IF diff >= WINDOW_SIZE THEN [w \in 0..1 |-> IF w = 0 THEN {0} ELSE {}]
    ELSE IF diff >= WordBits
    THEN [w \in 0..1 |-> IF w = 0 THEN {0}
                         ELSE ShiftLeft(bitmap[0], diff - WordBits)]
    ELSE [w \in 0..1 |-> IF w = 0 THEN ShiftLeft(bitmap[0], diff) \cup {0}
                         ELSE ShiftLeft(bitmap[1], diff)
                              \cup ShiftRight(bitmap[0], WordBits - diff)]

\* Word and bit of an offset below the newest packet.
Word(diff) == diff \div WordBits
Bit(diff) == diff % WordBits
Marked(diff) == Bit(diff) \in bitmap[Word(diff)]

\* Mutant: the window's oldest packet id is taken for one that is too old.
check_only_Narrow(seq) ==
    \/ ~initialized
    \/ seq > max_seq
    \/ seq <= max_seq /\ max_seq - seq < WINDOW_SIZE - 1 /\ ~Marked(max_seq - seq)

\* The decision, without its effect.
check_only(seq) ==
    \/ ~initialized
    \/ seq > max_seq
    \/ seq <= max_seq /\ max_seq - seq < WINDOW_SIZE /\ ~Marked(max_seq - seq)

Accept(seq) ==
    /\ check_only(seq)
    /\ initialized' = TRUE
    /\ \/ /\ ~initialized
          /\ max_seq' = seq
          /\ bitmap' = [w \in 0..1 |-> IF w = 0 THEN {0} ELSE {}]
       \/ /\ initialized /\ seq > max_seq
          /\ max_seq' = seq
          /\ bitmap' = Advance(seq - max_seq)
       \/ /\ initialized /\ seq <= max_seq
          /\ bitmap' = [bitmap EXCEPT ![Word(max_seq - seq)] = @ \cup {Bit(max_seq - seq)}]
          /\ UNCHANGED max_seq
    /\ accepted_count' = accepted_count + 1
    /\ seen' = seen \cup {seq}
    /\ verdict' = [seq |-> seq, ok |-> TRUE]
    /\ UNCHANGED rejected_count

Reject(seq) ==
    /\ ~check_only(seq)
    /\ rejected_count < MaxRejects
    /\ rejected_count' = rejected_count + 1
    /\ verdict' = [seq |-> seq, ok |-> FALSE]
    /\ UNCHANGED <<max_seq, bitmap, initialized, accepted_count, seen>>

check_and_update(seq) == Accept(seq) \/ Reject(seq)

reset ==
    /\ max_seq' = 0
    /\ bitmap' = [w \in 0..1 |-> {}]
    /\ initialized' = FALSE
    /\ accepted_count' = 0
    /\ rejected_count' = 0
    /\ seen' = {}
    /\ UNCHANGED verdict

Next == reset \/ \E seq \in Seqs : check_and_update(seq)

Spec == Init /\ [][Next]_vars

-----------------------------------------------------------------------------
Filter == INSTANCE ReplayFilter WITH Window <- WINDOW_SIZE

(***************************************************************************)
(* WindowExact: the two words say exactly which of the WINDOW_SIZE packet  *)
(* ids up to max_seq have been accepted, however the packets arrived and   *)
(* however far the window jumped (the shifts of check_and_update).         *)
(***************************************************************************)
WindowExact ==
    IF initialized
    THEN /\ max_seq \in seen
         /\ \A s \in seen : s <= max_seq
         /\ \A d \in 0..(WINDOW_SIZE - 1) : Marked(d) <=> max_seq - d \in seen
    ELSE seen = {}

(***************************************************************************)
(* AcceptedOnce: accepted_count, which check_and_update increments on each *)
(* of its three accepting paths, counts distinct packets: none is accepted *)
(* twice between two resets, not even after it has left the window.        *)
(***************************************************************************)
AcceptedOnce == accepted_count = Cardinality(seen)

(***************************************************************************)
(* ImplementsFilter: every decision of check_and_update is the abstract    *)
(* filter's.  A packet is accepted exactly when it is new and not too old; *)
(* duplicates are never accepted and fresh late packets never rejected.    *)
(***************************************************************************)
ImplementsFilter == Filter!FilterSpec
=============================================================================
