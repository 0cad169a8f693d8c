-------------------------- MODULE AntiReplayProofs --------------------------
(***************************************************************************)
(* Proofs about the anti-replay window, for words of any width and any     *)
(* range of packet ids: the bitmap is exact, no packet is accepted twice,  *)
(* and every decision is the abstract filter's.                            *)
(***************************************************************************)
EXTENDS AntiReplay, FiniteSetTheorems, TLAPS

-----------------------------------------------------------------------------
(* The two words as one bitmap *)

\* Offsets below the newest packet fall into word 0 or word 1: the division
\* and the remainder of check_and_update (diff / 64, diff % 64).
LEMMA OffsetPlace ==
    ASSUME NEW d \in 0..(WINDOW_SIZE - 1)
    PROVE  /\ Word(d) = IF d < WordBits THEN 0 ELSE 1
           /\ Bit(d) = IF d < WordBits THEN d ELSE d - WordBits
<1>1. CASE d < WordBits
  BY <1>1, WordBitsAssumption, SMTT(30) DEF WINDOW_SIZE, Word, Bit
<1>2. CASE d >= WordBits
  BY <1>2, WordBitsAssumption, SMTT(30) DEF WINDOW_SIZE, Word, Bit
<1> QED BY <1>1, <1>2, WordBitsAssumption DEF WINDOW_SIZE

\* A bit of the bitmap after the newest packet advanced by diff: the newest
\* packet is marked, and every other mark has moved diff places (lines
\* 112-131 of check_and_update).
LEMMA AdvanceMarks ==
    ASSUME TypeOK, NEW diff \in Nat \ {0}, NEW d \in 0..(WINDOW_SIZE - 1)
    PROVE  Bit(d) \in Advance(diff)[Word(d)] <=> d = 0 \/ (d >= diff /\ Marked(d - diff))
<1> USE WordBitsAssumption DEF WINDOW_SIZE, Bits
<1>1. /\ bitmap[0] \subseteq Bits
      /\ bitmap[1] \subseteq Bits
  BY DEF TypeOK
<1>2. /\ Word(d) = IF d < WordBits THEN 0 ELSE 1
      /\ Bit(d) = IF d < WordBits THEN d ELSE d - WordBits
  BY OffsetPlace
<1>3. d >= diff => /\ Word(d - diff) = IF d - diff < WordBits THEN 0 ELSE 1
                   /\ Bit(d - diff) = IF d - diff < WordBits THEN d - diff
                                      ELSE d - diff - WordBits
  BY OffsetPlace
<1>4. CASE diff >= WINDOW_SIZE
  BY <1>2, <1>4 DEF Advance
<1>5. CASE diff < WINDOW_SIZE /\ diff >= WordBits
  <2>1. Advance(diff) = [w \in 0..1 |-> IF w = 0 THEN {0}
                                        ELSE ShiftLeft(bitmap[0], diff - WordBits)]
    BY <1>5 DEF Advance
  <2>2. CASE d < WordBits
    BY <1>2, <1>5, <2>1, <2>2
  <2>3. CASE d >= WordBits
    <3>1. Bit(d) \in Advance(diff)[Word(d)] <=> d - diff \in bitmap[0]
      BY <1>2, <2>1, <2>3, <1>5 DEF ShiftLeft
    <3>2. d >= diff => (Marked(d - diff) <=> d - diff \in bitmap[0])
      BY <1>3, <1>5 DEF Marked
    <3>3. d - diff \in bitmap[0] => d >= diff
      BY <1>1
    <3>4. d # 0
      BY <2>3
    <3> QED BY <3>1, <3>2, <3>3, <3>4
  <2> QED BY <2>2, <2>3
<1>6. CASE diff < WordBits
  <2>1. Advance(diff) = [w \in 0..1 |->
                            IF w = 0 THEN ShiftLeft(bitmap[0], diff) \cup {0}
                            ELSE ShiftLeft(bitmap[1], diff)
                                 \cup ShiftRight(bitmap[0], WordBits - diff)]
    BY <1>6 DEF Advance
  <2>2. CASE d < WordBits
    <3>1. Bit(d) \in Advance(diff)[Word(d)] <=> d = 0 \/ d - diff \in bitmap[0]
      BY <1>2, <2>1, <2>2 DEF ShiftLeft
    <3>2. d >= diff => (Marked(d - diff) <=> d - diff \in bitmap[0])
      BY <1>3, <2>2 DEF Marked
    <3>3. d - diff \in bitmap[0] => d >= diff
      BY <1>1
    <3> QED BY <3>1, <3>2, <3>3
  <2>3. CASE d >= WordBits
    <3>1. Bit(d) \in Advance(diff)[Word(d)]
            <=> \/ d - WordBits - diff \in bitmap[1]
                \/ d - WordBits + (WordBits - diff) \in bitmap[0]
      BY <1>2, <2>1, <2>3 DEF ShiftLeft, ShiftRight
    <3>2. CASE d - diff < WordBits
      <4>1. Marked(d - diff) <=> d - diff \in bitmap[0]
        BY <1>3, <1>6, <2>3, <3>2 DEF Marked
      <4>2. d # 0 /\ d >= diff /\ d - WordBits + (WordBits - diff) = d - diff
        BY <1>6, <2>3
      <4>3. d - WordBits - diff \notin bitmap[1]
        BY <1>1, <3>2
      <4> QED BY <3>1, <4>1, <4>2, <4>3
    <3>3. CASE d - diff >= WordBits
      <4>1. Marked(d - diff) <=> d - diff - WordBits \in bitmap[1]
        BY <1>3, <1>6, <2>3, <3>3 DEF Marked
      <4>2. d # 0 /\ d >= diff /\ d - diff - WordBits = d - WordBits - diff
        BY <1>6, <2>3
      <4>3. d - WordBits + (WordBits - diff) \notin bitmap[0]
        BY <1>1, <3>3
      <4> QED BY <3>1, <4>1, <4>2, <4>3
    <3> QED BY <3>2, <3>3
  <2> QED BY <2>2, <2>3
<1> QED BY <1>4, <1>5, <1>6

\* The code's decision is the abstract filter's whenever the bitmap is exact.
LEMMA DecisionExact ==
    ASSUME TypeOK, WindowExact, NEW seq \in Seqs
    PROVE  check_only(seq) <=> Filter!Fresh(seq)
<1> USE WordBitsAssumption, MaxSeqAssumption DEF WINDOW_SIZE, Seqs, TypeOK
<1>1. CASE ~initialized
  BY <1>1 DEF check_only, Filter!Fresh, WindowExact
<1>2. CASE initialized
  <2>1. /\ max_seq \in seen
        /\ \A s \in seen : s <= max_seq
        /\ \A d \in 0..(WINDOW_SIZE - 1) : Marked(d) <=> max_seq - d \in seen
    BY <1>2 DEF WindowExact
  <2>2. CASE seq > max_seq
    BY <1>2, <2>1, <2>2 DEF check_only, Filter!Fresh
  <2>3. CASE max_seq - seq >= WINDOW_SIZE
    BY <1>2, <2>1, <2>3 DEF check_only, Filter!Fresh
  <2>4. CASE seq <= max_seq /\ max_seq - seq < WINDOW_SIZE
    <3>1. Marked(max_seq - seq) <=> seq \in seen
      <4>1. max_seq - seq \in 0..(WINDOW_SIZE - 1)
        BY <2>4
      <4>2. max_seq - (max_seq - seq) = seq
        OBVIOUS
      <4> QED BY <4>1, <4>2, <2>1
    <3>2. \A s \in seen : seq > s - WINDOW_SIZE
      BY <2>1, <2>4
    <3> QED BY <1>2, <2>4, <3>1, <3>2 DEF check_only, Filter!Fresh
  <2> QED BY <2>2, <2>3, <2>4
<1> QED BY <1>1, <1>2

-----------------------------------------------------------------------------
(* Inductive invariant *)

\* The type invariant, with bitmaps that stay within their words.
LEMMA TypeInductive ==
    ASSUME TypeOK, [Next]_vars
    PROVE  TypeOK'
<1> USE WordBitsAssumption, MaxSeqAssumption, MaxRejectsAssumption DEF TypeOK
<1>1. CASE UNCHANGED vars
  BY <1>1 DEF vars
<1>2. CASE reset
  <2>1. [w \in 0..1 |-> {}] \in [0..1 -> SUBSET Bits]
    OBVIOUS
  <2>2. bitmap' \in [0..1 -> SUBSET Bits]
    BY <1>2, <2>1, Zenon DEF reset
  <2>3. /\ max_seq' \in Seqs /\ initialized' \in BOOLEAN /\ accepted_count' \in Nat
        /\ rejected_count' \in 0..MaxRejects /\ seen' \subseteq Seqs
        /\ verdict' \in [seq : Seqs, ok : BOOLEAN]
    <3>1. /\ max_seq' = 0 /\ initialized' = FALSE /\ accepted_count' = 0
          /\ rejected_count' = 0 /\ seen' = {} /\ verdict' = verdict
      BY <1>2, Zenon DEF reset
    <3>2. 0 \in Seqs /\ 0 \in Nat /\ 0 \in 0..MaxRejects
      BY DEF Seqs
    <3> QED BY <3>1, <3>2, Zenon
  <2> QED BY <2>2, <2>3
<1>3. ASSUME NEW seq \in Seqs, Accept(seq)
      PROVE  TypeOK'
  <2>1. bitmap' \in [0..1 -> SUBSET Bits]
    <3>1. CASE ~initialized
      BY <1>3, <3>1 DEF Accept, Bits
    <3>2. CASE initialized /\ seq > max_seq
      <4>1. bitmap' = Advance(seq - max_seq)
        BY <1>3, <3>2 DEF Accept, Seqs
      <4>2. \A word, n : ShiftLeft(word, n) \subseteq Bits /\ ShiftRight(word, n) \subseteq Bits
        BY DEF ShiftLeft, ShiftRight
      <4>3. {0} \subseteq Bits
        BY DEF Bits
      <4> QED BY <4>1, <4>2, <4>3 DEF Advance
    <3>3. CASE initialized /\ seq <= max_seq
      <4>1. max_seq - seq \in 0..(WINDOW_SIZE - 1)
        BY <1>3, <3>3 DEF Accept, check_only, Seqs, WINDOW_SIZE
      <4>2. Bit(max_seq - seq) \in Bits /\ Word(max_seq - seq) \in 0..1
        BY <4>1, OffsetPlace DEF Bits, WINDOW_SIZE
      <4>3. bitmap' = [bitmap EXCEPT ![Word(max_seq - seq)] = @ \cup {Bit(max_seq - seq)}]
        BY <1>3, <3>3 DEF Accept, Seqs
      <4> QED BY <4>2, <4>3
    <3> QED BY <3>1, <3>2, <3>3 DEF Seqs
  <2> QED BY <1>3, <2>1 DEF Accept
<1>4. ASSUME NEW seq \in Seqs, Reject(seq)
      PROVE  TypeOK'
  BY <1>4 DEF Reject
<1> QED BY <1>1, <1>2, <1>3, <1>4 DEF Next, check_and_update

\* The bitmap stays exact through every operation of the window.
LEMMA WindowInductive ==
    ASSUME TypeOK, WindowExact, [Next]_vars
    PROVE  WindowExact'
<1> USE WordBitsAssumption, MaxSeqAssumption
<1>1. CASE UNCHANGED vars
  BY <1>1 DEF vars, WindowExact, Marked
<1>2. CASE reset
  BY <1>2 DEF reset, WindowExact
<1>3. ASSUME NEW seq \in Seqs, Accept(seq)
      PROVE  WindowExact'
  <2> initialized' /\ seen' = seen \cup {seq}
    BY <1>3 DEF Accept
  <2> /\ seq \in Nat /\ max_seq \in Nat /\ seen \subseteq Nat /\ WINDOW_SIZE \in Nat \ {0, 1}
      /\ initialized \in BOOLEAN
    BY DEF TypeOK, Seqs, WINDOW_SIZE
  <2>1. CASE ~initialized
    <3>1. /\ max_seq' = seq /\ seen = {}
          /\ bitmap' = [w \in 0..1 |-> IF w = 0 THEN {0} ELSE {}]
      BY <1>3, <2>1 DEF Accept, WindowExact
    <3>2. ASSUME NEW d \in 0..(WINDOW_SIZE - 1)
          PROVE  Marked(d)' <=> seq - d \in {seq}
      <4>1. Marked(d)' <=> d = 0
        BY <3>1, OffsetPlace DEF Marked, WINDOW_SIZE
      <4> QED BY <4>1
    <3> QED BY <3>1, <3>2 DEF WindowExact
  <2>2. CASE initialized /\ seq > max_seq
    <3>1. max_seq' = seq /\ bitmap' = Advance(seq - max_seq)
      BY <1>3, <2>2 DEF Accept
    <3>2. ASSUME NEW d \in 0..(WINDOW_SIZE - 1)
          PROVE  Marked(d)' <=> seq - d \in seen'
      <4>1. Marked(d)' <=> d = 0 \/ (d >= seq - max_seq /\ Marked(d - (seq - max_seq)))
        <5>1. seq - max_seq \in Nat \ {0}
          BY <2>2
        <5>2. Bit(d) \in Advance(seq - max_seq)[Word(d)]
                <=> d = 0 \/ (d >= seq - max_seq /\ Marked(d - (seq - max_seq)))
          BY <5>1, AdvanceMarks
        <5> QED BY <3>1, <5>2 DEF Marked
      <4>2. d >= seq - max_seq =>
              (Marked(d - (seq - max_seq)) <=> max_seq - (d - (seq - max_seq)) \in seen)
        BY <2>2 DEF WindowExact
      <4>3. max_seq - (d - (seq - max_seq)) = seq - d
        OBVIOUS
      <4>4. d < seq - max_seq => seq - d \notin seen
        BY <2>2 DEF WindowExact
      <4>5. seq - d \in seen' <=> d = 0 \/ seq - d \in seen
        OBVIOUS
      <4> QED BY <4>1, <4>2, <4>3, <4>4, <4>5
    <3>3. \A s \in seen' : s <= seq
      BY <2>2 DEF WindowExact
    <3> QED BY <3>1, <3>2, <3>3 DEF WindowExact
  <2>3. CASE initialized /\ seq <= max_seq
    <3>1. /\ max_seq' = max_seq
          /\ bitmap' = [bitmap EXCEPT ![Word(max_seq - seq)] = @ \cup {Bit(max_seq - seq)}]
          /\ max_seq - seq \in 0..(WINDOW_SIZE - 1)
      BY <1>3, <2>3 DEF Accept, check_only
    <3>2. ASSUME NEW d \in 0..(WINDOW_SIZE - 1)
          PROVE  Marked(d)' <=> max_seq - d \in seen'
      <4>1. Word(d) \in 0..1 /\ (Word(d) = Word(max_seq - seq) /\ Bit(d) = Bit(max_seq - seq)
                                  => d = max_seq - seq)
        BY <3>1, OffsetPlace DEF WINDOW_SIZE
      <4>2. Marked(d)' <=> Marked(d) \/ d = max_seq - seq
        BY <3>1, <4>1 DEF Marked, TypeOK
      <4>3. Marked(d) <=> max_seq - d \in seen
        BY <2>3 DEF WindowExact
      <4>4. max_seq - d = seq <=> d = max_seq - seq
        OBVIOUS
      <4> QED BY <4>2, <4>3, <4>4
    <3>3. max_seq \in seen' /\ \A s \in seen' : s <= max_seq
      BY <2>3 DEF WindowExact
    <3> QED BY <3>1, <3>2, <3>3 DEF WindowExact
  <2> QED BY <2>1, <2>2, <2>3
<1>4. ASSUME NEW seq \in Seqs, Reject(seq)
      PROVE  WindowExact'
  BY <1>4 DEF Reject, WindowExact, Marked
<1> QED BY <1>1, <1>2, <1>3, <1>4 DEF Next, check_and_update

-----------------------------------------------------------------------------
(* Theorems *)

\* The state of an AntiReplayWindow keeps its type: both words stay within
\* their width and max_seq within the packet ids.
THEOREM TypeCorrect == Spec => []TypeOK
<1>1. Init => TypeOK
  <2>1. [w \in 0..1 |-> {}] \in [0..1 -> SUBSET Bits]
    OBVIOUS
  <2>2. Init => bitmap \in [0..1 -> SUBSET Bits]
    BY <2>1, Zenon DEF Init
  <2>3. Init => /\ max_seq \in Seqs /\ initialized \in BOOLEAN /\ accepted_count \in Nat
                /\ rejected_count \in 0..MaxRejects /\ seen \subseteq Seqs
                /\ verdict \in [seq : Seqs, ok : BOOLEAN]
    <3>1. Init => /\ max_seq = 0 /\ initialized = FALSE /\ accepted_count = 0
                  /\ rejected_count = 0 /\ seen = {} /\ verdict = [seq |-> 0, ok |-> FALSE]
      BY Zenon DEF Init
    <3>2. 0 \in Seqs /\ 0 \in Nat /\ 0 \in 0..MaxRejects
      BY MaxSeqAssumption, MaxRejectsAssumption DEF Seqs
    <3>3. [seq |-> 0, ok |-> FALSE] \in [seq : Seqs, ok : BOOLEAN]
      BY <3>2
    <3> QED BY <3>1, <3>2, <3>3, Zenon
  <2> QED BY <2>2, <2>3 DEF TypeOK
<1>2. TypeOK /\ [Next]_vars => TypeOK'
  BY TypeInductive
<1> QED BY <1>1, <1>2, PTL DEF Spec

\* The bitmap is exact after any sequence of packets, jumps and resets.
THEOREM WindowAlwaysExact == Spec => []WindowExact
<1>1. Init => WindowExact
  BY DEF Init, WindowExact
<1>2. TypeOK /\ WindowExact /\ [Next]_vars => WindowExact'
  BY WindowInductive
<1> QED BY <1>1, <1>2, TypeCorrect, PTL DEF Spec

\* No packet is accepted twice between two resets of the window.
THEOREM NeverAcceptedTwice == Spec => []AcceptedOnce
<1> DEFINE Inv == AcceptedOnce /\ IsFiniteSet(seen)
<1>1. Init => Inv
  BY FS_EmptySet DEF Init, AcceptedOnce
<1>2. TypeOK /\ WindowExact /\ Inv /\ [Next]_vars => Inv'
  <2> SUFFICES ASSUME TypeOK, WindowExact, Inv, [Next]_vars
               PROVE  Inv'
    OBVIOUS
  <2>1. CASE UNCHANGED vars
    BY <2>1 DEF vars, AcceptedOnce
  <2>2. CASE reset
    BY <2>2, FS_EmptySet DEF reset, AcceptedOnce
  <2>3. ASSUME NEW seq \in Seqs, Accept(seq)
        PROVE  Inv'
    <3>1. seq \notin seen
      BY <2>3, DecisionExact DEF Accept, Filter!Fresh
    <3>2. /\ IsFiniteSet(seen \cup {seq})
          /\ Cardinality(seen \cup {seq}) = Cardinality(seen) + 1
      BY <3>1, FS_AddElement
    <3> QED BY <2>3, <3>2 DEF Accept, AcceptedOnce
  <2>4. ASSUME NEW seq \in Seqs, Reject(seq)
        PROVE  Inv'
    BY <2>4 DEF Reject, AcceptedOnce
  <2> QED BY <2>1, <2>2, <2>3, <2>4 DEF Next, check_and_update
<1> QED BY <1>1, <1>2, TypeCorrect, WindowAlwaysExact, PTL DEF Spec

\* The window implements the abstract filter: check_and_update accepts exactly
\* the packets that are new and less than WINDOW_SIZE older than the newest.
THEOREM RefinesFilter == Spec => ImplementsFilter
<1>1. Init => Filter!FilterInit
  BY DEF Init, Filter!FilterInit
<1>2. TypeOK /\ WindowExact /\ [Next]_vars => [Filter!FilterNext]_(Filter!filterVars)
  <2> SUFFICES ASSUME TypeOK, WindowExact, [Next]_vars
               PROVE  [Filter!FilterNext]_(Filter!filterVars)
    OBVIOUS
  <2>1. CASE UNCHANGED vars
    BY <2>1 DEF vars, Filter!filterVars
  <2>2. CASE reset
    BY <2>2 DEF reset, Filter!FilterNext, Filter!Reset
  <2>3. ASSUME NEW seq \in Seqs, Accept(seq)
        PROVE  Filter!Decide(seq)
    <3>1. Filter!Fresh(seq) = TRUE
      BY <2>3, DecisionExact DEF Accept, Filter!Fresh
    <3> QED BY <2>3, <3>1 DEF Accept, Filter!Decide
  <2>4. ASSUME NEW seq \in Seqs, Reject(seq)
        PROVE  Filter!Decide(seq)
    <3>1. Filter!Fresh(seq) = FALSE
      BY <2>4, DecisionExact DEF Reject, Filter!Fresh
    <3> QED BY <2>4, <3>1 DEF Reject, Filter!Decide
  <2> QED BY <2>1, <2>2, <2>3, <2>4 DEF Next, check_and_update, Filter!FilterNext
<1> QED BY <1>1, <1>2, TypeCorrect, WindowAlwaysExact, PTL
        DEF Spec, ImplementsFilter, Filter!FilterSpec
=============================================================================
