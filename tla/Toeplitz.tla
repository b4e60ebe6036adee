------------------------------- MODULE Toeplitz -------------------------------
(***************************************************************************)
(* The sliding-window form of the Toeplitz hash (fn toeplitz of            *)
(* bench/smoltcp-s3/src/lib.rs), one step per input bit, against the       *)
(* definition the NIC implements.  Bits are numbered from the most         *)
(* significant one of the first byte, the order both use.                  *)
(***************************************************************************)
EXTENDS Integers, FiniteSets

CONSTANTS W,          \* bits of the window and of the hash: 32 in the code
          KeyLens,    \* lengths of the key, in bits
          DataLen     \* bits of the tuple: 96 in the code

ASSUME BitsAssumption == W \in Nat \ {0} /\ KeyLens \subseteq Nat /\ DataLen \in Nat

VARIABLES klen, key, data,      \* arguments
          result, w, next_bit,  \* locals
          pos,                  \* input bits done
          returned

toeplitzvars == <<klen, key, data, result, w, next_bit, pos, returned>>

Word == [0 .. W - 1 -> BOOLEAN]
Zero == [j \in 0 .. W - 1 |-> FALSE]

FirstNextBit == W

\* A key shorter than the window hashes everything to 0.
TooShort(k) == k < W

ToeplitzInit ==
    /\ klen \in KeyLens /\ key \in [0 .. klen - 1 -> BOOLEAN]
    /\ data \in [0 .. DataLen - 1 -> BOOLEAN]
    /\ result = Zero
    /\ w = [j \in 0 .. W - 1 |-> IF j < klen THEN key[j] ELSE FALSE]
    /\ next_bit = FirstNextBit /\ pos = 0
    /\ returned = TooShort(klen)

\* A slip: past its end the key starts again.
NextKeyBitCyclic == key[next_bit % klen]

NextKeyBit == IF next_bit < klen THEN key[next_bit] ELSE FALSE

\* The inner loop body: the word is added for a 1, the window moves anyway.
Bit ==
    /\ ~returned /\ pos < DataLen
    /\ result' = [j \in 0 .. W - 1 |-> result[j] # (data[pos] /\ w[j])]
    /\ w' = [j \in 0 .. W - 1 |-> IF j < W - 1 THEN w[j + 1] ELSE NextKeyBit]
    /\ next_bit' = next_bit + 1
    /\ pos' = pos + 1
    /\ UNCHANGED <<klen, key, data, returned>>

Return ==
    /\ ~returned /\ pos = DataLen
    /\ returned' = TRUE
    /\ UNCHANGED <<klen, key, data, result, w, next_bit, pos>>

ToeplitzNext == Bit \/ Return

ToeplitzSpec == ToeplitzInit /\ [][ToeplitzNext]_toeplitzvars

-----------------------------------------------------------------------------
(* What the NIC computes *)

\* The key, followed by zeros for ever.
KeyBit(i) == IF i < klen THEN key[i] ELSE FALSE

\* Input bits below n that put a 1 in bit j: input bit i adds the W key bits
\* that start at key bit i.
Adding(n, j) == {i \in 0 .. n - 1 : data[i] /\ KeyBit(i + j)}

Odd(S) == Cardinality(S) % 2 = 1

-----------------------------------------------------------------------------
(* Properties *)

\* The locals keep their width, and the key is read from the bit after the
\* first window on.
ToeplitzTypeOK ==
    /\ klen \in KeyLens /\ key \in [0 .. klen - 1 -> BOOLEAN]
    /\ data \in [0 .. DataLen - 1 -> BOOLEAN]
    /\ result \in Word /\ w \in Word
    /\ next_bit \in W .. W + DataLen /\ pos \in 0 .. DataLen /\ returned \in BOOLEAN

\* "the Toeplitz implementation against the canonical Microsoft RSS vectors":
\* for every key and every input, what toeplitz returns is the exclusive or of
\* the key windows at the 1 bits of the input.
HashIsToeplitz ==
    (returned /\ ~TooShort(klen)) => \A j \in 0 .. W - 1 : result[j] = Odd(Adding(DataLen, j))
===============================================================================
