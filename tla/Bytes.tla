------------------------------- MODULE Bytes -------------------------------
(***************************************************************************)
(* Machine words and the status register.  A word is a natural number; its *)
(* bits are a set of positions, so that &, | and ^ are set operations.     *)
(* The status register is the set of its flags.                            *)
(***************************************************************************)
EXTENDS Integers, Sequences

Byte == 0..255
Address == {n \in Nat : n < 65536}
SignedByte == {n \in Int : -128 <= n /\ n <= 127}

BitWeight(i) ==
    << 1, 2, 4, 8, 16, 32, 64, 128, 256, 512, 1024, 2048, 4096, 8192, 16384, 32768 >>[i + 1]
Bits(n) == {i \in 0..15 : (n \div BitWeight(i)) % 2 = 1}
FromBits(bits) ==
    LET part(i) == IF i \in bits THEN BitWeight(i) ELSE 0
        nibble(i) == part(i) + part(i + 1) + part(i + 2) + part(i + 3)
    IN  nibble(0) + nibble(4) + nibble(8) + nibble(12)

And(m, n) == FromBits(Bits(m) \cap Bits(n))
Or(m, n) == FromBits(Bits(m) \cup Bits(n))
AndNot(m, n) == FromBits(Bits(m) \ Bits(n))
Xor(m, n) == FromBits((Bits(m) \cup Bits(n)) \ (Bits(m) \cap Bits(n)))

\* Little-endian words
Word(lo, hi) == lo + 256 * hi
Low(word) == word % 256
High(word) == (word \div 256) % 256
Signed(byte) == IF byte < 128 THEN byte ELSE byte - 256

\* module psr: the bit of each flag
Flags == {"N", "V", "U", "B", "D", "I", "Z", "C"}
FlagBit(flag) ==
    CASE flag = "N" -> 7 [] flag = "V" -> 6 [] flag = "U" -> 5 [] flag = "B" -> 4
      [] flag = "D" -> 3 [] flag = "I" -> 2 [] flag = "Z" -> 1 [] flag = "C" -> 0
StatusByte(flags) == FromBits({FlagBit(f) : f \in flags})
FlagsOf(byte) == {f \in Flags : FlagBit(f) \in Bits(byte)}

\* {flag} if the condition holds
Flag(flag, condition) == IF condition THEN {flag} ELSE {}
=============================================================================
