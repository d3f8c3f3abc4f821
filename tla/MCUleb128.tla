------------------------------- MODULE MCUleb128 -------------------------------
(***************************************************************************)
(* ULEB128 against the numbers DWARF 4, 7.6 defines, on every sequence of  *)
(* up to MaxLength bytes.  The state is what surrounds a number in memory. *)
(***************************************************************************)
EXTENDS Uleb128, SequencesExt

CONSTANT MaxLength  \* bound: bytes in a sequence

VARIABLE bytes

\* What x86 makes of an overlong shift: only its lowest bits count.
MaskedShift(byte, shift) == byte * 2 ^ ((shift * Group) % Width)

Init == bytes = <<>>
Next == /\ Len(bytes) < MaxLength
        /\ \E byte \in 0 .. 2 * More - 1 : bytes' = Append(bytes, byte)
Spec == Init /\ [][Next]_bytes

--------------------------------------------------------------------------------
\* The encoding of n in length bytes: the shortest, or one with padding.
Encoding(n, length) ==
  [i \in 1 .. length |->
     ((n \div TwoTo((i - 1) * Group)) % More) + IF i < length THEN More ELSE 0]

\* Length bytes can hold n, and no bit of them is shifted out of the result altogether.
Fits(n, length) == n < TwoTo(length * Group) /\ (length - 1) * Group < Width

\* Every uint32_t is read back from any of its encodings, wherever it is in the
\* section and whatever follows it, and the pointer ends just behind it.
ReadsBack ==
  \A n \in 0 .. Modulus - 1 : \A length \in 1 .. Width :
    Fits(n, length) =>
      ULEB128(bytes \o Encoding(n, length) \o bytes, Len(bytes), length + Len(bytes))
        = [result |-> n, length |-> length]

\* The bytes left, not the bytes there, end a number that has no last byte; wider
\* numbers lose their highest bits.
StopsInTime ==
  \A available \in 0 .. Len(bytes) :
    LET number == ULEB128(bytes, 0, available)
        last == {i \in 1 .. available : bytes[i] < More}
        upto == IF last = {} THEN available ELSE Min(last)
        value[i \in 0 .. upto] ==
          IF i = 0 THEN 0
          ELSE value[i - 1] + (bytes[i] % More) * TwoTo((i - 1) * Group)
    IN  /\ number.length = upto
        /\ (upto - 1) * Group < Width => number.result = value[upto] % Modulus

================================================================================
