-------------------------------- MODULE Uleb128 --------------------------------
(***************************************************************************)
(* DwarfFile::ULEB128: the variable-length numbers of .debug_abbrev and    *)
(* .debug_info.  A byte holds Group bits of the number, lowest first, and  *)
(* its top bit says whether another byte follows.                          *)
(*                                                                         *)
(* The pointer data counts from 0.  Instead of moving it and               *)
(* bytes_available, the operator returns how far both move.                *)
(***************************************************************************)
EXTENDS Naturals, Sequences

CONSTANTS
  Group,           \* bits of the number in a byte: 7
  Width,           \* bits of the result: 32
  Overshift(_, _)  \* what the build adds for byte << (shift*Group) when that is
                   \* Width bits or more, which C++ leaves undefined

ASSUME WidthAssumption ==
  Group \in Nat \ {0} /\ Width \in Nat \ {0}

\* 2 ^ n.
TwoTo(n) ==
  LET power[k \in 0 .. n] == IF k = 0 THEN 1 ELSE 2 * power[k - 1]
  IN  power[n]

More == TwoTo(Group)  \* 0x80
Modulus == TwoTo(Width)

\* A slip: the bits that say there is more count as bits of the number.
ShiftedByWholeBytes(byte, shift) == byte * TwoTo(shift * (Group + 1))

Shifted(byte, shift) ==
  IF shift * Group < Width THEN byte * TwoTo(shift * Group) ELSE Overshift(byte, shift)

\* A slip: the pointer stays on the last byte.
ULEB128StayingOnLast(bytes, data, bytes_available) ==
  LET Loop[shift \in 0 .. bytes_available] ==
        IF shift = bytes_available THEN [result |-> 0, length |-> shift]
        ELSE LET byte == bytes[data + shift + 1]
                 rest == IF byte < More THEN [result |-> 0, length |-> shift]
                         ELSE Loop[shift + 1]
             IN  [result |-> (Shifted(byte % More, shift) + rest.result) % Modulus,
                  length |-> rest.length]
  IN  Loop[0]

\* Loop[shift]: the loop from its turn number shift on.
ULEB128(bytes, data, bytes_available) ==
  LET Loop[shift \in 0 .. bytes_available] ==
        IF shift = bytes_available THEN [result |-> 0, length |-> shift]
        ELSE LET byte == bytes[data + shift + 1]
                 rest == IF byte < More THEN [result |-> 0, length |-> shift + 1]
                         ELSE Loop[shift + 1]
             IN  [result |-> (Shifted(byte % More, shift) + rest.result) % Modulus,
                  length |-> rest.length]
  IN  Loop[0]

================================================================================
