------------------------------ MODULE MCBase64 ------------------------------
(* Instance of Base64 for TLC: all strings up to a length over characters  *)
(* whose bits differ in each group.                                        *)
EXTENDS Base64, Bitwise

StringsUpTo(S, n) == UNION {[1..k -> S] : k \in 0..n}

MCData == StringsUpTo({0, 107, 251, 255}, 4)

(* The padding that a length asks for, besides pads anywhere.              *)
WithPadding(s) ==
  CASE Len(s) % 4 = 2 -> s \o <<Pad, Pad>>
    [] Len(s) % 4 = 3 -> s \o <<Pad>>
    [] OTHER -> s

MCTexts ==
  LET plain == StringsUpTo({0, 38, 62, 63}, 5)
  IN  plain \cup {WithPadding(s) : s \in plain} \cup StringsUpTo({38, 63, Pad}, 5)

(* The bit operators of the source are what Base64 writes for them.        *)
Some == {0, 1, 3, 4, 15, 16, 63, 64, 107, 170, 192, 240, 255}
ASSUME BitOperators ==
  \A b, c \in Some :
    /\ (((b & 3) * 16) | shiftR(c, 4)) = ((b % 4) * 16) + (c \div 16)
    /\ (((b & 15) * 4) | shiftR(c, 6)) = ((b % 16) * 4) + (c \div 64)
    /\ (((b & 3) * 64) | (c & 63)) = ((b % 4) * 64) + (c % 64)
    /\ b \in Sextet /\ c \in Sextet =>
         /\ ((b * 4) | shiftR(c, 4)) % 256 = (b * 4 + (c \div 16)) % 256
         /\ (((b & 15) * 16) | shiftR(c, 2)) = ((b % 16) * 16) + (c \div 4)

=============================================================================
