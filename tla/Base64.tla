------------------------------- MODULE Base64 -------------------------------
(***************************************************************************)
(* base64url in the analysis worker (backend/libtarget.js/libtarget.js):   *)
(* the loops that write bytes as text and read text as bytes, and the      *)
(* digests, which come in the other alphabet and are translated.  Values   *)
(* of type DBytes go between the server, the editor and its worker as such *)
(* text; the server (libtarget.ocaml) uses a library for it.               *)
(*                                                                         *)
(* A character is a number: 0..63 for the 64 of the alphabet, in order, so *)
(* that 62 is "-" and 63 is "_".  x << n and x >> n are written * and      *)
(* \div; | joins bits that do not overlap, and is written +.               *)
(***************************************************************************)
EXTENDS Integers, Sequences

CONSTANTS
  Data,      \* byte strings to write and to hash
  Texts      \* base64 strings that come from elsewhere

Byte == 0..255
Sextet == 0..63
Pad == 64     \* "="
Plus == 65
Slash == 66
Char == 0..66

ASSUME DataAssumption == Data \subseteq Seq(Byte)
ASSUME TextsAssumption == Texts \subseteq Seq(Char)

VARIABLES
  route,     \* "bytes": written, then read.  "digest".  "text": only read
  data,      \* what is written
  pc,        \* "write", "hash", "text", "read" or "done"
  i,         \* the index of either loop
  p,         \* where the reading loop stores
  base64,
  bytes

vars == <<route, data, pc, i, p, base64, bytes>>

-----------------------------------------------------------------------------
(* An element past the end is undefined, which the bit operators take for  *)
(* 0; so do they for "=" and whatever else the table does not have.        *)
ByteAt(k) == IF k < Len(data) THEN data[k + 1] ELSE 0

Lookup(c) == IF c \in Sextet THEN c ELSE 0

SextetAt(k) == IF k < Len(base64) THEN Lookup(base64[k + 1]) ELSE 0

(* Mutant: the low bits of the first byte are not masked.                  *)
FourCharsUnmasked(a, b, c) ==
  << a \div 4, (a * 16) + (b \div 16), ((b % 16) * 4) + (c \div 64), c % 64 >>

(* Four characters for three bytes.                                        *)
FourChars(a, b, c) ==
  << a \div 4,
     ((a % 4) * 16) + (b \div 16),
     ((b % 16) * 4) + (c \div 64),
     c % 64 >>

(* Mutant: the middle bits of the second byte go to the wrong place.       *)
ThreeBytesMasked(d, e, f, g) ==
  << ((d * 4) + (e \div 16)) % 256,
     ((e % 16) * 16) + (f \div 4),
     ((f % 4) * 64) + (g % 32) >>

(* Three bytes for four characters.                                        *)
ThreeBytes(d, e, f, g) ==
  << ((d * 4) + (e \div 16)) % 256,
     ((e % 16) * 16) + (f \div 4),
     ((f % 4) * 64) + (g % 64) >>

-----------------------------------------------------------------------------
Init ==
  /\ \/ route = "bytes" /\ data \in Data /\ pc = "write" /\ base64 = <<>>
     \/ route = "digest" /\ data \in Data /\ pc = "hash" /\ base64 = <<>>
     \/ route = "text" /\ data = <<>> /\ pc = "text" /\ base64 \in Texts
  /\ i = 0 /\ p = 0
  /\ bytes = <<>>

(* One turn of the loop of dark_arrayBuffer_to_padded_b64url.              *)
WriteGroup ==
  /\ pc = "write"
  /\ i < Len(data)
  /\ base64' = base64 \o FourChars(ByteAt(i), ByteAt(i + 1), ByteAt(i + 2))
  /\ i' = i + 3
  /\ UNCHANGED <<route, data, pc, p, bytes>>

(* Mutant: the padding is added and nothing taken away for it.             *)
PaddedMore(s) ==
  IF Len(data) % 3 = 2 THEN s \o <<Pad>>
  ELSE IF Len(data) % 3 = 1 THEN s \o <<Pad, Pad>>
  ELSE s

Padded(s) ==
  IF Len(data) % 3 = 2 THEN SubSeq(s, 1, Len(s) - 1) \o <<Pad>>
  ELSE IF Len(data) % 3 = 1 THEN SubSeq(s, 1, Len(s) - 2) \o <<Pad, Pad>>
  ELSE s

(* The end of the loop, and the padding.                                   *)
Written ==
  /\ pc = "write"
  /\ i >= Len(data)
  /\ base64' = Padded(base64)
  /\ pc' = "text"
  /\ UNCHANGED <<route, data, i, p, bytes>>

(* The text may come back without its padding: test_language.ml 697-698    *)
(* reads two such texts, and valid_rfc4648_b64_or_exn lets them through.   *)
Unpadded ==
  /\ pc = "text"
  /\ route = "bytes"
  /\ base64 # <<>> /\ base64[Len(base64)] = Pad
  /\ base64' = SubSeq(base64, 1, Len(base64) - 1)
  /\ UNCHANGED <<route, data, pc, i, p, bytes>>

-----------------------------------------------------------------------------
(* What RFC 4648 says: the bits of a group of three bytes as one number,   *)
(* of which the characters are the digits to the base of 64.               *)
RfcChar(k) ==
  LET g == 3 * (k \div 4)
      v == (ByteAt(g) * 256 + ByteAt(g + 1)) * 256 + ByteAt(g + 2)
  IN  (v \div <<262144, 4096, 64, 1>>[(k % 4) + 1]) % 64

RfcText ==
  LET used == (8 * Len(data) + 5) \div 6
      len  == 4 * ((Len(data) + 2) \div 3)
  IN  [k \in 1..len |-> IF k <= used THEN RfcChar(k - 1) ELSE Pad]

RfcByte(k) ==
  LET g == 4 * (k \div 3)
      v == ((SextetAt(g) * 64 + SextetAt(g + 1)) * 64 + SextetAt(g + 2)) * 64
             + SextetAt(g + 3)
  IN  (v \div <<65536, 256, 1>>[(k % 3) + 1]) % 256

RfcBytes ==
  LET chars == {k \in DOMAIN base64 : base64[k] # Pad}
      used  == IF chars = {} THEN 0 ELSE CHOOSE n \in chars : \A m \in chars : m <= n
  IN  [k \in 1..((6 * used) \div 8) |-> RfcByte(k - 1)]

(* Mutant: only one of the two characters is replaced.                     *)
UrlSafeSlashOnly(c) == IF c = Slash THEN 63 ELSE c

(* replace(/\//g, "_").replace(/\+/g, "-")                                 *)
UrlSafe(c) ==
  CASE c = Slash -> 63
    [] c = Plus -> 62
    [] OTHER -> c

(* sha2's toString("base64") gives the characters of the other alphabet.   *)
Standard(c) ==
  CASE c = 63 -> Slash
    [] c = 62 -> Plus
    [] OTHER -> c

(* dark_targetjs_digest384 and its siblings; data stands for the hash.     *)
Digest ==
  /\ pc = "hash"
  /\ base64' = [k \in DOMAIN RfcText |-> UrlSafe(Standard(RfcText[k]))]
  /\ pc' = "done"
  /\ UNCHANGED <<route, data, i, p, bytes>>

-----------------------------------------------------------------------------
(* Mutant: one byte less for any padding.                                  *)
BufferLengthOnePad ==
  LET len == Len(base64)
      pads == IF len > 0 /\ base64[len] = Pad THEN 1 ELSE 0
      quarters == 3 * len - 4 * pads
  IN  IF quarters < 0 THEN 0 ELSE quarters \div 4

(* len * 0.75, less one for each "=" at the end, as ArrayBuffer takes it.  *)
BufferLength ==
  LET len == Len(base64)
      pads == IF len > 0 /\ base64[len] = Pad
              THEN IF len > 1 /\ base64[len - 1] = Pad THEN 2 ELSE 1
              ELSE 0
      quarters == 3 * len - 4 * pads
  IN  IF quarters < 0 THEN 0 ELSE quarters \div 4

(* dark_arrayBuffer_from_padded_b64url up to its loop.                     *)
StartReading ==
  /\ pc = "text"
  /\ bytes' = [k \in 1..BufferLength |-> 0]
  /\ i' = 0 /\ p' = 0
  /\ pc' = "read"
  /\ UNCHANGED <<route, data, base64>>

(* One turn of it.  A typed array ignores what is stored past its end.     *)
ReadGroup ==
  /\ pc = "read"
  /\ i < Len(base64)
  /\ LET three == ThreeBytes(SextetAt(i), SextetAt(i + 1), SextetAt(i + 2), SextetAt(i + 3))
     IN  bytes' = [k \in DOMAIN bytes |->
                     IF k - p \in 1..3 THEN three[k - p] ELSE bytes[k]]
  /\ i' = i + 4
  /\ p' = p + 3
  /\ UNCHANGED <<route, data, pc, base64>>

HasRead ==
  /\ pc = "read"
  /\ i >= Len(base64)
  /\ pc' = "done"
  /\ UNCHANGED <<route, data, i, p, base64, bytes>>

-----------------------------------------------------------------------------
Next ==
  \/ WriteGroup
  \/ Written
  \/ Unpadded
  \/ Digest
  \/ StartReading
  \/ ReadGroup
  \/ HasRead

Spec == Init /\ [][Next]_vars

-----------------------------------------------------------------------------
TypeOK ==
  /\ route \in {"bytes", "digest", "text"}
  /\ data \in Seq(Byte)
  /\ pc \in {"write", "hash", "text", "read", "done"}
  /\ i \in Nat /\ p \in Nat
  /\ base64 \in Seq(Char)
  /\ bytes \in Seq(Byte)

(* What was written, and perhaps lost its padding, is read as what it was  *)
(* (DBytes values in traces, types.ml 230-235).                            *)
RoundTrip == pc = "done" /\ route = "bytes" => bytes = data

(* The text is that of RFC 4648 with its second alphabet, for the loop and *)
(* for the digests: the server, which uses a library, gives the same.      *)
TextIsRfc4648 ==
  \/ pc = "text" /\ route = "bytes" /\ Len(base64) % 4 = 0
  \/ pc = "done" /\ route = "digest"
  => base64 = RfcText

(* Padding is what RFC 4648 makes of it, or less: at the end, at most two  *)
(* of it, and within the last group.                                       *)
WellPadded(s) ==
  \E used \in 0..Len(s) :
    /\ \A k \in 1..Len(s) : s[k] = Pad <=> k > used
    /\ Len(s) - used <= 2
    /\ used % 4 = 0 => used = Len(s)
    /\ used % 4 = 3 => Len(s) - used <= 1

(* Any text, padded or not, is read as RFC 4648 says; characters that make *)
(* no whole byte are ignored.  Of a text with padding elsewhere, which     *)
(* valid_rfc4648_b64_or_exn accepts, the RFC says nothing.                 *)
BytesAreRfc4648 == pc = "done" /\ route = "text" /\ WellPadded(base64) => bytes = RfcBytes

=============================================================================
