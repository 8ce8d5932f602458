------------------------------ MODULE Envelope ------------------------------
(***************************************************************************)
(* The packed payload in which prompts and answers travel: initialization  *)
(* vector, authentication tag and ciphertext, one after the other, with    *)
(* nothing that says how long the vector is.  Every program that seals or  *)
(* opens one has its own copy of this code and its own length of vector.   *)
(*                                                                         *)
(* AES-GCM authenticates: what is opened with another vector, tag or       *)
(* ciphertext than was sealed throws.  The length of the tag is the same   *)
(* everywhere.                                                             *)
(***************************************************************************)
EXTENDS Naturals, Sequences

TagBytes == 16

Pack(iv, tag, text) == iv \o tag \o text

\* A reader that takes n bytes for the vector.
Unpack(n, packed) ==
    [iv   |-> SubSeq(packed, 1, n),
     tag  |-> SubSeq(packed, n + 1, n + TagBytes),
     text |-> SubSeq(packed, n + TagBytes + 1, Len(packed))]

Opens(n, iv, tag, text) ==
    /\ Len(Pack(iv, tag, text)) >= n + TagBytes
    /\ Unpack(n, Pack(iv, tag, text)) = [iv |-> iv, tag |-> tag, text |-> text]

-----------------------------------------------------------------------------
(***************************************************************************)
(* Who takes how many bytes.                                               *)
(***************************************************************************)
\* The packages shared by the services, in TypeScript and in Python; the
\* nodes seal and open with the second.
SharedIv == 16
NodeIv == 16

\* The two pages that seal a prompt, and the helper with which every page
\* opens an answer.
WizardIv == 16
NewPageIv == 12
AnswerIv == 12

\* The agent SDK and the scripts, each for both.
SdkIv == 12
GatewayIv == 12
DirectIv == 16
DemoIv == 16

\* A payload of the writer, in the hands of the reader.
Payload(name, n) == [i \in 1 .. n |-> <<name, i>>]

CanOpen(reader, writer) ==
    Opens(reader, Payload("iv", writer), Payload("tag", TagBytes), Payload("text", 8))

-----------------------------------------------------------------------------
(***************************************************************************)
(* The key of a payload travels as two numbers, which CoFHE encrypts: its  *)
(* halves, the first byte the most significant.  The code has bytes of 8   *)
(* bits and halves of 16 bytes; here base is how many bytes there are.     *)
(***************************************************************************)
NumberOf(base, bytes) ==
    LET number[i \in 0 .. Len(bytes)] ==
            IF i = 0 THEN 0 ELSE number[i - 1] * base + bytes[i]
    IN  number[Len(bytes)]

SplitKey(base, key) ==
    LET half == Len(key) \div 2
    IN  [high |-> NumberOf(base, SubSeq(key, 1, half)),
         low |-> NumberOf(base, SubSeq(key, half + 1, Len(key)))]

\* A small number has zeros in front.
BytesOf(base, half, number) ==
    [i \in 1 .. half |-> (number \div base ^ (half - i)) % base]

CombineKeyHalves(base, half, key) ==
    BytesOf(base, half, key.high) \o BytesOf(base, half, key.low)

=============================================================================
