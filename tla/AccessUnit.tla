----------------------------- MODULE AccessUnit -----------------------------
(***************************************************************************)
(* The stream access point a PES packet starts with, by the type of its    *)
(* stream (getSAPType): for AVC the first slice among its NAL units, for   *)
(* audio the synchronisation word of a frame.                              *)
(***************************************************************************)
EXTENDS Integers, Sequences

CONSTANT Forever   \* a call that does not return

NOT_SUPPORTED == 99
ERROR == 100

\* Byte i of a buffer counted from 0; past the end lies what the memory holds.
ByteAt(buf, i, beyond) == IF i < Len(buf) THEN buf[i + 1] ELSE beyond

StartsAt(buf, i, code, beyond) == \A k \in DOMAIN code : ByteAt(buf, i + k - 1, beyond) = code[k]
Code3 == <<0, 0, 1>>
Code4 == <<0, 0, 0, 1>>

Least(S) == CHOOSE i \in S : \A j \in S : i <= j

IsStart(buf, i, beyond) == StartsAt(buf, i, Code3, beyond) \/ StartsAt(buf, i, Code4, beyond)

\* The place of the first start code; the last four bytes are looked at only when they are the first.
Starts(buf, beyond) == {i \in {0} \cup 0 .. Len(buf) - 5 : IsStart(buf, i, beyond)}

\* A unit ends before three bytes 0 0 0 or 0 0 1, or with the buffer when none of them is before its
\* last three bytes.
EndsAt(buf, i, beyond) ==
    StartsAt(buf, i, <<0, 0, 0>>, beyond) \/ StartsAt(buf, i, Code3, beyond)

\* The start and the end of the first NAL unit; none when it has no bytes.
find_nal_unit(buf, beyond) ==
    LET code == Least(Starts(buf, beyond))
        start == IF StartsAt(buf, code, Code3, beyond) THEN code + 3 ELSE code + 4
        ends == {i \in {start} \cup start .. Len(buf) - 4 : EndsAt(buf, i, beyond)}
    IN IF Starts(buf, beyond) = {} THEN <<>>
       ELSE IF start \in ends THEN <<>>
       ELSE <<start, IF ends = {} THEN Len(buf) ELSE Least(ends)>>

\* Mutant: the escape byte of the encoding is refused too.
EscapeToo(byte) == byte <= 3

\* What may not follow two zeros in a unit.
Forbidden(byte) == byte < 3

\* nal_to_rbsp: the zeros before each byte, two at most; 3 after two zeros is taken out.
RECURSIVE Converts(_, _)
Converts(nal, zeros) ==
    IF nal = <<>> THEN TRUE
    ELSE IF zeros < 2 THEN Converts(Tail(nal), IF Head(nal) = 0 THEN zeros + 1 ELSE 0)
    ELSE IF Forbidden(Head(nal)) THEN FALSE
    ELSE IF Head(nal) > 3 THEN Converts(Tail(nal), 0)
    ELSE IF Len(nal) = 1 THEN TRUE
    ELSE nal[2] <= 3 /\ Converts(SubSeq(nal, 3, Len(nal)), IF nal[2] = 0 THEN 1 ELSE 0)

\* The type of a unit: 0, as allocated, when it has no bytes or they do not convert.
nal_unit_type(nal) == IF nal # <<>> /\ Converts(nal, 0) THEN nal[1] % 32 ELSE 0

RECURSIVE SliceOf(_, _)
SliceOf(buf, beyond) ==
    LET found == find_nal_unit(buf, beyond)
        type == nal_unit_type(SubSeq(buf, found[1] + 1, found[2]))
    IN IF buf = <<>> \/ found = <<>> THEN ERROR
       ELSE IF type = 5 THEN 1
       ELSE IF type = 1 THEN 2
       ELSE SliceOf(SubSeq(buf, found[2] + 1, Len(buf)), beyond)

getSAPType_AVC(payload, random_access, beyond) ==
    IF random_access THEN SliceOf(payload, beyond) ELSE ERROR

getSAPType_MPEG2_AAC(payload, beyond) ==
    IF ByteAt(payload, 0, beyond) = 255 /\ ByteAt(payload, 1, beyond) >= 240 THEN 1 ELSE ERROR

\* The second byte as the higher one.
getSAPType_AC3(payload, beyond) ==
    IF ByteAt(payload, 1, beyond) * 256 + ByteAt(payload, 0, beyond) = 2935 THEN 1 ELSE ERROR

\* The function for MPEG4 AAC calls itself.
getSAPType(type, payload, random_access, beyond) ==
    CASE type = "AVC" -> getSAPType_AVC(payload, random_access, beyond)
      [] type = "MPEG2_AAC" -> getSAPType_MPEG2_AAC(payload, beyond)
      [] type = "MPEG4_AAC" -> Forever
      [] type = "AC3" -> getSAPType_AC3(payload, beyond)
      [] OTHER -> NOT_SUPPORTED
=============================================================================
