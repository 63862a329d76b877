-------------------------------- MODULE Digest --------------------------------
(***************************************************************************)
(* What SHA-256 is computed over (core/sha256): the hasher collects pieces *)
(* of any size into blocks of 64 bytes, pads the last of them, and hashes  *)
(* a downloaded file piece by piece.                                       *)
(*                                                                         *)
(* What is done with one block is left out: the blocks are kept, in their  *)
(* order.  A byte says what it stands for, so a byte that is lost, moved   *)
(* or hashed twice shows.                                                  *)
(***************************************************************************)
EXTENDS Integers, Sequences, SequencesExt

CONSTANTS
    Lengths,    \* how long the file may be
    Pieces      \* how much a read may give; the last may give less

VARIABLES
    file,       \* the bytes of the file
    consumed,   \* how many of them have been read
    hasher,     \* the Hasher: what it has hashed, what waits for a full block
    fed,        \* total_len_
    verdict     \* "none": not yet; "given"; "refused": could not be read

digestVars == <<file, consumed, hasher, fed, verdict>>

ASSUME DigestAssumption == Lengths \subseteq Nat /\ Pieces \subseteq Nat \ {0}

-----------------------------------------------------------------------------
Byte == [what : {"data", "one", "zero", "length"}, n : Nat]
FileOf(n) == [i \in 1..n |-> [what |-> "data", n |-> i]]
Zeros(n) == [i \in 1..n |-> [what |-> "zero", n |-> 0]]
One == <<[what |-> "one", n |-> 0]>>

\* The eight bytes of the length in bits, of so many bytes.
LengthBytes(bytes) == [i \in 1..8 |-> [what |-> "length", n |-> bytes]]

Unfed == [hashed |-> <<>>, buffer |-> <<>>]

Rest(s, n) == SubSeq(s, n + 1, Len(s))

\* The first part of feed: how much of the piece goes to a block begun before.
Taken(h, piece) ==
    IF h.buffer = <<>> THEN 0
    ELSE IF Len(piece) < 64 - Len(h.buffer) THEN Len(piece) ELSE 64 - Len(h.buffer)

ToppedUp(h, piece) ==
    LET filled == h.buffer \o SubSeq(piece, 1, Taken(h, piece))
    IN  IF Len(filled) = 64 THEN [hashed |-> h.hashed \o filled, buffer |-> <<>>]
        ELSE [hashed |-> h.hashed, buffer |-> filled]

\* The second part: the whole blocks of what is left, and its end, which takes
\* the place of what is in the buffer.
InBlocks(h, left) ==
    LET inFull == 64 * (Len(left) \div 64)
    IN  [hashed |-> h.hashed \o SubSeq(left, 1, inFull),
         buffer |-> IF inFull < Len(left) THEN Rest(left, inFull) ELSE h.buffer]

\* Mutant: the block is begun anew.
FeedInBlocks(h, piece) == InBlocks(h, piece)

Feed(h, piece) == InBlocks(ToppedUp(h, piece), Rest(piece, Taken(h, piece)))

\* Mutant: the byte 0x80 takes no place.
ZerosNeededNone(h) == IF Len(h.buffer) < 56 THEN 56 - Len(h.buffer) ELSE 120 - Len(h.buffer)

\* Mutant: the limit is off by one.
ZerosNeededLate(h) == IF Len(h.buffer) <= 56 THEN 55 - Len(h.buffer) ELSE 119 - Len(h.buffer)

\* pad_len: the byte 0x80 and so many zeros leave 8 bytes of the block.
ZerosNeeded(h) == IF Len(h.buffer) < 56 THEN 55 - Len(h.buffer) ELSE 119 - Len(h.buffer)

\* final, for the blocks.
Finished(h, bytes) == Feed(Feed(h, One \o Zeros(ZerosNeeded(h))), LengthBytes(bytes))

-----------------------------------------------------------------------------
DigestInit ==
    /\ \E n \in Lengths : file = FileOf(n)
    /\ consumed = 0 /\ hasher = Unfed /\ fed = 0 /\ verdict = "none"

\* One turn of the loop of hashFile: a piece, or what is left of the file.
ReadPiece ==
    /\ verdict = "none" /\ consumed < Len(file)
    /\ \E size \in Pieces :
        LET got == IF size < Len(file) - consumed THEN size ELSE Len(file) - consumed
        IN  /\ consumed' = consumed + got
            /\ hasher' = Feed(hasher, SubSeq(file, consumed + 1, consumed + got))
            /\ fed' = fed + got
    /\ UNCHANGED <<file, verdict>>

\* The end of the file: final.
ReadEnd ==
    /\ verdict = "none" /\ consumed = Len(file)
    /\ hasher' = Finished(hasher, fed)
    /\ verdict' = "given"
    /\ UNCHANGED <<file, consumed, fed>>

\* The file cannot be opened, or a read fails: in.bad().
ReadFails ==
    /\ verdict = "none"
    /\ verdict' = "refused"
    /\ UNCHANGED <<file, consumed, hasher, fed>>

DigestNext == ReadPiece \/ ReadEnd \/ ReadFails

DigestSpec == DigestInit /\ [][DigestNext]_digestVars

-----------------------------------------------------------------------------
\* Every variable has its type.
DigestTypeOK ==
    /\ file \in Seq(Byte) /\ consumed \in 0..Len(file) /\ fed \in Nat
    /\ hasher \in [hashed : Seq(Byte), buffer : Seq(Byte)]
    /\ verdict \in {"none", "given", "refused"}

\* The padding of the standard: the message, the byte 0x80, as few zeros as
\* make the whole a multiple of 64 bytes, and the length of the message.
IsPadded(hashed, message) ==
    \E n \in 0..63 :
        /\ hashed = message \o One \o Zeros(n) \o LengthBytes(Len(message))
        /\ Len(hashed) % 64 = 0

\* A digest is given of the whole file and of nothing else, padded as the
\* standard wants it, however the file came in pieces; the tests cut one text of
\* 110 bytes and try the padding at 55 and 56 (tests/unit_tests.cpp:3542, 3561).
DigestIsOfTheFile == verdict = "given" => IsPadded(hasher.hashed, file) /\ hasher.buffer = <<>>

\* While it reads, nothing is lost and nothing is hashed twice.
NothingIsLost ==
    verdict # "given" =>
        /\ hasher.hashed \o hasher.buffer = SubSeq(file, 1, consumed)
        /\ Len(hasher.hashed) % 64 = 0 /\ Len(hasher.buffer) < 64
=============================================================================
