------------------------------- MODULE CmdBlock -------------------------------
(***************************************************************************)
(* lz4_literals and lz4_decompress of tools/mw6_cmd_client.py.  An LZ4     *)
(* block is a series of steps: a token with two lengths, literal bytes,    *)
(* and a match that copies bytes already put out; the last step has no     *)
(* match.  A length that fills its half of the token goes on in bytes.     *)
(*                                                                         *)
(* Nibble stands for 16 and is a parameter so that small blocks reach the  *)
(* lengths at which another byte is needed.                                *)
(***************************************************************************)
EXTENDS Integers, Sequences, SequencesExt

CONSTANTS Nibble,   \* values of half a token
          Invalid,  \* lz4_decompress raised
          Blocks    \* what the router may compress

VARIABLE block \* steps: literals, offset and length of the match, and the last literals

Byte == Nibble * Nibble

Full == Nibble - 1

-----------------------------------------------------------------------------
\* What a block stands for: a match repeats the bytes before it.
Grown(out, s) ==
    LET before == out \o s.literals IN
    before \o [k \in 1 .. s.match |->
                  before[Len(before) - s.offset + 1 + ((k - 1) % s.offset)]]

Outputs(steps) ==
    LET out[n \in 0 .. Len(steps)] ==
            IF n = 0 THEN <<>> ELSE Grown(out[n - 1], steps[n])
    IN  out

Expand(b) == Outputs(b.steps)[Len(b.steps)] \o b.last

\* The steps LZ4 knows: four bytes are repeated at least, and none that are not there.
WellFormed(b) ==
    /\ b.steps \in Seq([literals : Seq(0 .. Byte - 1), offset : 1 .. Byte * Byte - 1,
                        match : Nat])
    /\ b.last \in Seq(0 .. Byte - 1)
    /\ \A n \in DOMAIN b.steps :
          /\ b.steps[n].match >= 4
          /\ b.steps[n].offset <= Len(Outputs(b.steps)[n - 1] \o b.steps[n].literals)

ASSUME BlockParameters ==
    /\ Nibble \in Nat /\ Nibble > 1
    /\ Invalid \notin Seq(Nat) \cup [value : Nat, next : Nat]
    /\ \A b \in Blocks : WellFormed(b)

-----------------------------------------------------------------------------
\* Compressing.  The client compresses its requests as one step of literals.

Extension(n) == [i \in 1 .. n \div (Byte - 1) |-> Byte - 1] \o <<n % (Byte - 1)>>

Half(n) == IF n < Full THEN n ELSE Full

Rest(n) == IF n < Full THEN <<>> ELSE Extension(n - Full)

Lz4Literals(data) == <<Nibble * Half(Len(data))>> \o Rest(Len(data)) \o data

\* The router's blocks, as the LZ4 format lays them out.
EncodeStep(step) ==
    <<Nibble * Half(Len(step.literals)) + Half(step.match - 4)>>
      \o Rest(Len(step.literals)) \o step.literals
      \o <<step.offset % Byte, step.offset \div Byte>> \o Rest(step.match - 4)

EncodeSteps(steps) ==
    LET bytes[n \in 0 .. Len(steps)] ==
            IF n = 0 THEN <<>> ELSE bytes[n - 1] \o EncodeStep(steps[n])
    IN  bytes

EncodeBlock(b) == EncodeSteps(b.steps)[Len(b.steps)] \o Lz4Literals(b.last)

-----------------------------------------------------------------------------
\* Decompressing

\* A length: the half of the token, or that and the bytes up to one below the top.
ReadLength(src, pos, half) ==
    LET ends == {p \in pos .. Len(src) : src[p] # Byte - 1}
        last == Min(ends)
    IN  IF half < Full THEN [value |-> half, next |-> pos]
        ELSE IF ends = {} THEN Invalid
        ELSE [value |-> half + (last - pos) * (Byte - 1) + src[last], next |-> last + 1]

\* mutated: the match is copied as one slice
CopySlice(out, offset, n) ==
    out \o SubSeq(out, Len(out) - offset + 1, Min({Len(out) - offset + n, Len(out)}))

CopyByte(out, offset) == Append(out, out[Len(out) - offset + 1])

\* Byte by byte, so a match may run into what it puts out itself.
CopyMatch(out, offset, n) ==
    LET copied[k \in 0 .. n] == IF k = 0 THEN out ELSE CopyByte(copied[k - 1], offset)
    IN  copied[n]

\* One round of the loop over the source; at its end nothing more happens.
Round(src, s) ==
    LET token    == src[s.pos]
        literals == ReadLength(src, s.pos + 1, token \div Nibble)
        end      == literals.next + literals.value
        copied   == s.out \o SubSeq(src, literals.next, Min({end - 1, Len(src)}))
        offset   == src[end] + Byte * src[end + 1]
        match    == ReadLength(src, end + 2, token % Nibble)
        Stop(out) == [pos |-> Len(src) + 1, out |-> out]
    IN  IF s.pos > Len(src) THEN s
        ELSE IF literals = Invalid THEN Stop(Invalid)
        ELSE IF end > Len(src) THEN Stop(copied)
        ELSE IF end = Len(src) \/ offset \notin 1 .. Len(copied) \/ match = Invalid
        THEN Stop(Invalid)
        ELSE [pos |-> match.next, out |-> CopyMatch(copied, offset, match.value + 4)]

\* A round reads a byte at least, so there are no more of them than bytes.
Rounds(src) ==
    LET after[n \in 0 .. Len(src)] ==
            IF n = 0 THEN [pos |-> 1, out |-> <<>>] ELSE Round(src, after[n - 1])
    IN  after

Lz4Decompress(src, expected) ==
    LET out == Rounds(src)[Len(src)].out
    IN  IF out = Invalid \/ Len(out) # expected THEN Invalid ELSE out

\* A block is there, and is read.
BlockInit == block \in Blocks

BlockSpec == BlockInit /\ [][UNCHANGED block]_block

-----------------------------------------------------------------------------
\* Blocks come back as what they stand for: lengths that just fill a half, or end
\* with a full byte, and matches that overlap themselves included.  Of a block that
\* was cut short nothing else is ever made (mw6_cmd_client.py:89-124).
BlocksAreReadBack ==
    LET src == EncodeBlock(block)
        Read(n) == Lz4Decompress(SubSeq(src, 1, n), Len(Expand(block)))
    IN  /\ Read(Len(src)) = Expand(block)
        /\ \A n \in 0 .. Len(src) - 1 : Read(n) \in {Invalid, Expand(block)}
=============================================================================
