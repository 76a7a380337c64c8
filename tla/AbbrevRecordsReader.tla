-------------------------- MODULE AbbrevRecordsReader --------------------------
(***************************************************************************)
(* A reader of the records of one block.  It is LLVM's, outside this       *)
(* repository: modelled from the encodings that BitCodes.h and the emitters *)
(* of BitstreamWriter.h define.  It has the stream and the code width, and *)
(* learns the abbreviations from the stream.                               *)
(*                                                                         *)
(* A cursor is [pos, got]: the bits of s consumed and what was read; past  *)
(* the end of s there are zeros.                                           *)
(***************************************************************************)
EXTENDS AbbrevRecords

At(pos, got) == [pos |-> pos, got |-> got]

ReadBits(s, pos, n) ==
  LET bit(p) == IF p < Len(s) THEN s[p + 1] ELSE 0
      High[k \in 0..n] == IF k = 0 THEN 0 ELSE bit(pos + n - k) + 2 * High[k - 1]
  IN At(pos + n, High[n])

ReadVBR(s, pos, n) ==
  LET chunk == Pow2[n - 1]
      From[p \in Nat] ==
        LET c == ReadBits(s, p, n)
        IN IF c.got < chunk THEN c
           ELSE LET more == From[c.pos]
                IN At(more.pos, (c.got - chunk) + chunk * more.got)
  IN From[pos]

\* A scalar operand: a field of no bits reads as zero.
ReadField(s, pos, op) ==
  CASE op.kind = "Literal" -> At(pos, op.data)
    [] op.kind = "Fixed"   -> ReadBits(s, pos, op.data)
    [] op.kind = "VBR"     -> IF op.data = 0 THEN At(pos, 0) ELSE ReadVBR(s, pos, op.data)
    [] op.kind = "Char6"   -> LET c == ReadBits(s, pos, 6) IN At(c.pos, DecodeChar6(c.got))

\* One value for each operand of ops.
AddField(s, c, op) == LET v == ReadField(s, c.pos, op) IN At(v.pos, Append(c.got, v.got))
ReadFields(s, pos, ops) ==
  LET Upto[i \in 0..Len(ops)] ==
        IF i = 0 THEN At(pos, <<>>) ELSE AddField(s, Upto[i - 1], ops[i])
  IN Upto[Len(ops)]

Same(op, n) == [i \in 1..n |-> op]
Byte == [kind |-> "Fixed", data |-> 8]
NextWord(pos) == ((pos + WordBits - 1) \div WordBits) * WordBits

ReadTail(s, pos, ops) ==
  LET count == ReadVBR(s, pos, 6)
  IN IF Tail1(ops) = "Array"
     THEN ReadFields(s, count.pos, Same(ops[Len(ops)], count.got))
     ELSE LET bytes == ReadFields(s, NextWord(count.pos), Same(Byte, count.got))
          IN At(NextWord(bytes.pos), bytes.got)

ReadAbbreviated(s, pos, ops) ==
  LET head == ReadFields(s, pos, SubSeq(ops, 1, Scalars(ops)))
  IN IF ~HasTail(ops) THEN head
     ELSE LET tail == ReadTail(s, head.pos, ops) IN At(tail.pos, head.got \o tail.got)

ReadUnabbreviated(s, pos) ==
  LET code == ReadVBR(s, pos, 6)
      count == ReadVBR(s, code.pos, 6)
      vals == ReadFields(s, count.pos, Same([kind |-> "VBR", data |-> 6], count.got))
  IN At(vals.pos, <<code.got>> \o vals.got)

\* The definition of an abbreviation, n operands of it.
ReadOp(s, pos) ==
  LET lit == ReadBits(s, pos, 1)
      enc == ReadBits(s, lit.pos, 3)
      kind == CHOOSE k \in DOMAIN Encoding : Encoding[k] = enc.got
      data == IF lit.got = 1 THEN ReadVBR(s, lit.pos, 8)
              ELSE IF hasEncodingData(kind) THEN ReadVBR(s, enc.pos, 5)
              ELSE At(enc.pos, 0)
  IN At(data.pos, [kind |-> IF lit.got = 1 THEN "Literal" ELSE kind, data |-> data.got])

AddOp(s, c) == LET op == ReadOp(s, c.pos) IN At(op.pos, Append(c.got, op.got))
ReadOps(s, pos, n) ==
  LET Upto[i \in 0..n] == IF i = 0 THEN At(pos, <<>>) ELSE AddOp(s, Upto[i - 1])
  IN Upto[n]

\* One definition or record; the cursor has the abbreviations known and all that was read.
ReadItem(s, c) ==
  LET code == ReadBits(s, c.pos, CurCodeSize)
  IN IF code.got = DEFINE_ABBREV
     THEN LET n == ReadVBR(s, code.pos, 5)
              ops == ReadOps(s, n.pos, n.got)
          IN [pos |-> ops.pos, known |-> Append(c.known, ops.got),
              got |-> Append(c.got, [define |-> ops.got])]
     ELSE LET r == IF code.got < FIRST_APPLICATION_ABBREV
                   THEN ReadUnabbreviated(s, code.pos)
                   ELSE ReadAbbreviated(s, code.pos, c.known[code.got - FIRST_APPLICATION_ABBREV + 1])
          IN [pos |-> r.pos, known |-> c.known, got |-> Append(c.got, [record |-> r.got])]

\* n turns of the reader's loop, which ends where the stream does.
ReadTurn(s, c) == IF c.pos >= Len(s) THEN c ELSE ReadItem(s, c)
ReadTurns(s, n) ==
  LET Upto[k \in 0..n] ==
        IF k = 0 THEN [pos |-> 0, known |-> <<>>, got |-> <<>>] ELSE ReadTurn(s, Upto[k - 1])
  IN Upto[n]

------------------------------------------------------------------------------

\* The stream is bits, and the block knows no other abbreviations than a caller may define,
\* nor more of them than were meant.
TypeOK ==
  /\ stream \in Seq({0, 1})
  /\ meant \in Seq([define : Abbreviations] \cup [record : Seq(Nat)]) /\ Len(meant) =< MaxItems
  /\ CurAbbrevs \in Seq(Abbreviations) /\ Len(CurAbbrevs) =< Len(meant)

\* Every abbreviation and every record is read back as it was meant, and after as many
\* turns the reader is where the writer ended: operand for operand, whatever mixes of
\* literals, fields, arrays and blobs (aligned to words from any position), and whether
\* the tail's contents were passed as blob data or as values.
RoundTrip ==
  ReadTurns(stream, Len(meant)) = [pos |-> Len(stream), known |-> CurAbbrevs, got |-> meant]
=============================================================================
