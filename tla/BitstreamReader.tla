--------------------------- MODULE BitstreamReader ---------------------------
(***************************************************************************)
(* A reader of the bitstream container, in lockstep with the writer.       *)
(*                                                                         *)
(* The reader is LLVM's, not in this repository: it is modelled from the   *)
(* format the encoder's comments define (encoder/BitCodes.h lines 34-53    *)
(* and 67-76, encoder/BitstreamWriter.h lines 57 and 211-212).  It knows   *)
(* nothing of the writer but what the stream carries, and keeps one scope  *)
(* per open block: its id, its code width, its abbreviations.              *)
(*                                                                         *)
(* A token carries what the writer meant (the width it wrote the code      *)
(* with, the abbreviation it laid the record out by): the reader stops     *)
(* at the first token it would not read as it was meant.   *)
(***************************************************************************)
EXTENDS BitstreamWriter

VARIABLE rd   \* [scopes, info, bid, state]

Top(r) == r.scopes[Len(r.scopes)]
SetTop(r, s) == [r EXCEPT !.scopes = [r.scopes EXCEPT ![Len(r.scopes)] = s]]
Stop(r) == [r EXCEPT !.state = "stopped"]

ReadEnter(r, t) ==
  [r EXCEPT
     !.scopes = Append(@, [id |-> t.id, width |-> t.newWidth,
                           abbrevs |-> r.info[t.id]]),
     !.bid = IF t.id = BLOCKINFO THEN NoBID ELSE @]

ReadEnd(r) ==
  IF Len(r.scopes) = 1 THEN Stop(r)
  ELSE [r EXCEPT !.scopes = SubSeq(@, 1, Len(@) - 1)]

\* In BLOCKINFO a definition is for the selected block id, elsewhere for the
\* current block.
ReadDefine(r, a) ==
  IF Top(r).id = BLOCKINFO
  THEN IF r.bid = NoBID THEN Stop(r)
       ELSE [r EXCEPT !.info = [r.info EXCEPT ![r.bid] = Append(@, a)]]
  ELSE SetTop(r, [Top(r) EXCEPT !.abbrevs = Append(@, a)])

ReadSetBID(r, t) == [r EXCEPT !.bid = t.id]

ReadRecord(r, t) ==
  LET i == t.code - FIRST_APPLICATION_ABBREV + 1
  IN IF t.code = UNABBREV_RECORD \/ (i \in DOMAIN Top(r).abbrevs /\ Top(r).abbrevs[i] = t.abbrev)
     THEN r ELSE Stop(r)

Read(r, t) ==
  IF t.width # Top(r).width THEN Stop(r)
  ELSE CASE t.op = "ENTER"  -> ReadEnter(r, t)
         [] t.op = "END"    -> ReadEnd(r)
         [] t.op = "DEFINE" -> ReadDefine(r, t.abbrev)
         [] t.op = "SETBID" -> ReadSetBID(r, t)
         [] t.op = "RECORD" -> ReadRecord(r, t)

\* An operation puts at most two tokens in the stream.
ReadAll(r, ts) ==
  IF ts = <<>> THEN r
  ELSE IF Len(ts) = 1 THEN Read(r, ts[1])
  ELSE Read(Read(r, ts[1]), ts[2])

rtVars == <<vars, rd>>

RTInit ==
  /\ Init
  /\ rd = [scopes |-> << [id |-> -1, width |-> 2, abbrevs |-> <<>>] >>,
           info   |-> [id \in BlockIds |-> <<>>],
           bid    |-> NoBID,
           state  |-> "reading"]

RTNext == Next /\ rd' = ReadAll(rd, emitted')

RTSpec == RTInit /\ [][RTNext]_rtVars

------------------------------------------------------------------------------

Width(i) == IF i = Depth + 1 THEN CurCodeSize ELSE BlockScope[i].PrevCodeSize

\* A reader that sees only the stream reads every code with the width it was
\* written with and every abbreviated record with the abbreviation it was laid
\* out by: the writer's swaps of CurAbbrevs and CurCodeSize with BlockScope, the
\* inheritance from BLOCKINFO, the ids it hands out and BlockInfoCurBID agree at
\* every point with what the stream says.
ReaderAgrees ==
  /\ rd.state = "reading"
  /\ Len(rd.scopes) = Depth + 1
  /\ \A i \in Levels : /\ rd.scopes[i].width = Width(i)
                       /\ rd.scopes[i].abbrevs = Level(i)
  /\ InBlockInfo => rd.bid = BlockInfoCurBID
  /\ ~destroyed => rd.info = blockInfo

\* Strengthening: the reader's scopes carry the ids of the open blocks, and only
\* the innermost open block can be BLOCKINFO.
IdsAgree ==
  /\ rd.scopes[1].id = -1
  /\ \A i \in 1..Depth : rd.scopes[i + 1].id = openIds[i]
  /\ \A i \in 1..Depth - 1 : openIds[i] # BLOCKINFO

AgreeInv == ReaderAgrees /\ IdsAgree
=============================================================================
