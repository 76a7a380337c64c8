---------------------------- MODULE MCAbbrevRecords ----------------------------
(* One abbreviation of each shape, values at the limits of their chunks.     *)
EXTENDS AbbrevRecordsReader

MCAbbreviations ==
  { <<Literal(2), Fixed(3), VBR(4)>>,
    <<Literal(300), Fixed(0), Array, Char6>>,
    <<VBR(6), Array, VBR(2)>>,
    <<Fixed(2), Blob>> }

MCRecords ==
  [vals : {<<2, 7, 8>>, <<2, 0, 7>>, <<2, 5, 1000>>}, blob : {NoBlob}]
  \cup [vals : {<<300, 0>>}, blob : {NoBlob, <<>>, <<97, 90, 46>>, <<95, 48, 57, 65, 122>>}]
  \cup [vals : {<<300, 0, 48, 122>>}, blob : {NoBlob}]
  \cup [vals : {<<32>>, <<31>>}, blob : {NoBlob, <<1, 2, 9>>}]
  \cup [vals : {<<3>>}, blob : {NoBlob, <<>>, <<255>>, <<1, 2, 3, 4, 5>>}]
  \cup [vals : {<<3, 200, 100>>}, blob : {NoBlob}]

MCPlain == [code : {1, 40}, vals : {<<>>, <<31, 32>>, <<5000>>}]
=============================================================================
