-------------------------- MODULE SpirBitcodeProofs --------------------------
(***************************************************************************)
(* A reader of the items the writer has sent so far knows what they were   *)
(* written from.  The invariant says what it knows after each action: the  *)
(* parts of the module whose blocks are behind it (Follows), and inside a  *)
(* function the first instructions of the body, with the location the next *)
(* one is compared to and what is yet to be given to them (BodyAt).  Each  *)
(* action sends the items of one block or of one instruction and so        *)
(* carries it to the next place; at the end it has the module.             *)
(***************************************************************************)
EXTENDS SpirRecordsProofs

\* What is known of a body when its instructions are next.
BodyStart(t, body) ==
  t.args = body.args /\ t.blocks = body.blocks /\ t.consts = body.consts /\ t.local = body.local
BodyHead(t, body) ==
  BodyStart(t, body) /\ t.insts = Empty /\ t.names = Empty /\ t.lastloc = Unknown

LEMMA PlainRecordRead ==
    ASSUME NEW r, NEW c, NEW v, NEW x, x = Record(c, v, 0)
    PROVE  Read(r, x) = Took(r, x)
  <1>1. x.item = "record" /\ x.abbrev = 0
    BY RecordFields
  <1>2. Read(r, x) = ReadRecord(r, x)
    BY <1>1 DEF Read
  <1>3. Abbreviable(r, x)
    BY <1>1 DEF Abbreviable
  <1> QED
    BY <1>2, <1>3 DEF ReadRecord, Took

LEMMA OpenIs ==
    ASSUME NEW r, IsReader(r), NEW id, NEW w
    PROVE  Open(r, Enter(id, w)) = Set(r, "open", Append(r.open, Frame(id, w, Infos(r, id), NoType)))
  <1>1. PICK x : x = Enter(id, w)
    OBVIOUS
  <1>2. x.id = id /\ x.width = w
    BY <1>1 DEF Enter
  <1>3. Open(r, x) = Add(r, "open", Frame(id, w, Infos(r, id), NoType))
    BY <1>2 DEF Open, Frame
  <1>4. "open" \in Fields
    BY FieldsAre
  <1>5. Open(r, x) = Set(r, "open", Append(r.open, Frame(id, w, Infos(r, id), NoType)))
    BY <1>3, <1>4, AddIs
  <1> QED
    BY <1>1, <1>5

\* More values are known, or a list of the body is set.
LEMMA ValuesSetStays ==
    ASSUME NEW r, NEW mod, NEW past, NEW t, InBody(r, mod, past, t), NEW ts, IsSeq(ts), NEW told,
           NEW s, s = Set(Set(r, "tys", ts), "told", told)
    PROVE  InBody(s, mod, past, t) /\ s.tys = ts /\ s.told = told /\ s.bodies = r.bodies
  <1>1. IsReader(r)
    BY InBodyIs
  <1>2. "tys" \in Fields /\ "told" \in Fields /\ "bodies" \in Fields
    BY FieldsAre
  <1>3. PICK s1 : s1 = Set(r, "tys", ts)
    OBVIOUS
  <1>4. IsReader(s1) /\ s1["tys"] = ts /\ \A g \in Fields : g # "tys" => s1[g] = r[g]
    BY <1>1, <1>2, <1>3, SetFields
  <1>5. IsReader(s) /\ s["told"] = told /\ \A g \in Fields : g # "told" => s[g] = s1[g]
    BY <1>2, <1>3, <1>4, SetFields
  <1>6. s["tys"] = ts /\ s["bodies"] = r["bodies"] /\ Same(r, s, BodyChanges)
    BY <1>2, <1>4, <1>5 DEF Same, BodyChanges
  <1>7. ReadingAfter(s, past, t)
    BY <1>6 DEF InBody, ReadingAfter
  <1>8. InBody(s, mod, past, t)
    BY <1>5, <1>6, <1>7, BodyStays
  <1> QED
    BY <1>5, <1>6, <1>8

LEMMA ListSetStays ==
    ASSUME NEW r, NEW mod, NEW past, NEW t, InBody(r, mod, past, t), NEW f \in BodyFields, NEW x,
           NEW u, u = Updated(t, f, x), NEW s, s = Set(r, "bodies", Append(Front(r.bodies), Updated(Last(r.bodies), f, x)))
    PROVE  /\ InBody(s, mod, past, u) /\ s.tys = r.tys /\ s.told = r.told
           /\ u[f] = x /\ \A g \in BodyFields : g # f => u[g] = t[g]
  <1>1. IsReader(r)
    BY InBodyIs
  <1>2. PICK o : IsSeq(o) /\ r.bodies = Append(o, t)
    BY DEF InBody, ReadingAfter
  <1>3. Front(r.bodies) = o /\ Last(r.bodies) = t
    BY <1>2, EndsAre
  <1>4. s = SetBody(r, f, x)
    BY <1>1, <1>2, <1>3, SetBodyIs
  <1> QED
    BY <1>4, SetBodyStays

LEMMA BodyParts ==
    ASSUME NEW mod, IsModule(mod), NEW f \in 1..Len(mod.functions), mod.functions[f].isproto = 0,
           NEW params, params = ParamTypes(PointedTo(mod, mod.functions[f].ty))
    PROVE  /\ IsBody(mod, f) /\ IsSeq(params) /\ mod.bodies[f].args = params
           /\ IsSeq(mod.bodies[f].consts) /\ IsSeq(mod.bodies[f].local) /\ IsSeq(mod.bodies[f].insts)
           /\ DOMAIN mod.bodies[f].consts = 1..Len(mod.bodies[f].consts)
           /\ DOMAIN mod.bodies[f].local = 1..Len(mod.bodies[f].local)
           /\ DOMAIN mod.bodies[f].insts = 1..Len(mod.bodies[f].insts)
  <1>1. IsBody(mod, f)
    BY ModuleLists DEF IsModule
  <1>2. PICK T : T = PointedTo(mod, mod.functions[f].ty)
    OBVIOUS
  <1>3. mod.functions[f].ty + 1 \in DOMAIN mod.types /\ mod.types[mod.functions[f].ty + 1].vals[1] + 1 \in DOMAIN mod.types
          /\ Len(T.vals) >= 2
    BY <1>1, <1>2 DEF IsBody, PointsToFunction
  <1>4. T \in TypeRecords
    <2>1. PICK S, g : S = TypeRecords /\ g = mod.types[mod.functions[f].ty + 1].vals[1] + 1
      OBVIOUS
    <2>2. mod.types \in Seq(S)
      BY <2>1 DEF IsModule
    <2>3. T = mod.types[g] /\ g \in DOMAIN mod.types
      BY <1>2, <1>3, <2>1 DEF PointedTo
    <2>4. mod.types[g] \in S
      BY <2>2, <2>3
    <2> QED
      BY <2>1, <2>3, <2>4
  <1>5. IsSeq(T.vals)
    BY <1>4, SeqIs DEF TypeRecords
  <1>6. IsSeq(params)
    BY <1>2, <1>3, <1>5, ParamTypesShape
  <1>7. mod.bodies[f].args = params /\ IsSeq(mod.bodies[f].consts) /\ IsSeq(mod.bodies[f].local)
          /\ IsSeq(mod.bodies[f].insts)
    BY <1>1 DEF IsBody
  <1> QED
    BY <1>1, <1>6, <1>7, SeqShape

\* The body is entered.
BeforeBody(q, mod, f, past) ==
  /\ Follows(q, "function", mod)
  /\ past = q.bodies /\ IsSeq(past) /\ Len(past) = BodiesBefore(mod.functions, f)
WithParameters(mod, params) == ModuleTypes(mod) \o params

LEMMA BodyEntered ==
    ASSUME NEW mod, IsModule(mod), NEW f \in 1..Len(mod.functions), mod.functions[f].isproto = 0,
           NEW q, NEW past, BeforeBody(q, mod, f, past),
           NEW params, params = ParamTypes(PointedTo(mod, mod.functions[f].ty)),
           NEW z, z = Read(q, Enter(12, 4))
    PROVE  /\ InBody(z, mod, past, FreshBody(params))
           /\ z.tys = WithParameters(mod, params) /\ z.told = {}
  <1>0. past = q.bodies /\ IsSeq(past) /\ Len(past) = BodiesBefore(mod.functions, f)
    BY DEF BeforeBody
  <1>1. IsReader(q) /\ AtModule(q) /\ q.tys = ModuleTypes(mod) /\ ToldRight(q.told, ModuleTypes(mod))
          /\ Knows(q, mod, ModuleFields)
    BY FollowsIs DEF OpenAt, ValuesAt, AfterModule, AfterConstants, DoneAt, BeforeBody
  <1>2. q.functions = mod.functions /\ q.types = mod.types
    BY <1>1 DEF Knows, ModuleFields, PartOf
  <1>3. DefinedFunctions(q.functions)[Len(q.bodies) + 1] = mod.functions[f]
    BY <1>0, <1>2, ModuleLists, BodiesCount
  <1>4. params = ParamTypes(PointedTo(q, DefinedFunctions(q.functions)[Len(q.bodies) + 1].ty))
    BY <1>2, <1>3 DEF PointedTo
  <1>5. PICK y : y = EnterBody(q)
    OBVIOUS
  <1>6. EnteredBody(q, params, y)
    BY <1>1, <1>4, <1>5, EnterBodyIs
  <1>7. IsReader(y)
    BY <1>6 DEF EnteredBody
  <1>8. z = Open(y, Enter(12, 4))
    BY <1>5 DEF Read, Enter, BlockIDs
  <1>9. PICK fr, c : fr = Frame(12, 4, c, NoType) /\ z = Set(y, "open", Append(y.open, fr))
    BY <1>7, <1>8, OpenIs
  <1>10. PICK op : op = Append(y.open, fr)
    OBVIOUS
  <1>11. IsReader(z) /\ z["open"] = op /\ \A g \in Fields : g # "open" => z[g] = y[g]
    <2>1. "open" \in Fields
      BY FieldsAre
    <2>2. IsReader(Set(y, "open", op)) /\ Set(y, "open", op)["open"] = op
            /\ \A g \in Fields : g # "open" => Set(y, "open", op)[g] = y[g]
      BY <1>7, <2>1, SetFields
    <2> QED
      BY <1>9, <1>10, <2>2, Zenon
  <1>12. z.tys = y.tys /\ z.told = y.told /\ z.bodies = y.bodies /\ z.moduleTys = y.moduleTys
           /\ z.moduleTold = y.moduleTold
    BY <1>11, FieldsAre
  <1>13. OpenInBody(z)
    <2>1. y.open = q.open
      BY <1>6, FieldsAre DEF EnteredBody, Same
    <2>2. PICK a : IsSeq(a) /\ q.open = Append(Empty, Frame(8, 3, a, NoType))
      BY <1>1 DEF AtModule
    <2> QED
      BY <1>9, <1>10, <1>11, <2>1, <2>2 DEF OpenInBody
  <1>14. Same(q, z, {"tys", "moduleTys", "moduleTold", "told", "bodies", "open"})
    BY <1>6, <1>11 DEF EnteredBody, Same
  <1>15. \A g \in ModuleFields : z[g] = q[g]
    BY <1>14, ModuleFieldsAre DEF Same, ModuleFields
  <1>16. Keeping(z, mod)
    <2>1. Knows(z, mod, ModuleFields)
      BY <1>1, <1>15 DEF Knows
    <2>2. z.moduleTys = ModuleTypes(mod) /\ ToldRight(z.moduleTold, ModuleTypes(mod))
      BY <1>1, <1>6, <1>12 DEF EnteredBody
    <2>3. IsSeq(z.tys)
      <3>1. IsSeq(params) /\ IsSeq(ModuleTypes(mod))
        BY BodyParts, ModuleTypesShape
      <3>2. z.tys = ModuleTypes(mod) \o params
        BY <1>1, <1>6, <1>12 DEF EnteredBody
      <3>3. IsSeq(ModuleTypes(mod) \o params)
        BY <3>1, JoinShape
      <3> QED
        BY <3>2, <3>3
    <2> QED
      BY <1>11, <2>1, <2>2, <2>3 DEF Keeping
  <1>17. ReadingAfter(z, past, FreshBody(params))
    BY <1>0, <1>6, <1>12, FreshBodyIs DEF EnteredBody, ReadingAfter
  <1> QED
    BY <1>1, <1>6, <1>12, <1>13, <1>16, <1>17 DEF InBody, EnteredBody, WithParameters

LEMMA FunctionCodesAre ==
    /\ FunctionCodes["DECLAREBLOCKS"] = 1 /\ FunctionCodes["DEBUG_LOC"] = 35 /\ FunctionCodes["DEBUG_LOC_AGAIN"] = 33
    /\ FunctionCodes.DECLAREBLOCKS = 1 /\ FunctionCodes.DEBUG_LOC = 35 /\ FunctionCodes.DEBUG_LOC_AGAIN = 33
  BY DEF FunctionCodes

Beginning(mod, body, tys, last) ==
  <<Enter(BlockIDs.FUNCTION_BLOCK, 4), Record(FunctionCodes.DECLAREBLOCKS, <<body.blocks>>, 0)>>
    \o WriteConstants(body.consts, tys, last, FALSE) \o WriteFunctionLocalMetadata(mod, body)
Begun(z, mod, past, body, tys) ==
  /\ \E t : InBody(z, mod, past, t) /\ BodyHead(t, body)
  /\ z.tys = (ModuleTypes(mod) \o body.args) \o Tys(body.consts) /\ ToldRight(z.told, tys)

\* What a body starts with is read.
LEMMA BodyBegins ==
    ASSUME NEW mod, IsModule(mod), NEW f \in 1..Len(mod.functions), mod.functions[f].isproto = 0,
           NEW q, NEW past, BeforeBody(q, mod, f, past),
           NEW body, body = mod.bodies[f], NEW tys, tys = FunctionValueTypes(mod, f), IsSeq(tys), NEW last,
           NEW items, items = Beginning(mod, body, tys, last),
           NEW z, z = ReadAll(q, items)
    PROVE  IsSeq(items) /\ Begun(z, mod, past, body, tys)
  <1>1. PICK params, e, x : /\ params = ParamTypes(PointedTo(mod, mod.functions[f].ty))
                               /\ e = Enter(12, 4) /\ x = Record(1, <<body.blocks>>, 0)
    OBVIOUS
  <1>2. /\ IsBody(mod, f) /\ body.args = params /\ IsSeq(params)
        /\ IsSeq(body.consts) /\ IsSeq(body.local)
        /\ \A k \in DOMAIN body.consts : IsConstant(mod, tys, body.consts[k])
        /\ \A k \in 1..Len(body.local) : IsNode(mod, body.local[k], TRUE)
    BY <1>1, BodyParts DEF IsBody
  <1>3. PICK C, L : C = WriteConstants(body.consts, tys, last, FALSE) /\ L = WriteFunctionLocalMetadata(mod, body)
    OBVIOUS
  <1>4. items = <<e, x>> \o C \o L
    BY <1>1, <1>3, FunctionCodesAre DEF BlockIDs, Beginning
  <1>5. PICK z1, z2 : z1 = Read(q, e) /\ z2 = Read(z1, x)
    OBVIOUS
  <1>6. InBody(z1, mod, past, FreshBody(params)) /\ z1.tys = ModuleTypes(mod) \o params /\ z1.told = {}
    <2>1. z1 = Read(q, Enter(12, 4)) /\ params = ParamTypes(PointedTo(mod, mod.functions[f].ty))
      BY <1>1, <1>5
    <2>2. InBody(z1, mod, past, FreshBody(params))
      BY <2>1, BodyEntered
    <2>3. z1.tys = ModuleTypes(mod) \o params
      <3>1. z1.tys = WithParameters(mod, params)
        BY <2>1, BodyEntered
      <3> QED
        BY <3>1 DEF WithParameters
    <2>4. z1.told = {}
      BY <2>1, BodyEntered
    <2> QED
      BY <2>2, <2>3, <2>4
  <1>7. ReadAll(q, <<e, x>>) = z2 /\ IsSeq(<<e, x>>)
    <2>1. PICK a, c : a = <<e>> /\ c = <<x>>
      OBVIOUS
    <2>2. IsSeq(a) /\ IsSeq(c) /\ <<e, x>> = a \o c /\ IsSeq(<<e, x>>)
      BY <2>1, OneSeq, TwoSeq
    <2>3. ReadAll(q, a \o c) = ReadAll(ReadAll(q, a), c)
      BY <2>2, ReadJoin
    <2>4. ReadAll(q, a) = z1 /\ ReadAll(z1, c) = z2
      BY <1>5, <2>1, ReadOne
    <2> QED
      BY <2>2, <2>3, <2>4
  <1>8. z2 = SetBody(z1, "blocks", body.blocks)
    <2>1. Top(z1).id = 12
      BY <1>6, InBodyIs
    <2>2. x.code = 1 /\ x.vals = <<body.blocks>>
      BY <1>1, RecordFields
    <2>3. Read(z1, x) = Took(z1, x)
      BY <1>1, PlainRecordRead
    <2>4. Took(z1, x) = ReadFunction(z1, x)
      BY <2>1, TookIs
    <2>5. ReadFunction(z1, x) = SetBody(z1, "blocks", x.vals[1])
      BY <2>2, FunctionCodesAre DEF ReadFunction
    <2> QED
      BY <1>5, <2>2, <2>3, <2>4, <2>5
  <1>9. PICK t0, t2 : t0 = FreshBody(params) /\ t2 = Updated(t0, "blocks", body.blocks)
    OBVIOUS
  <1>10. /\ InBody(z2, mod, past, t2) /\ z2.tys = z1.tys /\ z2.told = z1.told /\ t2["blocks"] = body.blocks
         /\ \A g \in BodyFields : g # "blocks" => t2[g] = t0[g]
    <2>1. "blocks" \in BodyFields
      BY DEF BodyFields
    <2>2. InBody(z1, mod, past, t0)
      BY <1>6, <1>9
    <2> QED
      BY <1>8, <1>9, <2>1, <2>2, SetBodyStays
  <1>11. /\ t2.args = params /\ t2.consts = Empty /\ t2.local = Empty /\ t2.insts = Empty /\ t2.names = Empty
         /\ t2.blocks = body.blocks /\ t2.lastloc = Unknown
    BY <1>9, <1>10, FreshBodyIs DEF BodyFields
  <1>12. /\ IsReader(z2) /\ IsSeq(z2.open) /\ IsSeq(z2.tys) /\ Where(z2, "body") /\ z2.types = mod.types
         /\ Got(z2, "body", "consts") = Empty
    BY <1>10, <1>11, InBodyIs
  <1>13. PICK told : /\ Reads(z2, C, WithConstants(z2, "body", z2.tys \o Tys(body.consts), told, body.consts))
                     /\ ToldRight(z2.told, tys) => ToldRight(told, tys)
    <2>1. FALSE \in BOOLEAN
      OBVIOUS
    <2> QED
      BY <1>2, <1>3, <1>12, <2>1, ReadsConstants
  <1>14. ToldRight(told, tys)
    BY <1>6, <1>10, <1>13, NoneTold
  <1>15. PICK ts, s3, t3 : /\ ts = z2.tys \o Tys(body.consts) /\ s3 = WithConstants(z2, "body", ts, told, body.consts)
                           /\ t3 = Updated(t2, "consts", body.consts)
    OBVIOUS
  <1>16. /\ InBody(s3, mod, past, t3) /\ s3.tys = ts /\ s3.told = told /\ t3["consts"] = body.consts
         /\ \A g \in BodyFields : g # "consts" => t3[g] = t2[g]
    <2>1. PICK s2 : s2 = Set(Set(z2, "tys", ts), "told", told)
      OBVIOUS
    <2>2. IsSeq(ts)
      <3>1. PICK d : d = Tys(body.consts)
        OBVIOUS
      <3>2. IsSeq(d)
        BY <1>2, <3>1, TysShape
      <3>3. IsSeq(z2.tys \o d)
        BY <1>12, <3>2, JoinShape
      <3> QED
        BY <1>15, <3>1, <3>3
    <2>3. InBody(s2, mod, past, t2) /\ s2.tys = ts /\ s2.told = told /\ s2.bodies = z2.bodies
      BY <1>10, <2>1, <2>2, ValuesSetStays
    <2>4. s3 = Set(s2, "bodies", Append(Front(s2.bodies), Updated(Last(s2.bodies), "consts", body.consts)))
      BY <1>15, <2>1, <2>3, Zenon DEF WithConstants, PutField, PutValue
    <2>5. "consts" \in BodyFields
      BY DEF BodyFields
    <2>6. /\ InBody(s3, mod, past, t3) /\ s3.tys = s2.tys /\ s3.told = s2.told
          /\ t3["consts"] = body.consts /\ \A g \in BodyFields : g # "consts" => t3[g] = t2[g]
      <3>1. PICK v : v = body.consts
        OBVIOUS
      <3>2. t3 = Updated(t2, "consts", v)
        BY <1>15, <3>1
      <3>3. s3 = Set(s2, "bodies", Append(Front(s2.bodies), Updated(Last(s2.bodies), "consts", v)))
        BY <2>4, <3>1
      <3>4. /\ InBody(s3, mod, past, t3) /\ s3.tys = s2.tys /\ s3.told = s2.told
            /\ t3["consts"] = v /\ \A g \in BodyFields : g # "consts" => t3[g] = t2[g]
        BY <2>3, <2>5, <3>2, <3>3, ListSetStays
      <3> QED
        BY <3>1, <3>4
    <2> QED
      BY <2>3, <2>6
  <1>17. PICK z3 : z3 = ReadAll(z2, C)
    OBVIOUS
  <1>18. InBody(z3, mod, past, t3) /\ z3.tys = ts /\ z3.told = told
    <2>1. IsReader(s3)
      BY <1>16, InBodyIs
    <2>2. Reads(z2, C, s3)
      BY <1>13, <1>15
    <2>3. Like(z3, s3)
      BY <1>12, <1>17, <2>1, <2>2, ReadsTo
    <2> QED
      BY <1>16, <2>3, LikeInBody
  <1>19. /\ IsReader(z3) /\ IsSeq(z3.open) /\ Where(z3, "body") /\ z3.types = mod.types
         /\ Got(z3, "body", "local") = Empty
    <2>1. t3.local = Empty
      BY <1>11, <1>16 DEF BodyFields
    <2> QED
      BY <1>18, <2>1, InBodyIs
  <1>20. PICK s4, t4 : s4 = Put(z3, "body", "local", body.local) /\ t4 = Updated(t3, "local", body.local)
    OBVIOUS
  <1>21. Reads(z3, L, s4)
    BY <1>2, <1>3, <1>19, <1>20, ModuleLists, ReadsLocalMetadata
  <1>22. /\ InBody(s4, mod, past, t4) /\ s4.tys = ts /\ s4.told = told /\ t4["local"] = body.local
         /\ \A g \in BodyFields : g # "local" => t4[g] = t3[g]
    <2>1. s4 = Set(z3, "bodies", Append(Front(z3.bodies), Updated(Last(z3.bodies), "local", body.local)))
      BY <1>20, Zenon DEF Put, PutField, PutValue
    <2>2. "local" \in BodyFields
      BY DEF BodyFields
    <2>3. /\ InBody(s4, mod, past, t4) /\ s4.tys = z3.tys /\ s4.told = z3.told
          /\ t4["local"] = body.local /\ \A g \in BodyFields : g # "local" => t4[g] = t3[g]
      BY <1>18, <1>20, <2>1, <2>2, ListSetStays
    <2> QED
      BY <1>18, <2>3
  <1>23. IsSeq(items) /\ ReadAll(z3, L) = z
    <2>1. PICK H, HC : H = <<e, x>> /\ HC = H \o C
      OBVIOUS
    <2>2. IsSeq(H) /\ IsSeq(C) /\ IsSeq(L) /\ ReadAll(q, H) = z2
      BY <1>7, <1>13, <1>21, <2>1 DEF Reads
    <2>3. IsSeq(H \o C) /\ ReadAll(q, H \o C) = ReadAll(ReadAll(q, H), C)
      BY <2>2, JoinShape, ReadJoin
    <2>4. IsSeq(HC) /\ ReadAll(q, HC) = z3
      BY <1>17, <2>1, <2>2, <2>3
    <2>5. IsSeq(HC \o L) /\ ReadAll(q, HC \o L) = ReadAll(ReadAll(q, HC), L)
      BY <2>2, <2>4, JoinShape, ReadJoin
    <2>6. items = HC \o L
      BY <1>4, <2>1
    <2> QED
      BY <2>4, <2>5, <2>6
  <1>25. InBody(z, mod, past, t4) /\ z.tys = ts /\ z.told = told
    <2>1. IsReader(s4)
      BY <1>22, InBodyIs
    <2>2. Like(z, s4)
      BY <1>19, <1>21, <1>23, <2>1, ReadsTo
    <2> QED
      BY <1>22, <2>2, LikeInBody
  <1>26. BodyHead(t4, body)
    BY <1>2, <1>11, <1>16, <1>22 DEF BodyHead, BodyStart, BodyFields
  <1> QED
    BY <1>1, <1>2, <1>6, <1>10, <1>14, <1>15, <1>23, <1>25, <1>26 DEF Begun

\* An instruction adds itself to the body, and its value to the values if it has one.
Grew(s, x, z) ==
  z.tys = IF HasValue(s, ResultType(s, x)) THEN Append(s.tys, ResultType(s, x)) ELSE s.tys

LEMMA NotedLike ==
    ASSUME NEW r, IsReader(r), NEW x, x.item = "record"
    PROVE  \E s : Like(s, r) /\ Read(r, x) = Took(s, x)
  <1>1. PICK v : v = r.misfits \cup {x}
    OBVIOUS
  <1>2. PICK s : s = IF Abbreviable(r, x) THEN r ELSE Set(r, "misfits", v)
    OBVIOUS
  <1>3. Read(r, x) = ReadRecord(r, x)
    BY DEF Read
  <1>5. Like(s, r)
    <2>1. Like(r, r)
      BY DEF Like
    <2>2. "misfits" \in Fields
      BY FieldsAre
    <2>3. IsReader(Set(r, "misfits", v)) /\ \A g \in Fields : g # "misfits" => Set(r, "misfits", v)[g] = r[g]
      BY <2>2, SetFields
    <2>4. Like(Set(r, "misfits", v), r)
      BY <2>3 DEF Like
    <2> QED
      BY <1>2, <2>1, <2>4
  <1>6. Top(s) = Top(r)
    <2>1. s.open = r.open
      BY <1>5, LikeFields
    <2> QED
      BY <2>1 DEF Top
  <1>7. ReadRecord(r, x) = Took(s, x)
    BY <1>1, <1>2, <1>6, Zenon DEF ReadRecord, Took
  <1> QED
    BY <1>3, <1>5, <1>7

LEMMA OpcodeIsNot ==
    ASSUME NEW op \in Opcodes
    PROVE  FunctionCodes[op] \notin {1, 33, 35}
  BY DEF FunctionCodes, Opcodes

LEMMA CodeGivesOpcode ==
    ASSUME NEW op \in Opcodes
    PROVE  (CHOOSE c \in DOMAIN FunctionCodes : FunctionCodes[c] = FunctionCodes[op]) = op
  <1>1. \A c \in DOMAIN FunctionCodes : FunctionCodes[c] = FunctionCodes[op] => c = op
    BY DEF FunctionCodes, Opcodes
  <1>2. op \in DOMAIN FunctionCodes
    BY DEF Opcodes
  <1> QED
    BY <1>1, <1>2

\* An instruction that is read.
InstFields == {"is", "values", "told", "dl", "mds"}
IsInstRead(e) == IsRecord(e) /\ DOMAIN e = InstFields
AddedInst(t, u, e) ==
  /\ u.insts = Append(t.insts, e) /\ IsInstRead(e) /\ e.dl = Unknown /\ e.mds = Empty
  /\ \A g \in BodyFields : g # "insts" => u[g] = t[g]
\* Its operands are those the reader s finds in the record x.
GotBy(s, x, e) ==
  /\ e.values = ReadOperands(s, x, ArgumentKinds(s, x)).values
  /\ e.told = ReadOperands(s, x, ArgumentKinds(s, x)).told

LEMMA InstructionStays ==
    ASSUME NEW r, NEW mod, NEW past, NEW t, InBody(r, mod, past, t), NEW op \in Opcodes,
           NEW x, x.item = "record", x.code = FunctionCodes[op], NEW z, z = Read(r, x)
    PROVE  \E s, u, e : /\ Like(s, r) /\ Grew(s, x, z) /\ z.told = r.told
                        /\ InBody(z, mod, past, u) /\ AddedInst(t, u, e) /\ e.is = op /\ GotBy(s, x, e)
  <1>1. PICK s : Like(s, r) /\ z = Took(s, x)
    BY InBodyIs, NotedLike
  <1>2. InBody(s, mod, past, t) /\ s.tys = r.tys /\ s.told = r.told
    BY <1>1, LikeInBody
  <1>3. IsReader(s) /\ IsSeq(s.tys) /\ Top(s).id = 12 /\ IsBodyRead(t)
    BY <1>2, InBodyIs
  <1>4. z = ReadFunction(s, x)
    BY <1>1, <1>3, TookIs
  <1>5. x.code \notin {1, 33, 35}
    BY OpcodeIsNot
  <1>6. PICK got, ty : got = ReadOperands(s, x, ArgumentKinds(s, x)) /\ ty = ResultType(s, x)
    OBVIOUS
  <1>7. z = ReadInstruction(s, x, got, ty)
    BY <1>4, <1>5, <1>6, FunctionCodesAre, Zenon DEF ReadFunction
  <1>8. PICK e : /\ IsInstRead(e) /\ e.is = op /\ e.dl = Unknown /\ e.mds = Empty /\ GotBy(s, x, e)
                 /\ z = AddBody(IF HasValue(s, ty) THEN Add(s, "tys", ty) ELSE s, "insts", e)
    <2>1. PICK e, is : /\ is = CHOOSE c \in DOMAIN FunctionCodes : FunctionCodes[c] = x.code
                       /\ e = [is |-> is, values |-> got.values, told |-> got.told, dl |-> Unknown, mds |-> <<>>]
      OBVIOUS
    <2>2. z = AddBody(IF HasValue(s, ty) THEN Add(s, "tys", ty) ELSE s, "insts", e)
      BY <1>7, <2>1, Zenon DEF ReadInstruction
    <2>3. e.dl = Unknown /\ e.mds = Empty
      BY <2>1 DEF Empty
    <2>4. IsInstRead(e)
      BY <2>1 DEF IsInstRead, IsRecord, InstFields
    <2>5. e.is = op
      BY <2>1, CodeGivesOpcode
    <2>6. GotBy(s, x, e)
      BY <1>6, <2>1 DEF GotBy
    <2> QED
      BY <2>2, <2>3, <2>4, <2>5, <2>6
  <1>9. PICK ts : ts = IF HasValue(s, ty) THEN Append(s.tys, ty) ELSE s.tys
    OBVIOUS
  <1>10. IsSeq(ts)
    BY <1>3, <1>9, AppendShape
  <1>11. PICK v, y : y = (IF HasValue(s, ty) THEN Add(s, "tys", ty) ELSE s) /\ v = Set(s, "tys", ts)
    OBVIOUS
  <1>12. y = v
    <2>1. "tys" \in Fields
      BY FieldsAre
    <2>2. Add(s, "tys", ty) = Set(s, "tys", Append(s.tys, ty))
      BY <1>3, <2>1, AddIs
    <2>3. Set(s, "tys", s["tys"]) = s
      BY <1>3, <2>1, SetFields
    <2> QED
      BY <1>9, <1>11, <2>2, <2>3
  <1>13. IsReader(v) /\ v["tys"] = ts /\ \A g \in Fields : g # "tys" => v[g] = s[g]
    BY <1>3, <1>11, FieldsAre, SetFields
  <1>14. InBody(v, mod, past, t) /\ v.tys = ts /\ v.told = s.told
    <2>1. v.bodies = s.bodies /\ v.told = s.told
      BY <1>13, FieldsAre
    <2>2. ReadingAfter(v, past, t)
      BY <1>2, <2>1 DEF InBody, ReadingAfter
    <2>3. Same(s, v, BodyChanges)
      BY <1>13 DEF Same, BodyChanges
    <2>4. v.tys = ts
      BY <1>13
    <2> QED
      BY <1>2, <1>10, <1>13, <2>1, <2>2, <2>3, <2>4, BodyStays
  <1>15. PICK w, u : w = Append(t["insts"], e) /\ u = Updated(t, "insts", w)
    OBVIOUS
  <1>16. z = SetBody(v, "insts", w)
    <2>1. Last(v.bodies) = t
      BY <1>14, InBodyIs
    <2> QED
      BY <1>8, <1>11, <1>12, <1>15, <2>1, Zenon DEF AddBody
  <1>17. /\ InBody(z, mod, past, u) /\ z.tys = v.tys /\ z.told = v.told
         /\ u["insts"] = w /\ \A g \in BodyFields : g # "insts" => u[g] = t[g]
    <2>1. "insts" \in BodyFields
      BY DEF BodyFields
    <2>2. u = Updated(t, "insts", w) /\ InBody(v, mod, past, t)
      BY <1>14, <1>15
    <2> QED
      BY <1>16, <2>1, <2>2, SetBodyStays
  <1>18. AddedInst(t, u, e)
    BY <1>8, <1>15, <1>17 DEF AddedInst
  <1>19. Grew(s, x, z)
    BY <1>6, <1>9, <1>14, <1>17 DEF Grew
  <1> QED
    BY <1>1, <1>2, <1>8, <1>14, <1>17, <1>18, <1>19

\* A location is noted with the last instruction.
LocatedLast(insts, dl) == [insts EXCEPT ![Len(insts)].dl = dl]
BodySame(t, u, X) == \A g \in BodyFields : g \notin X => u[g] = t[g]
LocationOf(c, v, last) == IF c = 33 THEN last ELSE <<v[1], v[2], v[3] - 1, v[4] - 1>>
Located(t, u, dl) ==
  /\ BodySame(t, u, {"insts", "lastloc"})
  /\ u.insts = LocatedLast(t.insts, dl) /\ u.lastloc = dl

LEMMA LocationStays ==
    ASSUME NEW r, NEW mod, NEW past, NEW t, InBody(r, mod, past, t), NEW c, c = 33 \/ c = 35, NEW v,
           NEW x, x = Record(c, v, 0), NEW z, z = Read(r, x)
    PROVE  \E u, dl : /\ InBody(z, mod, past, u) /\ z.tys = r.tys /\ z.told = r.told /\ Located(t, u, dl)
                      /\ dl = LocationOf(c, v, t.lastloc)
  <1>1. x = Record(c, v, 0)
    OBVIOUS
  <1>2. x.code = c /\ x.vals = v
    BY <1>1, RecordFields
  <1>3. Top(r).id = 12 /\ Last(r.bodies) = t
    BY InBodyIs
  <1>4. z = ReadFunction(r, x)
    BY <1>1, <1>3, PlainRecordRead, TookIs
  <1>5. PICK dl : dl = LocationOf(c, v, t.lastloc)
    OBVIOUS
  <1>6. z = SetLocation(r, dl)
    <2>1. CASE c = 33
      BY <1>2, <1>3, <1>4, <1>5, <2>1, FunctionCodesAre DEF ReadFunction, LocationOf
    <2>2. CASE c = 35
      <3>1. ReadFunction(r, x) = SetLocation(r, <<x.vals[1], x.vals[2], x.vals[3] - 1, x.vals[4] - 1>>)
        BY <1>2, <2>2, FunctionCodesAre DEF ReadFunction
      <3> QED
        BY <1>2, <1>4, <1>5, <2>2, <3>1 DEF LocationOf
    <2> QED
      BY <2>1, <2>2
  <1>7. PICK a, w, u1, u : /\ a = SetBody(r, "lastloc", dl) /\ w = LocatedLast(t.insts, dl)
                           /\ u1 = Updated(t, "lastloc", dl) /\ u = Updated(u1, "insts", w)
    OBVIOUS
  <1>8. z = SetBody(a, "insts", w)
    BY <1>3, <1>6, <1>7 DEF SetLocation, LocatedLast
  <1>9. "insts" \in BodyFields /\ "lastloc" \in BodyFields
    BY DEF BodyFields
  <1>10. /\ InBody(a, mod, past, u1) /\ a.tys = r.tys /\ a.told = r.told
         /\ u1["lastloc"] = dl /\ \A g \in BodyFields : g # "lastloc" => u1[g] = t[g]
    BY <1>7, <1>9, SetBodyStays
  <1>11. /\ InBody(z, mod, past, u) /\ z.tys = a.tys /\ z.told = a.told
         /\ u["insts"] = w /\ \A g \in BodyFields : g # "insts" => u[g] = u1[g]
    BY <1>7, <1>8, <1>9, <1>10, SetBodyStays
  <1>12. z.tys = r.tys /\ z.told = r.told /\ u.lastloc = dl /\ u.insts = w
    BY <1>9, <1>10, <1>11
  <1>13. \A g \in BodyFields : g \notin {"insts", "lastloc"} => u[g] = t[g]
    BY <1>10, <1>11
  <1>14. Located(t, u, dl)
    BY <1>7, <1>12, <1>13 DEF Located, BodySame
  <1> QED
    BY <1>5, <1>11, <1>12, <1>14

\* An instruction of the function place.f of the module place.mod has its operands, and
\* the types told are the operands'.
Place(mod, f) == [mod |-> mod, f |-> f]
Right(place, e, inst) ==
  /\ e.values = Map(LAMBDA s : s.n, Operands(place.mod, FunctionValueTypes(place.mod, place.f), inst))
  /\ ToldRight(e.told, FunctionValueTypes(place.mod, place.f))
InstIs(pl, e, inst, mds) ==
  IsInstRead(e) /\ e.is = inst.op /\ e.dl = inst.dl /\ e.mds = mds /\ Right(pl, e, inst)
\* What is known of the body when instruction i is next, the last location written being last.
Tracks(pl, t, body, i, last) ==
  /\ BodyStart(t, body) /\ t.names = Empty /\ t.lastloc = last
  /\ IsSeq(t.insts) /\ Len(t.insts) = i - 1
  /\ \A k \in 1..(i - 1) : InstIs(pl, t.insts[k], body.insts[k], Empty)

LEMMA TracksFromStart ==
    ASSUME NEW pl, NEW t, NEW body, BodyHead(t, body)
    PROVE  Tracks(pl, t, body, 1, Unknown)
  <1>1. IsSeq(Empty) /\ Len(Empty) = 0
    BY NoneSeq
  <1> QED
    BY <1>1 DEF BodyHead, Tracks

\* WriteDebugLoc, when the last location written is last.
Locating(dl, last) ==
  CASE dl = Unknown -> <<>>
    [] dl # Unknown /\ dl = last -> <<Record(33, <<>>, 0)>>
    [] OTHER -> <<Record(35, <<dl[1], dl[2], dl[3] + 1, dl[4] + 1>>, 0)>>
IsLocation(dl) == dl = Unknown \/ dl \in Nat \X Nat \X Int \X Int

LEMMA LocationFields ==
    ASSUME NEW dl, dl \in Nat \X Nat \X Int \X Int, NEW v, v = <<dl[1], dl[2], dl[3] + 1, dl[4] + 1>>
    PROVE  <<v[1], v[2], v[3] - 1, v[4] - 1>> = dl /\ dl # Unknown
  <1>1. PICK a \in Nat, b \in Nat, c \in Int, d \in Int : dl = <<a, b, c, d>>
    OBVIOUS
  <1>2. dl[1] = a /\ dl[2] = b /\ dl[3] = c /\ dl[4] = d
    BY <1>1
  <1>3. v[1] = a /\ v[2] = b /\ v[3] = c + 1 /\ v[4] = d + 1
    BY <1>2
  <1>4. v[3] - 1 = c /\ v[4] - 1 = d
    BY <1>3
  <1>5. <<v[1], v[2], v[3] - 1, v[4] - 1>> = dl
    BY <1>1, <1>3, <1>4
  <1>6. dl # Unknown
    BY <1>1 DEF Unknown
  <1> QED
    BY <1>5, <1>6

\* The last instruction gets its location.
LEMMA LocationGiven ==
    ASSUME NEW t, NEW o, IsSeq(o), NEW e, IsInstRead(e), t.insts = Append(o, e), NEW u, NEW dl, Located(t, u, dl)
    PROVE  \E d : /\ u.insts = Append(o, d) /\ IsInstRead(d) /\ d.is = e.is /\ d.mds = e.mds /\ d.dl = dl
                  /\ d.values = e.values /\ d.told = e.told
                  /\ u.lastloc = dl /\ BodySame(t, u, {"insts", "lastloc"})
  <1>1. PICK d, s : d = Updated(e, "dl", dl) /\ s = Append(o, e)
    OBVIOUS
  <1>2. Len(s) = Len(o) + 1 /\ s[Len(s)] = e
    BY <1>1, AppendShape
  <1>3. LocatedLast(s, dl) = Replaced(s, Len(s), [s[Len(s)] EXCEPT !.dl = dl])
    BY DEF LocatedLast, Replaced
  <1>4. [e EXCEPT !.dl = dl] = d
    BY <1>1 DEF Updated
  <1>5. LocatedLast(s, dl) = Append(o, d)
    BY <1>1, <1>2, <1>3, <1>4, ReplaceLast
  <1>6. IsRecord(d) /\ DOMAIN d = InstFields /\ d["dl"] = dl /\ \A g \in InstFields : g # "dl" => d[g] = e[g]
    <2>1. d = Set(e, "dl", dl)
      BY <1>4 DEF Set
    <2>2. "dl" \in DOMAIN e /\ DOMAIN e = InstFields
      BY DEF IsInstRead, InstFields
    <2> QED
      BY <2>1, <2>2, SetShape
  <1>7. d.is = e.is /\ d.mds = e.mds /\ d.values = e.values /\ d.told = e.told
    BY <1>6 DEF InstFields
  <1> QED
    BY <1>1, <1>5, <1>6, <1>7 DEF Located, IsInstRead

LEMMA TracksOne ==
    ASSUME NEW pl, NEW t, NEW body, NEW i \in Nat \ {0}, NEW last, Tracks(pl, t, body, i, last),
           NEW inst, inst = body.insts[i], NEW d, InstIs(pl, d, inst, Empty), NEW u, u.insts = Append(t.insts, d), NEW now, u.lastloc = now,
           BodySame(t, u, {"insts", "lastloc"})
    PROVE  Tracks(pl, u, body, i + 1, now)
  <1>1. PICK s : s = t.insts
    OBVIOUS
  <1>2. IsSeq(s) /\ Len(s) = i - 1 /\ \A k \in 1..(i - 1) : InstIs(pl, s[k], body.insts[k], Empty)
    BY <1>1 DEF Tracks
  <1>3. PICK w : w = Append(s, d)
    OBVIOUS
  <1>4. IsSeq(w) /\ Len(w) = i /\ w[i] = d /\ \A k \in 1..(i - 1) : w[k] = s[k]
    <2>0. IsSeq(s)
      BY <1>2
    <2>3. AppendsOne(Append(s, d), s, d)
      BY <2>0, AppendIs
    <2>1. /\ IsSeq(w) /\ Len(w) = Len(s) + 1 /\ w[Len(s) + 1] = d
          /\ \A k \in 1..Len(s) : w[k] = s[k]
      BY <1>3, <2>3 DEF AppendsOne
    <2>2. Len(s) = i - 1 /\ Len(s) + 1 = i
      BY <1>2
    <2> QED
      BY <2>1, <2>2
  <1>5. \A k \in 1..((i + 1) - 1) : InstIs(pl, w[k], body.insts[k], Empty)
    BY <1>2, <1>4
  <1>6. u.args = t.args /\ u.blocks = t.blocks /\ u.consts = t.consts /\ u.local = t.local /\ u.names = t.names
    BY DEF BodyFields, BodySame
  <1>7. u.insts = w
    BY <1>1, <1>3
  <1>8. Len(w) = (i + 1) - 1
    BY <1>4
  <1>9. BodyStart(u, body) /\ u.names = Empty
    BY <1>6 DEF Tracks, BodyStart
  <1> QED
    BY <1>4, <1>5, <1>7, <1>8, <1>9 DEF Tracks

\* A step of the loop is read.
WasRead(pl, z, r, x, mod, past, body, i, now) ==
  \E s, u, y : /\ Like(s, r) /\ Grew(s, x, y) /\ z.tys = y.tys /\ z.told = r.told
               /\ InBody(z, mod, past, u)
               /\ Tracks(pl, u, body, i + 1, now)
\* The operands of inst are found in x by every reader that knows what r does.
ReadsRight(place, r, x, inst) ==
  \A s, e : Like(s, r) /\ GotBy(s, x, e) => Right(place, e, inst)

LEMMA InstructionRead ==
    ASSUME NEW pl, NEW r, NEW mod, NEW past, NEW t, InBody(r, mod, past, t),
           NEW body, NEW i \in Nat \ {0}, NEW last, Tracks(pl, t, body, i, last),
           NEW inst, inst = body.insts[i], inst.op \in Opcodes, IsLocation(inst.dl),
           NEW x, x.item = "record", x.code = FunctionCodes[inst.op], ReadsRight(pl, r, x, inst),
           NEW loc, loc = Locating(inst.dl, last), NEW items, items = <<x>> \o loc,
           NEW now, now = (IF inst.dl = Unknown THEN last ELSE inst.dl),
           NEW z, z = ReadAll(r, items)
    PROVE  IsSeq(items) /\ WasRead(pl, z, r, x, mod, past, body, i, now)
  <1>1. PICK a, y : a = <<x>> /\ y = Read(r, x)
    OBVIOUS
  <1>2. IsSeq(a) /\ ReadAll(r, a) = y
    BY <1>1, OneSeq, ReadOne
  <1>3. PICK op, dl : op = inst.op /\ dl = inst.dl
    OBVIOUS
  <1>4. PICK s, v, e : /\ Like(s, r) /\ Grew(s, x, y) /\ y.told = r.told /\ InBody(y, mod, past, v)
                       /\ AddedInst(t, v, e) /\ e.is = op /\ Right(pl, e, inst)
    <2>1. op \in Opcodes /\ x.code = FunctionCodes[op]
      BY <1>3
    <2>2. PICK s, v, e : /\ Like(s, r) /\ Grew(s, x, y) /\ y.told = r.told /\ InBody(y, mod, past, v)
                         /\ AddedInst(t, v, e) /\ e.is = op /\ GotBy(s, x, e)
      BY <1>1, <2>1, InstructionStays
    <2>3. Right(pl, e, inst)
      BY <2>2 DEF ReadsRight
    <2> QED
      BY <2>2, <2>3
  <1>5. PICK o : o = t.insts
    OBVIOUS
  <1>6. IsSeq(o) /\ v.insts = Append(o, e) /\ IsInstRead(e) /\ e.dl = Unknown /\ e.mds = Empty
    BY <1>4, <1>5 DEF AddedInst, Tracks
  <1>7. v.lastloc = last /\ \A g \in BodyFields : g # "insts" => v[g] = t[g]
    <2>1. v.lastloc = t.lastloc
      BY <1>4 DEF AddedInst, BodyFields
    <2> QED
      BY <1>4, <2>1 DEF AddedInst, Tracks
  <1>8. CASE dl = Unknown
    <2>1. loc = Empty
      BY <1>3, <1>8 DEF Locating, Empty
    <2>2. items = a
      BY <1>1, <1>2, <2>1, NoneJoined
    <2>3. z = y
      BY <1>2, <2>2
    <2>4. InstIs(pl, e, inst, Empty)
      BY <1>3, <1>4, <1>6, <1>8 DEF InstIs
    <2>5. v.insts = Append(t.insts, e) /\ v.lastloc = last
      BY <1>5, <1>6, <1>7
    <2>6. BodySame(t, v, {"insts", "lastloc"})
      BY <1>7 DEF BodySame
    <2>7. Tracks(pl, v, body, i + 1, last)
      BY <2>4, <2>5, <2>6, TracksOne
    <2>8. now = last
      BY <1>3, <1>8
    <2>9. IsSeq(items) /\ z.tys = y.tys /\ z.told = r.told /\ InBody(z, mod, past, v)
      BY <1>2, <1>4, <2>2, <2>3
    <2> QED
      BY <1>4, <2>7, <2>8, <2>9 DEF WasRead
  <1>9. CASE dl # Unknown
    <2>1. dl \in Nat \X Nat \X Int \X Int
      BY <1>3, <1>9 DEF IsLocation
    <2>2. PICK c, w : /\ c = 33 \/ c = 35
                      /\ loc = <<Record(c, w, 0)>>
                      /\ dl = LocationOf(c, w, last)
      <3>1. CASE dl = last
        <4>1. loc = <<Record(33, <<>>, 0)>>
          BY <1>3, <1>9, <3>1, Zenon DEF Locating
        <4> QED
          BY <3>1, <4>1 DEF LocationOf
      <3>2. CASE dl # last
        <4>1. PICK w : w = <<dl[1], dl[2], dl[3] + 1, dl[4] + 1>>
          OBVIOUS
        <4>2. loc = <<Record(35, w, 0)>>
          BY <1>3, <1>9, <3>2, <4>1, Zenon DEF Locating
        <4>3. <<w[1], w[2], w[3] - 1, w[4] - 1>> = dl
          BY <2>1, <4>1, LocationFields
        <4> QED
          BY <4>2, <4>3 DEF LocationOf
      <3> QED
        BY <3>1, <3>2
    <2>3. PICK y2, b : y2 = Read(y, b) /\ b = Record(c, w, 0)
      OBVIOUS
    <2>4. IsSeq(loc) /\ ReadAll(y, loc) = y2
      BY <2>2, <2>3, OneSeq, ReadOne
    <2>5. IsSeq(items) /\ z = y2
      <3>1. IsSeq(a \o loc) /\ ReadAll(r, a \o loc) = ReadAll(ReadAll(r, a), loc)
        BY <1>2, <2>4, JoinShape, ReadJoin
      <3>2. items = a \o loc
        BY <1>1
      <3> QED
        BY <1>2, <2>4, <3>1, <3>2
    <2>6. PICK u, d : /\ InBody(z, mod, past, u) /\ z.tys = y.tys /\ z.told = y.told /\ Located(v, u, d)
                      /\ d = LocationOf(c, w, v.lastloc)
      <3>1. InBody(y, mod, past, v) /\ b = Record(c, w, 0) /\ z = Read(y, b) /\ (c = 33 \/ c = 35)
        BY <1>4, <2>2, <2>3, <2>5
      <3> QED
        BY <3>1, LocationStays
    <2>7. d = dl
      BY <1>7, <2>2, <2>6
    <2>8. PICK g : /\ u.insts = Append(o, g) /\ IsInstRead(g) /\ g.is = e.is /\ g.mds = e.mds /\ g.dl = dl
                   /\ g.values = e.values /\ g.told = e.told
                   /\ u.lastloc = dl /\ BodySame(v, u, {"insts", "lastloc"})
      <3>1. Located(v, u, dl)
        BY <2>6, <2>7
      <3> QED
        BY <1>6, <3>1, LocationGiven
    <2>15. Right(pl, g, inst)
      BY <1>4, <2>8 DEF Right
    <2>9. InstIs(pl, g, inst, Empty)
      BY <1>3, <1>4, <1>6, <2>8, <2>15 DEF InstIs
    <2>10. BodySame(t, u, {"insts", "lastloc"})
      BY <1>7, <2>8 DEF BodySame
    <2>13. u.insts = Append(t.insts, g) /\ u.lastloc = dl
      BY <1>5, <2>8
    <2>11. Tracks(pl, u, body, i + 1, dl)
      BY <2>9, <2>10, <2>13, TracksOne
    <2>12. z.tys = y.tys /\ z.told = r.told
      BY <1>4, <2>6
    <2>14. now = dl
      BY <1>3, <1>9
    <2> QED
      BY <1>4, <2>5, <2>6, <2>11, <2>12, <2>14 DEF WasRead
  <1> QED
    BY <1>8, <1>9

------------------------------------------------------------------------------
(* The metadata of instructions is read after them.                         *)

AttachmentRecord(k, ids, mds) == Record(11, <<ids[k]>> \o FlattenSeq(mds), 0)
AttachmentOf(k, ids, mds) == One(mds # <<>>, AttachmentRecord(k, ids, mds))
AttachmentList(ids, orig) == [k \in DOMAIN orig |-> AttachmentOf(k, ids, orig[k].mds)]
AttachmentBlock(ids, orig) == <<Enter(16, 3)>> \o FlattenSeq(AttachmentList(ids, orig)) \o <<Exit>>
\* The instructions, the first k of which have their metadata.
GivenOne(e, mds) == Updated(e, "mds", mds)
Given(insts, orig, k) ==
  [j \in 1..Len(insts) |-> IF j <= k THEN GivenOne(insts[j], orig[j].mds) ELSE insts[j]]

LEMMA PairsAre ==
    ASSUME NEW mds \in Seq(Nat \X Nat), NEW a, NEW v, v = <<a>> \o FlattenSeq(mds)
    PROVE  v[1] = a /\ Pairs(From(v, 2)) = mds
  <1>1. IsSeq(mds) /\ DOMAIN mds = 1..Len(mds)
    BY SeqIs
  <1>2. \A k \in 1..Len(mds) : mds[k] \in Nat \X Nat
    BY <1>1
  <1>3. ASSUME NEW p \in Nat \X Nat PROVE IsSeq(p) /\ Len(p) = 2 /\ <<p[1], p[2]>> = p
    <2>1. PICK b \in Nat, c \in Nat : p = <<b, c>>
      OBVIOUS
    <2>2. <<b, c>> \in Seq(Nat) /\ Len(<<b, c>>) = 2
      OBVIOUS
    <2>3. IsSeq(p) /\ Len(p) = 2
      BY <2>1, <2>2, SeqIs
    <2> QED
      BY <2>1, <2>3
  <1>4. \A k \in 1..Len(mds) : IsSeq(mds[k]) /\ Len(mds[k]) = 2 /\ <<mds[k][1], mds[k][2]>> = mds[k]
    BY <1>2, <1>3
  <1>5. PICK f, ps : f = FlattenSeq(mds) /\ ps = Pairs(f)
    OBVIOUS
  <1>6. IsSeq(ps) /\ Len(ps) = Len(mds) /\ \A k \in 1..Len(mds) : ps[k] = <<mds[k][1], mds[k][2]>>
    BY <1>1, <1>4, <1>5, PairsRead
  <1>7. ps = mds
    BY <1>1, <1>4, <1>6, SameSeq
  <1>8. IsSeq(f)
    BY <1>1, <1>4, <1>5, FlattenShape
  <1>9. v[1] = a /\ From(v, 2) = f
    BY <1>5, <1>8, FromSecond
  <1> QED
    BY <1>5, <1>7, <1>9

LEMMA GivenNone ==
    ASSUME NEW insts, IsSeq(insts), NEW orig
    PROVE  Given(insts, orig, 0) = insts
  <1>1. insts = [j \in 1..Len(insts) |-> insts[j]] /\ Len(insts) \in Nat
    BY DEF IsSeq
  <1> QED
    BY <1>1 DEF Given

WithMds(g, k, mds) == [g EXCEPT ![k].mds = mds]
NoneGiven(insts) == \A k \in 1..Len(insts) : IsInstRead(insts[k]) /\ insts[k].mds = Empty

LEMMA GivenNext ==
    ASSUME NEW insts, IsSeq(insts), NEW orig,
           NoneGiven(insts),
           NEW k \in 1..Len(insts), NEW g, g = Given(insts, orig, k - 1), NEW m, m = orig[k].mds,
           NEW h, h = WithMds(g, k, m)
    PROVE  h = Given(insts, orig, k) /\ (m = Empty => h = g)
  <1>1. insts = [j \in 1..Len(insts) |-> insts[j]] /\ Len(insts) \in Nat
    BY DEF IsSeq
  <1>2. k \in DOMAIN g /\ DOMAIN g = 1..Len(insts) /\ g[k] = insts[k]
    BY <1>1 DEF Given
  <1>4. DOMAIN h = 1..Len(insts) /\ h[k] = GivenOne(insts[k], m) /\ \A j \in 1..Len(insts) : j # k => h[j] = g[j]
    BY <1>2 DEF GivenOne, Updated, WithMds
  <1>5. \A j \in 1..Len(insts) : g[j] = IF j <= k - 1 THEN GivenOne(insts[j], orig[j].mds) ELSE insts[j]
    BY DEF Given
  <1>6. \A j \in 1..Len(insts) : h[j] = IF j <= k THEN GivenOne(insts[j], orig[j].mds) ELSE insts[j]
    <2>1. ASSUME NEW j \in 1..Len(insts)
          PROVE  h[j] = IF j <= k THEN GivenOne(insts[j], orig[j].mds) ELSE insts[j]
      <3>1. CASE j = k
        BY <1>1, <1>4, <3>1
      <3>2. CASE j # k
        <4>1. j <= k - 1 <=> j <= k
          BY <1>1, <3>2
        <4> QED
          BY <1>4, <1>5, <3>2, <4>1
      <3> QED
        BY <3>1, <3>2
    <2> QED
      BY <2>1
  <1>7. h = [j \in 1..Len(insts) |-> h[j]]
    BY <1>2, <1>4 DEF WithMds
  <1>8. h = Given(insts, orig, k)
    BY <1>6, <1>7 DEF Given
  <1>9. ASSUME m = Empty PROVE h = g
    <2>1. PICK e : e = insts[k]
      OBVIOUS
    <2>2. IsInstRead(e) /\ e.mds = Empty
      BY <2>1 DEF NoneGiven
    <2>3. Set(e, "mds", e["mds"]) = e
      BY <2>2, SetSame DEF IsInstRead
    <2>4. GivenOne(e, m) = e
      BY <1>9, <2>2, <2>3 DEF GivenOne, Updated, Set
    <2>5. \A j \in 1..Len(insts) : h[j] = g[j]
      BY <1>2, <1>4, <2>1, <2>4
    <2>6. g = [j \in 1..Len(insts) |-> g[j]]
      BY DEF Given
    <2> QED
      BY <1>7, <2>5, <2>6
  <1> QED
    BY <1>8, <1>9

\* The reader, of whose last body the instructions are those.
WithInsts(q, o, t, insts) == Set(q, "bodies", Append(o, Updated(t, "insts", insts)))

LEMMA AttachmentRead ==
    ASSUME NEW p, In(p, 16), NEW o, IsSeq(o), NEW t, IsBodyRead(t),
           NEW g, NEW k \in Nat, NEW ids, ids[k] = k - 1, NEW mds \in Seq(Nat \X Nat),
           NEW h, h = [g EXCEPT ![k].mds = mds],
           NEW x, x = AttachmentRecord(k, ids, mds), NEW q, q = WithInsts(p, o, t, g)
    PROVE  Reads(q, <<x>>, WithInsts(p, o, t, h))
  <1>1. PICK v : v = <<k - 1>> \o FlattenSeq(mds)
    OBVIOUS
  <1>2. x = Record(11, v, 0)
    BY <1>1 DEF AttachmentRecord
  <1>3. x.item = "record" /\ x.code = 11 /\ x.vals = v
    BY <1>2, RecordFields
  <1>4. v[1] + 1 = k /\ Pairs(From(v, 2)) = mds
    <2>1. PICK a : a = k - 1
      OBVIOUS
    <2>2. v = <<a>> \o FlattenSeq(mds)
      BY <1>1, <2>1
    <2>3. v[1] = a /\ Pairs(From(v, 2)) = mds
      BY <2>2, PairsAre
    <2> QED
      BY <2>1, <2>3
  <1>5. PICK d, e, b : d = Updated(t, "insts", g) /\ e = Updated(t, "insts", h) /\ b = Append(o, d)
    OBVIOUS
  <1>6. q = Set(p, "bodies", b)
    BY <1>5 DEF WithInsts
  <1>7. "bodies" \in Apart /\ "bodies" \in Fields
    BY ApartAre, FieldsAre
  <1>8. IsReader(p)
    BY DEF In
  <1>9. In(q, 16) /\ IsReader(q) /\ q.bodies = b
    <2>1. IsReader(Set(p, "bodies", b)) /\ Set(p, "bodies", b)["bodies"] = b
      BY <1>7, <1>8, SetFields
    <2>2. In(Set(p, "bodies", b), 16)
      BY <1>7, InSet
    <2> QED
      BY <1>6, <2>1, <2>2
  <1>10. IsBodyRead(d) /\ d["insts"] = g /\ e = Updated(d, "insts", h)
    <2>1. "insts" \in BodyFields
      BY DEF BodyFields
    <2> QED
      BY <1>5, <2>1, UpdatedShape
  <1>11. ASSUME NEW u, Like(u, q)
         PROVE  Took(u, x) = Set(u, "bodies", Append(o, e))
    <2>1. Top(u).id = 16 /\ IsReader(u) /\ u.bodies = Append(o, d)
      BY <1>5, <1>9, <1>11, InTop, LikeFields
    <2>2. Took(u, x) = ReadMetadata(u, x)
      BY <2>1, TookIs
    <2>3. Last(u.bodies) = d
      BY <2>1, EndsAre
    <2>4. [Last(u.bodies).insts EXCEPT ![x.vals[1] + 1].mds = Pairs(From(x.vals, 2))] = h
      <3>1. Last(u.bodies).insts = g
        BY <1>10, <2>3
      <3> QED
        BY <1>3, <1>4, <3>1
    <2>5. ReadMetadata(u, x) = SetBody(u, "insts", h)
      <3>1. ReadMetadata(u, x) =
              SetBody(u, "insts", [Last(u.bodies).insts EXCEPT ![x.vals[1] + 1].mds = Pairs(From(x.vals, 2))])
        BY <1>3, MetadataAttachmentIs
      <3> QED
        BY <2>4, <3>1
    <2>6. SetBody(u, "insts", h) = Set(u, "bodies", Append(o, e))
      BY <1>10, <2>1, SetBodyIs
    <2> QED
      BY <2>2, <2>5, <2>6
  <1>12. PICK w : w = Append(o, e)
    OBVIOUS
  <1>13. Reads(q, <<x>>, Set(q, "bodies", w))
    BY <1>3, <1>7, <1>9, <1>11, <1>12, ReadsSets
  <1>14. Set(q, "bodies", w) = Set(p, "bodies", w)
    BY <1>6, SetSet
  <1>15. WithInsts(p, o, t, h) = Set(p, "bodies", w)
    BY <1>5, <1>12 DEF WithInsts
  <1> QED
    BY <1>13, <1>14, <1>15

\* The block of the attachments.
LEMMA ReadsAttachments ==
    ASSUME NEW r, IsReader(r), IsSeq(r.open), NEW o, IsSeq(o), NEW t, IsBodyRead(t), r.bodies = Append(o, t),
           NEW insts, insts = t.insts, IsSeq(insts), NEW orig, IsSeq(orig), Len(orig) = Len(insts),
           NoneGiven(insts),
           \A k \in 1..Len(insts) : orig[k].mds \in Seq(Nat \X Nat),
           NEW ids, \A k \in 1..Len(insts) : ids[k] = k - 1
    PROVE  Reads(r, AttachmentBlock(ids, orig), WithInsts(r, o, t, Given(insts, orig, Len(insts))))
  <1>1. PICK n, p, b : n = Len(insts) /\ p = Entered(r, 16, 3) /\ b = r.bodies
    OBVIOUS
  <1>2. n \in Nat /\ DOMAIN orig = 1..n
    BY <1>1, SeqShape DEF IsSeq
  <1>3. PICK a : a = Frame(16, 3, Infos(r, 16), NoType)
    OBVIOUS
  <1>4. IsReader(p) /\ p.open = Append(r.open, a) /\ p.bodies = b /\ In(p, 16)
    BY <1>1, <1>3, EnteredIs, InEntered, FieldsAre
  <1>5. PICK G, ss : G = [k \in 0..n |-> WithInsts(p, o, t, Given(insts, orig, k))] /\ ss = AttachmentList(ids, orig)
    OBVIOUS
  <1>6. IsSeq(ss) /\ Len(ss) = n
    <2>1. DOMAIN ss = 1..n /\ ss = [k \in 1..n |-> ss[k]]
      BY <1>2, <1>5 DEF AttachmentList
    <2> QED
      BY <1>2, <2>1, TabulatedSeq
  <1>7. ASSUME NEW k \in 1..n PROVE Reads(G[k - 1], ss[k], G[k])
    <2>1. PICK g, h, mds : g = Given(insts, orig, k - 1) /\ h = Given(insts, orig, k) /\ mds = orig[k].mds
      OBVIOUS
    <2>2. [g EXCEPT ![k].mds = mds] = h /\ (mds = Empty => h = g)
      <3>1. k \in 1..Len(insts)
        BY <1>1
      <3>2. PICK c : c = WithMds(g, k, mds)
        OBVIOUS
      <3>3. c = h /\ (mds = Empty => c = g)
        BY <2>1, <3>1, <3>2, GivenNext
      <3> QED
        BY <3>2, <3>3 DEF WithMds
    <2>3. G[k - 1] = WithInsts(p, o, t, g) /\ G[k] = WithInsts(p, o, t, h)
      BY <1>2, <1>5, <2>1
    <2>4. ss[k] = AttachmentOf(k, ids, mds)
      BY <1>2, <1>5, <2>1 DEF AttachmentList
    <2>5. CASE mds = Empty
      <3>1. ss[k] = Empty
        BY <2>4, <2>5 DEF AttachmentOf, One, Empty
      <3>2. G[k - 1] = G[k]
        BY <2>2, <2>3, <2>5
      <3> QED
        BY <3>1, <3>2, ReadsNone
    <2>6. CASE mds # Empty
      <3>1. PICK x, q : x = AttachmentRecord(k, ids, mds) /\ q = G[k - 1]
        OBVIOUS
      <3>2. ss[k] = <<x>>
        BY <2>4, <2>6, <3>1 DEF AttachmentOf, One, Empty
      <3>3. k \in Nat /\ ids[k] = k - 1 /\ mds \in Seq(Nat \X Nat)
        BY <1>1, <1>2, <2>1
      <3>4. h = [g EXCEPT ![k].mds = mds] /\ q = WithInsts(p, o, t, g)
        BY <2>2, <2>3, <3>1
      <3>5. Reads(q, <<x>>, WithInsts(p, o, t, h))
        BY <1>4, <3>1, <3>3, <3>4, AttachmentRead
      <3> QED
        BY <2>3, <3>1, <3>2, <3>5
    <2> QED
      BY <2>5, <2>6
  <1>8. Reads(G[0], FlattenSeq(ss), G[n])
    <2>1. \A k \in 1..Len(ss) : Reads(G[k - 1], ss[k], G[k])
      BY <1>6, <1>7
    <2>2. Reads(G[0], FlattenSeq(ss), G[Len(ss)])
      BY <1>6, <2>1, ReadsFlat
    <2> QED
      BY <1>6, <2>2
  <1>9. G[0] = p
    <2>1. Given(insts, orig, 0) = insts
      BY GivenNone
    <2>2. Updated(t, "insts", insts) = t
      <3>1. "insts" \in BodyFields
        BY DEF BodyFields
      <3>2. Updated(t, "insts", t["insts"]) = t
        BY <3>1, UpdatedShape
      <3> QED
        BY <3>2
    <2>3. G[0] = Set(p, "bodies", Append(o, t))
      BY <1>2, <1>5, <2>1, <2>2 DEF WithInsts
    <2>4. "bodies" \in Fields
      BY FieldsAre
    <2>5. Set(p, "bodies", p["bodies"]) = p
      BY <1>4, <2>4, SetFields
    <2> QED
      BY <1>1, <1>4, <2>3, <2>5
  <1>10. PICK w, v, s : w = Given(insts, orig, n) /\ v = Append(o, Updated(t, "insts", w)) /\ s = Set(p, "bodies", v)
    OBVIOUS
  <1>11. G[n] = s
    BY <1>2, <1>5, <1>10 DEF WithInsts
  <1>12. PICK items : items = FlattenSeq(ss)
    OBVIOUS
  <1>13. Reads(p, items, s)
    BY <1>8, <1>9, <1>11, <1>12
  <1>14. IsReader(s) /\ s.open = Append(r.open, a)
    <2>1. "bodies" \in Fields /\ "open" \in Fields /\ "open" # "bodies"
      BY FieldsAre
    <2>2. IsReader(Set(p, "bodies", v)) /\ Set(p, "bodies", v)["open"] = p["open"]
      BY <1>4, <2>1, SetFields
    <2> QED
      BY <1>4, <1>10, <2>2
  <1>15. a.id # 12
    BY <1>3, FrameFields
  <1>16. Reads(r, <<Enter(16, 3)>> \o items \o <<Exit>>, Set(s, "open", r.open))
    <2>1. Reads(Entered(r, 16, 3), items, s) /\ 16 # 12
      BY <1>1, <1>13
    <2> QED
      BY <1>14, <1>15, <2>1, ReadsBlock
  <1>17. Set(s, "open", r.open) = Set(r, "bodies", v)
    <2>1. PICK c : c = Append(r.open, a)
      OBVIOUS
    <2>2. p = Set(r, "open", c)
      BY <1>1, <1>3, <2>1 DEF Entered
    <2>3. s = Set(Set(r, "bodies", v), "open", c)
      BY <1>10, <2>2, SetApart
    <2>4. Set(s, "open", r.open) = Set(Set(r, "bodies", v), "open", r.open)
      BY <2>3, SetSet
    <2>5. Set(Set(r, "open", r.open), "bodies", v) = Set(Set(r, "bodies", v), "open", r.open)
      BY SetApart
    <2>6. "open" \in Fields
      BY FieldsAre
    <2>7. Set(r, "open", r.open) = r
      BY <2>6, SetFields
    <2> QED
      BY <2>4, <2>5, <2>7
  <1>18. WithInsts(r, o, t, Given(insts, orig, Len(insts))) = Set(r, "bodies", v)
    BY <1>1, <1>10 DEF WithInsts
  <1>19. AttachmentBlock(ids, orig) = <<Enter(16, 3)>> \o items \o <<Exit>>
    BY <1>5, <1>12 DEF AttachmentBlock
  <1> QED
    BY <1>16, <1>17, <1>18, <1>19

------------------------------------------------------------------------------
(* The end of a body.                                                       *)

LEMMA LeaveBodyIs ==
    ASSUME NEW r, NEW mod, IsModule(mod), NEW past, NEW t, InBody(r, mod, past, t),
           NEW old, old = r.told, NEW u, u = Updated(t, "told", old), NEW w, w = LeaveBody(r)
    PROVE  /\ InBody(w, mod, past, u) /\ w.tys = ModuleTypes(mod) /\ ToldRight(w.told, ModuleTypes(mod))
           /\ u.told = old /\ \A g \in BodyFields : g # "told" => u[g] = t[g]
  <1>1. PICK a, b : a = r.moduleTys /\ b = r.moduleTold
    OBVIOUS
  <1>2. a = ModuleTypes(mod) /\ ToldRight(b, ModuleTypes(mod)) /\ IsReader(r)
    BY <1>1 DEF InBody, Keeping
  <1>3. IsSeq(a)
    BY <1>2, ModuleTypesShape
  <1>4. PICK y : y = Set(Set(r, "tys", a), "told", b)
    OBVIOUS
  <1>5. InBody(y, mod, past, t) /\ y.tys = a /\ y.told = b
    BY <1>3, <1>4, ValuesSetStays
  <1>6. w = SetBody(y, "told", old)
    <2>1. [r EXCEPT !.tys = a, !.told = b] = Set(Set(r, "tys", a), "told", b)
      BY DEF Set
    <2>2. LeaveBody(r) = SetBody([r EXCEPT !.tys = a, !.told = b], "told", old)
      BY <1>1 DEF LeaveBody
    <2> QED
      BY <1>4, <2>1, <2>2
  <1>7. "told" \in BodyFields
    BY DEF BodyFields
  <1>8. /\ InBody(w, mod, past, u) /\ w.tys = y.tys /\ w.told = y.told
        /\ u["told"] = old /\ \A g \in BodyFields : g # "told" => u[g] = t[g]
    BY <1>5, <1>6, <1>7, SetBodyStays
  <1> QED
    BY <1>2, <1>5, <1>8

Left(z, past, t, u, old) == z.bodies = Append(past, u) /\ u.told = old /\ BodySame(t, u, {"told"})

LEMMA BodyLeft ==
    ASSUME NEW r, NEW mod, IsModule(mod), NEW past, NEW t, InBody(r, mod, past, t),
           NEW old, old = r.told, NEW u, u = Updated(t, "told", old), NEW z, z = Read(r, Exit)
    PROVE  Follows(z, "function", mod) /\ Left(z, past, t, u, old)
  <1>1. PICK w : w = LeaveBody(r)
    OBVIOUS
  <1>2. /\ InBody(w, mod, past, u) /\ w.tys = ModuleTypes(mod) /\ ToldRight(w.told, ModuleTypes(mod))
        /\ u.told = old /\ \A g \in BodyFields : g # "told" => u[g] = t[g]
    BY <1>1, LeaveBodyIs
  <1>3. z = Close(w)
    <2>1. Top(r).id = 12
      BY InBodyIs
    <2> QED
      BY <1>1, <2>1 DEF Read, Exit, BlockIDs
  <1>4. PICK a, c, m, o, v : /\ IsSeq(a) /\ m = Frame(8, 3, a, NoType) /\ o = Append(Empty, m)
                             /\ v = Frame(12, 4, c, NoType) /\ w.open = Append(o, v)
    <2>1. OpenInBody(w)
      BY <1>2 DEF InBody
    <2> QED
      BY <2>1 DEF OpenInBody
  <1>5. IsSeq(o)
    BY <1>4, NoneSeq, AppendShape
  <1>6. z = Set(w, "open", o)
    BY <1>3, <1>4, <1>5, TopIs
  <1>7. IsReader(w) /\ Knows(w, mod, ModuleFields) /\ w.bodies = Append(past, u)
    BY <1>2 DEF InBody, Keeping, ReadingAfter
  <1>8. IsReader(z) /\ z["open"] = o /\ \A g \in Fields : g # "open" => z[g] = w[g]
    <2>1. "open" \in Fields
      BY FieldsAre
    <2> QED
      BY <1>6, <1>7, <2>1, SetFields
  <1>9. AtModule(z)
    BY <1>4, <1>8 DEF AtModule
  <1>10. z.tys = w.tys /\ z.told = w.told /\ z.bodies = w.bodies
    BY <1>8, FieldsAre
  <1>11. OpenAt(z, "function")
    BY <1>8, <1>9 DEF OpenAt, AfterModule
  <1>12. ValuesAt(z, "function", mod)
    BY <1>2, <1>10 DEF ValuesAt, BeforeInfo, AfterConstants
  <1>13. Knows(z, mod, DoneAt("function"))
    <2>1. Same(w, z, {"open"})
      BY <1>8 DEF Same
    <2>2. Knows(z, mod, ModuleFields)
      BY <1>7, <2>1, KnowsSame DEF Others
    <2> QED
      BY <2>2 DEF DoneAt
  <1> QED
    BY <1>2, <1>7, <1>10, <1>11, <1>12, <1>13 DEF Follows, BodySame, Left

\* A body that is read: its instructions with their locations and their metadata.
InstsDone(pl, insts, orig) ==
  /\ IsSeq(insts) /\ Len(insts) = Len(orig)
  /\ \A k \in 1..Len(orig) : InstIs(pl, insts[k], orig[k], orig[k].mds)
BodyDone(pl, u, body) == BodyStart(u, body) /\ u.names = body.names /\ InstsDone(pl, u.insts, body.insts)

LEMMA InstsSetStays ==
    ASSUME NEW r, NEW mod, NEW past, NEW t, InBody(r, mod, past, t), NEW w, NEW s, s = WithInsts(r, past, t, w),
           NEW u, u = Updated(t, "insts", w)
    PROVE  /\ InBody(s, mod, past, u) /\ s.told = r.told /\ u.insts = w
           /\ \A g \in BodyFields : g # "insts" => u[g] = t[g]
  <1>1. IsReader(r) /\ IsSeq(past) /\ r.bodies = Append(past, t)
    BY DEF InBody, Keeping, ReadingAfter
  <1>2. s = SetBody(r, "insts", w)
    BY <1>1, SetBodyIs DEF WithInsts
  <1>3. "insts" \in BodyFields
    BY DEF BodyFields
  <1>4. /\ InBody(s, mod, past, u) /\ s.told = r.told /\ u["insts"] = w
        /\ \A g \in BodyFields : g # "insts" => u[g] = t[g]
    BY <1>2, <1>3, SetBodyStays
  <1> QED
    BY <1>4

\* The same before they have metadata.
Plain(pl, insts, orig) == \A k \in 1..Len(orig) : InstIs(pl, insts[k], orig[k], Empty)

LEMMA GivenAre ==
    ASSUME NEW pl, NEW insts, NEW orig, IsSeq(insts), Len(insts) = Len(orig),
           Plain(pl, insts, orig),
           NEW w, w = Given(insts, orig, Len(insts))
    PROVE  InstsDone(pl, w, orig) /\ NoneGiven(insts)
  <1>1. Len(insts) \in Nat /\ w = [k \in 1..Len(insts) |-> w[k]] /\ DOMAIN w = 1..Len(insts)
    BY DEF IsSeq, Given
  <1>2. IsSeq(w) /\ Len(w) = Len(insts)
    BY <1>1, TabulatedSeq
  <1>3. ASSUME NEW k \in 1..Len(orig)
        PROVE  InstIs(pl, w[k], orig[k], orig[k].mds) /\ IsInstRead(insts[k]) /\ insts[k].mds = Empty
    <2>1. PICK e, i, m, h : e = insts[k] /\ i = orig[k] /\ m = i.mds /\ h = w[k]
      OBVIOUS
    <2>2. h = GivenOne(e, m)
      BY <1>1, <2>1 DEF Given
    <2>3. InstIs(pl, e, i, Empty)
      BY <2>1 DEF Plain
    <2>4. h = Set(e, "mds", m)
      BY <2>2 DEF GivenOne, Updated, Set
    <2>5. "mds" \in DOMAIN e /\ DOMAIN e = InstFields
      BY <2>3 DEF InstIs, IsInstRead, InstFields
    <2>6. IsRecord(h) /\ DOMAIN h = InstFields /\ h["mds"] = m /\ \A g \in InstFields : g # "mds" => h[g] = e[g]
      BY <2>4, <2>5, SetShape
    <2>7. h.is = e.is /\ h.dl = e.dl /\ h.values = e.values /\ h.told = e.told
      BY <2>6 DEF InstFields
    <2>9. Right(pl, h, i)
      BY <2>3, <2>7 DEF InstIs, Right
    <2>8. InstIs(pl, h, i, m)
      BY <2>3, <2>6, <2>7, <2>9 DEF InstIs, IsInstRead
    <2> QED
      BY <2>1, <2>3, <2>8 DEF InstIs
  <1>4. InstsDone(pl, w, orig)
    BY <1>2, <1>3 DEF InstsDone
  <1> QED
    BY <1>3, <1>4 DEF NoneGiven

\* The metadata of the instructions is read, if there is any.
Attached(needs, ids, orig) == IF needs THEN AttachmentBlock(ids, orig) ELSE <<>>
MetadataOf(orig) == \A k \in 1..Len(orig) : orig[k].mds \in Seq(Nat \X Nat)
Numbered(ids, n) == \A k \in 1..n : ids[k] = k - 1
NoneUnless(needs, orig) == ~needs => \A k \in 1..Len(orig) : orig[k].mds = Empty
WasAttached(pl, z, told, mod, past, t, orig) ==
  \E u : InBody(z, mod, past, u) /\ z.told = told /\ InstsDone(pl, u.insts, orig) /\ BodySame(t, u, {"insts"})

LEMMA AttachedReads ==
    ASSUME NEW pl, NEW r, NEW mod, NEW past, NEW t, InBody(r, mod, past, t),
           NEW insts, insts = t.insts, NEW orig, IsSeq(orig), IsSeq(insts), Len(insts) = Len(orig),
           Plain(pl, insts, orig),
           MetadataOf(orig), NEW ids, Numbered(ids, Len(orig)),
           NEW needs, NoneUnless(needs, orig),
           NEW items, items = Attached(needs, ids, orig), NEW z, z = ReadAll(r, items)
    PROVE  /\ IsSeq(items)
           /\ WasAttached(pl, z, r.told, mod, past, t, orig)
  <1>1. CASE needs
    <2>1. items = AttachmentBlock(ids, orig)
      BY <1>1 DEF Attached
    <2>2. IsReader(r) /\ IsSeq(r.open) /\ IsSeq(past) /\ IsBodyRead(t) /\ r.bodies = Append(past, t)
      BY InBodyIs DEF InBody, ReadingAfter
    <2>3. PICK w : w = Given(insts, orig, Len(insts))
      OBVIOUS
    <2>4. InstsDone(pl, w, orig) /\ NoneGiven(insts)
      BY <2>3, GivenAre
    <2>5. PICK s : s = WithInsts(r, past, t, w)
      OBVIOUS
    <2>6. Reads(r, items, s)
      <3>1. \A k \in 1..Len(insts) : orig[k].mds \in Seq(Nat \X Nat) /\ ids[k] = k - 1
        BY DEF MetadataOf, Numbered
      <3>2. Reads(r, AttachmentBlock(ids, orig), WithInsts(r, past, t, Given(insts, orig, Len(insts))))
        BY <2>2, <2>4, <3>1, ReadsAttachments
      <3> QED
        BY <2>1, <2>3, <2>5, <3>2
    <2>7. PICK u : u = Updated(t, "insts", w)
      OBVIOUS
    <2>8. /\ InBody(s, mod, past, u) /\ s.told = r.told /\ u.insts = w
          /\ \A g \in BodyFields : g # "insts" => u[g] = t[g]
      BY <2>5, <2>7, InstsSetStays
    <2>9. IsReader(s)
      BY <2>8, InBodyIs
    <2>10. Like(z, s)
      BY <2>2, <2>6, <2>9, ReadsTo
    <2>11. InBody(z, mod, past, u) /\ z.told = r.told
      BY <2>8, <2>10, LikeInBody
    <2>12. BodySame(t, u, {"insts"})
      BY <2>8 DEF BodySame
    <2>13. IsSeq(items)
      BY <2>6 DEF Reads
    <2> QED
      BY <2>4, <2>8, <2>11, <2>12, <2>13 DEF WasAttached
  <1>2. CASE ~needs
    <2>1. items = Empty
      BY <1>2 DEF Attached, Empty
    <2>2. z = r
      BY <2>1, ReadNone
    <2>3. InstsDone(pl, insts, orig)
      BY <1>2 DEF InstsDone, NoneUnless, Plain
    <2>4. BodySame(t, t, {"insts"})
      BY DEF BodySame
    <2> QED
      BY <2>1, <2>2, <2>3, <2>4, NoneSeq DEF WasAttached
  <1> QED
    BY <1>1, <1>2

\* The names are read.
LEMMA NamesOfBody ==
    ASSUME NEW r, NEW mod, NEW past, NEW t, InBody(r, mod, past, t), t.names = Empty,
           NEW names, names \in Seq(NameEntries),
           NEW items, items = WriteValueSymbolTable(names), NEW z, z = ReadAll(r, items)
    PROVE  /\ IsSeq(items)
           /\ \E u : InBody(z, mod, past, u) /\ z.told = r.told /\ u.names = names /\ BodySame(t, u, {"names"})
  <1>1. IsReader(r) /\ IsSeq(r.open) /\ Where(r, "body") /\ Got(r, "body", "names") = Empty
    BY InBodyIs
  <1>2. PICK s, u : s = Put(r, "body", "names", names) /\ u = Updated(t, "names", names)
    OBVIOUS
  <1>3. Reads(r, items, s)
    BY <1>1, <1>2, ReadsSymbolTable
  <1>4. s = Set(r, "bodies", Append(Front(r.bodies), Updated(Last(r.bodies), "names", names)))
    BY <1>2, Zenon DEF Put, PutField, PutValue
  <1>5. "names" \in BodyFields
    BY DEF BodyFields
  <1>6. /\ InBody(s, mod, past, u) /\ s.tys = r.tys /\ s.told = r.told
        /\ u["names"] = names /\ \A g \in BodyFields : g # "names" => u[g] = t[g]
    BY <1>2, <1>4, <1>5, ListSetStays
  <1>7. IsReader(s)
    BY <1>6, InBodyIs
  <1>8. Like(z, s)
    BY <1>1, <1>3, <1>7, ReadsTo
  <1>9. InBody(z, mod, past, u) /\ z.told = r.told
    BY <1>6, <1>8, LikeInBody
  <1>10. BodySame(t, u, {"names"})
    BY <1>6 DEF BodySame
  <1> QED
    BY <1>3, <1>6, <1>9, <1>10 DEF Reads

Ending(names, needs, ids, orig) == WriteValueSymbolTable(names) \o Attached(needs, ids, orig) \o <<Exit>>
Finished(pl, z, past, body, told) == \E u : z.bodies = Append(past, u) /\ BodyDone(pl, u, body) /\ u.told = told

\* What a body ends with is read.
LEMMA BodyEnds ==
    ASSUME NEW pl, NEW mod, IsModule(mod), NEW r, NEW past, NEW t, InBody(r, mod, past, t),
           NEW body, NEW orig, orig = body.insts, IsSeq(orig), MetadataOf(orig),
           NEW last, Tracks(pl, t, body, Len(orig) + 1, last),
           NEW names, names = body.names, names \in Seq(NameEntries),
           NEW ids, Numbered(ids, Len(orig)),
           NEW needs, NoneUnless(needs, orig),
           NEW items, items = Ending(names, needs, ids, orig), NEW z, z = ReadAll(r, items)
    PROVE  IsSeq(items) /\ Follows(z, "function", mod) /\ Finished(pl, z, past, body, r.told)
  <1>1. PICK S, A, E : S = WriteValueSymbolTable(names) /\ A = Attached(needs, ids, orig) /\ E = <<Exit>>
    OBVIOUS
  <1>2. PICK z1, z2 : z1 = ReadAll(r, S) /\ z2 = ReadAll(z1, A)
    OBVIOUS
  <1>3. PICK insts : insts = t.insts
    OBVIOUS
  <1>4. BodyStart(t, body) /\ t.names = Empty /\ IsSeq(insts)
    BY <1>3 DEF Tracks
  <1>5. Len(insts) = Len(orig) /\ Plain(pl, insts, orig)
    <2>1. Len(orig) \in Nat
      BY DEF IsSeq
    <2>2. (Len(orig) + 1) - 1 = Len(orig)
      BY <2>1
    <2> QED
      BY <1>3, <2>2 DEF Tracks, Plain
  <1>6. IsSeq(S)
    BY <1>1, <1>2, <1>4, NamesOfBody
  <1>7. PICK t1 : InBody(z1, mod, past, t1) /\ z1.told = r.told /\ t1.names = names /\ BodySame(t, t1, {"names"})
    BY <1>1, <1>2, <1>4, NamesOfBody
  <1>8. insts = t1.insts
    BY <1>3, <1>7 DEF BodySame, BodyFields
  <1>9. IsSeq(A) /\ WasAttached(pl, z2, z1.told, mod, past, t1, orig)
    <2>1. InBody(z1, mod, past, t1) /\ insts = t1.insts /\ IsSeq(insts)
      BY <1>4, <1>7, <1>8
    <2>2. A = Attached(needs, ids, orig) /\ z2 = ReadAll(z1, A)
      BY <1>1, <1>2
    <2> QED
      BY <1>5, <2>1, <2>2, AttachedReads
  <1>10. PICK t2 : /\ InBody(z2, mod, past, t2) /\ z2.told = z1.told /\ InstsDone(pl, t2.insts, orig)
                   /\ BodySame(t1, t2, {"insts"})
    BY <1>9 DEF WasAttached
  <1>11. PICK old, u, z3 : old = z2.told /\ u = Updated(t2, "told", old) /\ z3 = Read(z2, Exit)
    OBVIOUS
  <1>12. /\ Follows(z3, "function", mod) /\ z3.bodies = Append(past, u)
         /\ u.told = old /\ BodySame(t2, u, {"told"})
    <2>1. InBody(z2, mod, past, t2) /\ IsModule(mod)
      BY <1>10
    <2>2. old = z2.told /\ u = Updated(t2, "told", old) /\ z3 = Read(z2, Exit)
      BY <1>11
    <2>3. Follows(z3, "function", mod)
      BY <2>1, <2>2, BodyLeft
    <2>4. Left(z3, past, t2, u, old)
      BY <2>1, <2>2, BodyLeft
    <2> QED
      BY <2>3, <2>4 DEF Left
  <1>13. IsSeq(items) /\ z = z3
    <2>1. PICK H : H = S \o A
      OBVIOUS
    <2>2. IsSeq(E) /\ ReadAll(z2, E) = z3
      BY <1>1, <1>11, OneSeq, ReadOne
    <2>3. IsSeq(S \o A) /\ ReadAll(r, S \o A) = ReadAll(ReadAll(r, S), A)
      BY <1>6, <1>9, JoinShape, ReadJoin
    <2>4. IsSeq(H) /\ ReadAll(r, H) = z2
      BY <1>2, <2>1, <2>3
    <2>5. IsSeq(H \o E) /\ ReadAll(r, H \o E) = ReadAll(ReadAll(r, H), E)
      BY <2>2, <2>4, JoinShape, ReadJoin
    <2>6. items = H \o E
      BY <1>1, <2>1 DEF Ending
    <2> QED
      BY <2>2, <2>4, <2>5, <2>6
  <1>14. BodyDone(pl, u, body)
    <2>1. u.args = t2.args /\ u.blocks = t2.blocks /\ u.consts = t2.consts /\ u.local = t2.local
            /\ u.names = t2.names /\ u.insts = t2.insts
      BY <1>12 DEF BodyFields, BodySame
    <2>2. t2.args = t1.args /\ t2.blocks = t1.blocks /\ t2.consts = t1.consts /\ t2.local = t1.local
            /\ t2.names = t1.names
      BY <1>10 DEF BodySame, BodyFields
    <2>3. t1.args = t.args /\ t1.blocks = t.blocks /\ t1.consts = t.consts /\ t1.local = t.local
      BY <1>7 DEF BodySame, BodyFields
    <2>4. BodyStart(u, body)
      BY <1>4, <2>1, <2>2, <2>3 DEF BodyStart
    <2> QED
      BY <1>7, <1>10, <2>1, <2>2, <2>4 DEF BodyDone
  <1>15. u.told = r.told
    BY <1>7, <1>10, <1>11, <1>12
  <1> QED
    BY <1>12, <1>13, <1>14, <1>15 DEF Finished

------------------------------------------------------------------------------
(* The values of a function: the module's, its arguments, its constants and *)
(* the instructions that have one.                                          *)

ValuedAt(mod, f) == {k \in 1..Len(mod.bodies[f].insts) : ~isVoid(mod, mod.bodies[f].insts[k].ty)}
\* The types of those of the first k instructions, for every k.
InValueOrder(P, mod, f) ==
  /\ KeptUpTo(P, Tys(mod.bodies[f].insts), ValuedAt(mod, f), Len(mod.bodies[f].insts))
  /\ Kept(LAMBDA ty : ~isVoid(mod, ty), Tys(mod.bodies[f].insts)) = P[Len(mod.bodies[f].insts)]
ValueOrder(mod, f) == CHOOSE P : InValueOrder(P, mod, f)

LEMMA ValueOrderIs ==
    ASSUME NEW mod, NEW f, IsSeq(mod.bodies[f].insts)
    PROVE  InValueOrder(ValueOrder(mod, f), mod, f)
  <1>0. PICK insts : insts = mod.bodies[f].insts
    OBVIOUS
  <1> DEFINE n == Len(insts)
             T == ValuedAt(mod, f)
             list == Tys(insts)
             ss == [k \in DOMAIN list |-> IF ~isVoid(mod, list[k]) THEN <<list[k]>> ELSE Empty]
  <1>1. IsSeq(list) /\ Len(list) = n /\ \A k \in 1..n : list[k] = insts[k].ty
    BY <1>0, TysShape
  <1>2. DOMAIN list = 1..n /\ n \in Nat
    BY <1>1, SeqShape
  <1>3. DOMAIN ss = DOMAIN list /\ ss = [k \in DOMAIN ss |-> ss[k]]
    OBVIOUS
  <1>4. \A k \in 1..n : ss[k] = IF k \in T THEN <<list[k]>> ELSE Empty
    BY <1>0, <1>1, <1>2 DEF ValuedAt
  <1>5. Kept(LAMBDA ty : ~isVoid(mod, ty), list) = FlattenSeq(ss)
    BY DEF Kept, Flat, Map, One, Empty
  <1> HIDE DEF ss, T, list
  <1>6. IsSeq(ss) /\ Len(ss) = n
    BY <1>1, <1>3, MapShape
  <1>7. \E P : KeptUpTo(P, list, T, Len(ss)) /\ FlattenSeq(ss) = P[Len(ss)]
    BY <1>4, <1>6, KeptJoined
  <1>8. \E P : InValueOrder(P, mod, f)
    BY <1>0, <1>5, <1>6, <1>7 DEF InValueOrder, T, list
  <1> QED
    BY <1>8 DEF ValueOrder

FirstValues(mod, f) == (ModuleTypes(mod) \o mod.bodies[f].args) \o Tys(mod.bodies[f].consts)

LEMMA FunctionTypesAre ==
    ASSUME NEW mod, IsModule(mod), NEW f \in 1..Len(mod.functions), mod.functions[f].isproto = 0,
           NEW P, P = ValueOrder(mod, f), NEW n, n = Len(mod.bodies[f].insts)
    PROVE  /\ IsSeq(FirstValues(mod, f)) /\ IsSeq(P[n])
           /\ FunctionValueTypes(mod, f) = FirstValues(mod, f) \o P[n]
           /\ IsSeq(FunctionValueTypes(mod, f))
           /\ Len(FirstValues(mod, f)) = Len(ModuleTypes(mod)) + Len(mod.bodies[f].args) + Len(mod.bodies[f].consts)
           /\ IsBody(mod, f)
  <1>1. PICK body : body = mod.bodies[f]
    OBVIOUS
  <1>2. PICK params : params = ParamTypes(PointedTo(mod, mod.functions[f].ty))
    OBVIOUS
  <1>3. IsBody(mod, f) /\ IsSeq(body.args) /\ IsSeq(body.consts) /\ IsSeq(body.insts)
    BY <1>1, <1>2, BodyParts
  <1>4. PICK a : a = ModuleTypes(mod)
    OBVIOUS
  <1>5. IsSeq(a)
    BY <1>4, ModuleTypesShape
  <1>6. PICK b, c, d : b = body.args /\ c = Tys(body.consts) /\ d = P[n]
    OBVIOUS
  <1>7. IsSeq(b) /\ IsSeq(c) /\ Len(c) = Len(body.consts)
    BY <1>3, <1>6, TysShape
  <1>8. InValueOrder(P, mod, f)
    BY <1>1, <1>3, ValueOrderIs
  <1>9. n \in Nat /\ n \in 0..n
    BY <1>1, <1>3, SeqShape
  <1>10. IsSeq(d)
    BY <1>1, <1>6, <1>8, <1>9 DEF InValueOrder, KeptUpTo
  <1>11. IsSeq(a \o b) /\ Len(a \o b) = Len(a) + Len(b)
    BY <1>5, <1>7, JoinShape
  <1>12. PICK e : e = a \o b
    OBVIOUS
  <1>13. IsSeq(e \o c) /\ Len(e \o c) = Len(e) + Len(c)
    BY <1>7, <1>11, <1>12, JoinShape
  <1>14. PICK g : g = e \o c
    OBVIOUS
  <1>15. IsSeq(g \o d)
    BY <1>10, <1>13, <1>14, JoinShape
  <1>16. FirstValues(mod, f) = g
    BY <1>1, <1>4, <1>6, <1>12, <1>14 DEF FirstValues
  <1>17. FunctionValueTypes(mod, f) = g \o d
    <2>1. Kept(LAMBDA ty : ~isVoid(mod, ty), Tys(mod.bodies[f].insts)) = d
      BY <1>6, <1>8 DEF InValueOrder
    <2>2. FunctionValueTypes(mod, f)
            = ((a \o b) \o c) \o Kept(LAMBDA ty : ~isVoid(mod, ty), Tys(mod.bodies[f].insts))
      BY <1>1, <1>4, <1>6 DEF FunctionValueTypes, Tys, TyOf
    <2> QED
      BY <1>12, <1>14, <2>1, <2>2
  <1>18. Len(g) = Len(a) + Len(b) + Len(body.consts)
    BY <1>7, <1>11, <1>12, <1>13, <1>14
  <1> QED
    BY <1>1, <1>3, <1>4, <1>6, <1>10, <1>13, <1>14, <1>15, <1>16, <1>17, <1>18

------------------------------------------------------------------------------
(* The bodies that are read.                                                *)

BodyIs(u, mod, g) == BodyDone(Place(mod, g), u, mod.bodies[g]) /\ ToldRight(u.told, FunctionValueTypes(mod, g))
\* Those of the functions before f.
BodiesDone(bodies, mod, f) ==
  /\ IsSeq(bodies) /\ Len(bodies) = BodiesBefore(mod.functions, f)
  /\ \A g \in 1..(f - 1) :
       mod.functions[g].isproto = 0 => BodyIs(bodies[BodiesBefore(mod.functions, g) + 1], mod, g)

LEMMA NoBodies ==
    ASSUME NEW mod, IsSeq(mod.functions), NEW list, list = Empty
    PROVE  BodiesDone(list, mod, 1)
  <1>1. IsSeq(list) /\ Len(list) = 0
    BY NoneSeq
  <1>2. BodiesBefore(mod.functions, 1) = 0
    BY NoneBefore
  <1> QED
    BY <1>1, <1>2 DEF BodiesDone

\* Declarations add none.
LEMMA BodiesSkip ==
    ASSUME NEW mod, IsSeq(mod.functions), NEW f \in 1..(Len(mod.functions) + 1), NEW g \in f..(Len(mod.functions) + 1),
           \A h \in f..(g - 1) : mod.functions[h].isproto # 0, NEW list, BodiesDone(list, mod, f)
    PROVE  BodiesDone(list, mod, g)
  <1>1. PICK fs : fs = mod.functions
    OBVIOUS
  <1>2. BodiesBefore(fs, g) = BodiesBefore(fs, f)
    BY <1>1, NoneBetween
  <1>3. Len(fs) \in Nat
    BY <1>1, SeqShape
  <1>4. ASSUME NEW h \in 1..(g - 1), fs[h].isproto = 0
        PROVE  BodyIs(list[BodiesBefore(fs, h) + 1], mod, h)
    <2>1. h \in 1..(f - 1) \/ h \in f..(g - 1)
      BY <1>1, <1>3
    <2>2. h \in 1..(f - 1)
      BY <1>1, <1>4, <2>1
    <2> QED
      BY <1>1, <1>4, <2>2 DEF BodiesDone
  <1> QED
    BY <1>1, <1>2, <1>4 DEF BodiesDone

LEMMA BodyBeforeIs ==
    ASSUME NEW fs, IsSeq(fs), NEW f \in 1..(Len(fs) + 1), NEW g \in 1..(f - 1), fs[g].isproto = 0
    PROVE  BodiesBefore(fs, g) + 1 \in 1..BodiesBefore(fs, f)
  <1> DEFINE P(k) == g + 1 + k <= Len(fs) + 1 =>
               BodiesBefore(fs, g + 1 + k) \in Nat /\ BodiesBefore(fs, g) + 1 <= BodiesBefore(fs, g + 1 + k)
  <1>1. Len(fs) \in Nat /\ g \in 1..Len(fs)
    BY SeqShape
  <1>2. BodiesBefore(fs, g) \in Nat /\ BodiesBefore(fs, g + 1) = BodiesBefore(fs, g) + 1
    BY <1>1, BodiesCount
  <1>3. P(0)
    BY <1>2
  <1>4. ASSUME NEW k \in Nat, P(k) PROVE P(k + 1)
    <2>1. SUFFICES ASSUME g + 1 + (k + 1) <= Len(fs) + 1
                   PROVE  /\ BodiesBefore(fs, g + 1 + (k + 1)) \in Nat
                          /\ BodiesBefore(fs, g) + 1 <= BodiesBefore(fs, g + 1 + (k + 1))
      OBVIOUS
    <2>2. PICK h : h = g + 1 + k
      OBVIOUS
    <2>3. h \in 1..Len(fs) /\ h + 1 = g + 1 + (k + 1)
      BY <1>1, <2>1, <2>2
    <2>4. BodiesBefore(fs, h) \in Nat /\ BodiesBefore(fs, g) + 1 <= BodiesBefore(fs, h)
      BY <1>1, <1>4, <2>1, <2>2, <2>3
    <2>5. BodiesBefore(fs, h + 1) \in {BodiesBefore(fs, h), BodiesBefore(fs, h) + 1}
      BY <2>3, BodiesCount
    <2> QED
      BY <1>2, <2>3, <2>4, <2>5
  <1> HIDE DEF P
  <1>5. \A k \in Nat : P(k)
    <2> DEFINE S == {k \in Nat : P(k)}
    <2>1. 0 \in S /\ \A k \in Nat : k \in S => k + 1 \in S
      BY <1>3, <1>4
    <2> HIDE DEF S
    <2>2. Nat \subseteq S
      BY <2>1, NatSetInduction
    <2> QED
      BY <2>2 DEF S
  <1>6. PICK k \in Nat : g + 1 + k = f
    BY <1>1
  <1>7. P(k)
    BY <1>5
  <1> QED
    BY <1>1, <1>2, <1>6, <1>7 DEF P

\* One more.
LEMMA BodiesMore ==
    ASSUME NEW mod, IsSeq(mod.functions), NEW f \in 1..Len(mod.functions), mod.functions[f].isproto = 0,
           NEW past, BodiesDone(past, mod, f), NEW u, BodyIs(u, mod, f), NEW list, list = Append(past, u)
    PROVE  BodiesDone(list, mod, f + 1)
  <1>1. PICK fs : fs = mod.functions
    OBVIOUS
  <1>2. PICK n : n = BodiesBefore(fs, f)
    OBVIOUS
  <1>3. n \in Nat /\ BodiesBefore(fs, f + 1) = n + 1
    BY <1>1, <1>2, BodiesCount
  <1>4. IsSeq(past) /\ Len(past) = n
    BY <1>1, <1>2 DEF BodiesDone
  <1>5. AppendsOne(list, past, u)
    BY <1>4, AppendIs
  <1>6. IsSeq(list) /\ Len(list) = n + 1 /\ list[n + 1] = u /\ \A k \in 1..n : list[k] = past[k]
    BY <1>4, <1>5 DEF AppendsOne
  <1>7. ASSUME NEW g \in 1..((f + 1) - 1), fs[g].isproto = 0
        PROVE  BodyIs(list[BodiesBefore(fs, g) + 1], mod, g)
    <2>1. g = f \/ g \in 1..(f - 1)
      OBVIOUS
    <2>2. CASE g = f
      BY <1>2, <1>6, <2>2
    <2>3. CASE g \in 1..(f - 1)
      <3>1. Len(fs) \in Nat
        BY <1>1, SeqShape
      <3>2. f \in 1..(Len(fs) + 1)
        BY <1>1, <3>1
      <3>3. BodiesBefore(fs, g) + 1 \in 1..n
        BY <1>1, <1>2, <1>7, <2>3, <3>2, BodyBeforeIs
      <3>4. PICK k : k = BodiesBefore(fs, g) + 1
        OBVIOUS
      <3>5. BodyIs(past[k], mod, g)
        BY <1>1, <1>7, <2>3, <3>4 DEF BodiesDone
      <3>6. list[k] = past[k]
        BY <1>6, <3>3, <3>4
      <3> QED
        BY <3>4, <3>5, <3>6
    <2> QED
      BY <2>1, <2>2, <2>3
  <1> QED
    BY <1>1, <1>3, <1>6, <1>7 DEF BodiesDone

------------------------------------------------------------------------------
(* A step of the writer and what it sends read.                             *)

\* The reader when it has read items, which are counted.
Next_R(r, items, z) == z = [FoldLeft(Read, r, items) EXCEPT !.bytes = r.bytes + Streamed(items)]

LEMMA CountedIs ==
    ASSUME NEW r, NEW items, NEW z, Next_R(r, items, z), IsReader(ReadAll(r, items))
    PROVE  Like(z, ReadAll(r, items)) /\ z.bytes = r.bytes + Streamed(items)
  <1>1. PICK y : y = ReadAll(r, items)
    OBVIOUS
  <1>2. PICK v : v = r.bytes + Streamed(items)
    OBVIOUS
  <1>3. z = Set(y, "bytes", v)
    BY <1>1, <1>2 DEF Set, Next_R, ReadAll
  <1>4. "bytes" \in Fields /\ IsReader(y)
    BY <1>1, FieldsAre
  <1>5. IsReader(Set(y, "bytes", v)) /\ Set(y, "bytes", v)["bytes"] = v
          /\ \A f \in Fields : f # "bytes" => Set(y, "bytes", v)[f] = y[f]
    BY <1>4, SetFields
  <1>6. IsReader(z) /\ z["bytes"] = v /\ \A f \in Fields : f # "bytes" => z[f] = y[f]
    BY <1>3, <1>5, Zenon
  <1>7. Like(z, y)
    BY <1>6 DEF Like
  <1> QED
    BY <1>1, <1>2, <1>6, <1>7

LEMMA StageRead ==
    ASSUME NEW q, NEW here, NEW mod, Follows(q, here, mod), NEW items, NEW next, Stage(q, items, here, next, mod),
           NEW z, Next_R(q, items, z)
    PROVE  Follows(z, next, mod) /\ z.bodies = q.bodies /\ IsSeq(items)
  <1>1. PICK s : IsReader(s) /\ Reads(q, items, s) /\ Follows(s, next, mod) /\ s.bodies = q.bodies
    BY DEF Stage
  <1>2. IsReader(q)
    BY FollowsIs
  <1>3. z = [FoldLeft(Read, q, items) EXCEPT !.bytes = q.bytes + Streamed(items)]
    BY DEF Next_R
  <1>4. Like(z, s) /\ z.bytes = q.bytes + Streamed(items)
    BY <1>1, <1>2, <1>3, StepReads
  <1>5. Follows(z, next, mod)
    BY <1>1, <1>4, LikeFollows
  <1>6. z.bodies = s.bodies
    BY <1>4, LikeFields
  <1>7. IsSeq(items)
    BY <1>1 DEF Reads
  <1> QED
    BY <1>1, <1>4, <1>5, <1>6, <1>7

\* The body of function f is read, instruction i is next.
BodyAt(r, mod, f, i, last) ==
  /\ \E past, t : BodiesDone(past, mod, f) /\ InBody(r, mod, past, t) /\ Tracks(Place(mod, f), t, mod.bodies[f], i, last)
  /\ ToldRight(r.told, FunctionValueTypes(mod, f))

LEMMA BodyAtLike ==
    ASSUME NEW r, NEW mod, NEW f, NEW i, NEW last, BodyAt(r, mod, f, i, last), NEW z, Like(z, r)
    PROVE  BodyAt(z, mod, f, i, last) /\ z.tys = r.tys
  <1>1. PICK past, t : BodiesDone(past, mod, f) /\ InBody(r, mod, past, t) /\ Tracks(Place(mod, f), t, mod.bodies[f], i, last)
    BY DEF BodyAt
  <1>2. InBody(z, mod, past, t) /\ z.tys = r.tys /\ z.told = r.told
    BY <1>1, LikeInBody
  <1> QED
    BY <1>1, <1>2 DEF BodyAt

BeginsBody(items, mod, f, last) == items = Beginning(mod, mod.bodies[f], FunctionValueTypes(mod, f), last)
StartedBody(z, mod, f) == BodyAt(z, mod, f, 1, Unknown) /\ z.tys = FirstValues(mod, f)

LEMMA BodyBegun ==
    ASSUME NEW mod, IsModule(mod), NEW f \in 1..Len(mod.functions), mod.functions[f].isproto = 0,
           NEW q, Follows(q, "function", mod), BodiesDone(q.bodies, mod, f),
           NEW last, NEW items, BeginsBody(items, mod, f, last), NEW z, Next_R(q, items, z)
    PROVE  StartedBody(z, mod, f) /\ IsSeq(items)
  <1>0. PICK body, tys : body = mod.bodies[f] /\ tys = FunctionValueTypes(mod, f)
    OBVIOUS
  <1>00. items = Beginning(mod, body, tys, last)
    BY <1>0 DEF BeginsBody
  <1>1. PICK past : past = q.bodies
    OBVIOUS
  <1>2. BeforeBody(q, mod, f, past)
    BY <1>1 DEF BeforeBody, BodiesDone
  <1>3. IsSeq(tys)
    BY <1>0, FunctionTypesAre
  <1>4. PICK y : y = ReadAll(q, items)
    OBVIOUS
  <1>5. Begun(y, mod, past, body, tys) /\ IsSeq(items)
    BY <1>0, <1>00, <1>2, <1>3, <1>4, BodyBegins
  <1>6. PICK t : InBody(y, mod, past, t) /\ BodyHead(t, body)
    BY <1>5 DEF Begun
  <1>7. IsReader(y)
    BY <1>6, InBodyIs
  <1>8. Like(z, y)
    BY <1>4, <1>7, CountedIs
  <1>9. Tracks(Place(mod, f), t, body, 1, Unknown)
    BY <1>6, TracksFromStart
  <1>10. BodiesDone(past, mod, f)
    BY <1>1
  <1>11. BodyAt(y, mod, f, 1, Unknown)
    BY <1>0, <1>5, <1>6, <1>9, <1>10 DEF BodyAt, Begun
  <1>12. BodyAt(z, mod, f, 1, Unknown) /\ z.tys = y.tys
    BY <1>8, <1>11, BodyAtLike
  <1> QED
    BY <1>0, <1>5, <1>12 DEF FirstValues, Begun, StartedBody

LEMMA BodyGoesOn ==
    ASSUME NEW mod, NEW f, NEW i \in Nat \ {0}, NEW last, NEW r, BodyAt(r, mod, f, i, last),
           NEW inst, inst = mod.bodies[f].insts[i], inst.op \in Opcodes, IsLocation(inst.dl),
           NEW x, x.item = "record", x.code = FunctionCodes[inst.op], ReadsRight(Place(mod, f), r, x, inst),
           NEW loc, loc = Locating(inst.dl, last), NEW items, items = <<x>> \o loc,
           NEW now, now = (IF inst.dl = Unknown THEN last ELSE inst.dl),
           NEW z, Next_R(r, items, z)
    PROVE  BodyAt(z, mod, f, i + 1, now) /\ IsSeq(items) /\ \E s : Like(s, r) /\ Grew(s, x, z)
  <1>0. PICK pl : pl = Place(mod, f)
    OBVIOUS
  <1>1. PICK past, t : BodiesDone(past, mod, f) /\ InBody(r, mod, past, t) /\ Tracks(pl, t, mod.bodies[f], i, last)
    BY <1>0 DEF BodyAt
  <1>2. PICK y : y = ReadAll(r, items)
    OBVIOUS
  <1>3. PICK body : body = mod.bodies[f]
    OBVIOUS
  <1>4. Tracks(pl, t, body, i, last) /\ inst = body.insts[i]
    BY <1>1, <1>3
  <1>13. ReadsRight(pl, r, x, inst)
    BY <1>0
  <1>14. InBody(r, mod, past, t) /\ y = ReadAll(r, items)
    BY <1>1, <1>2
  <1>5. WasRead(pl, y, r, x, mod, past, body, i, now)
    BY <1>4, <1>13, <1>14, InstructionRead
  <1>15. IsSeq(items)
    <2>1. IsSeq(<<x>>) /\ IsSeq(Empty)
      BY OneSeq, NoneSeq
    <2>2. loc = Empty \/ \E u : loc = <<u>>
      BY DEF Locating, Empty
    <2>3. IsSeq(loc)
      BY <2>1, <2>2, OneSeq
    <2> QED
      BY <2>1, <2>3, JoinShape
  <1>6. PICK s, u, v : /\ Like(s, r) /\ Grew(s, x, v) /\ y.tys = v.tys /\ y.told = r.told
                       /\ InBody(y, mod, past, u)
                       /\ Tracks(pl, u, body, i + 1, now)
    BY <1>5 DEF WasRead
  <1>7. Tracks(pl, u, mod.bodies[f], i + 1, now)
    BY <1>3, <1>6
  <1>8. BodyAt(y, mod, f, i + 1, now)
    BY <1>0, <1>1, <1>6, <1>7 DEF BodyAt
  <1>9. IsReader(y)
    BY <1>6, InBodyIs
  <1>10. Like(z, y)
    BY <1>2, <1>9, CountedIs
  <1>11. BodyAt(z, mod, f, i + 1, now) /\ z.tys = y.tys
    BY <1>8, <1>10, BodyAtLike
  <1>12. Grew(s, x, z)
    BY <1>6, <1>11 DEF Grew
  <1> QED
    BY <1>6, <1>11, <1>12, <1>15

LEMMA BodyFinished ==
    ASSUME NEW mod, IsModule(mod), NEW f \in 1..Len(mod.functions), mod.functions[f].isproto = 0, NEW last,
           NEW orig, orig = mod.bodies[f].insts, NEW r, BodyAt(r, mod, f, Len(orig) + 1, last),
           NEW names, names = mod.bodies[f].names, NEW ids, Numbered(ids, Len(orig)),
           NEW needs, NoneUnless(needs, orig),
           NEW items, items = Ending(names, needs, ids, orig), NEW z, Next_R(r, items, z)
    PROVE  Follows(z, "function", mod) /\ BodiesDone(z.bodies, mod, f + 1) /\ IsSeq(items)
  <1>0. PICK pl : pl = Place(mod, f)
    OBVIOUS
  <1>1. PICK past, t : BodiesDone(past, mod, f) /\ InBody(r, mod, past, t) /\ Tracks(pl, t, mod.bodies[f], Len(orig) + 1, last)
    BY <1>0 DEF BodyAt
  <1>2. IsBody(mod, f)
    BY FunctionTypesAre
  <1>3. names \in Seq(NameEntries) /\ IsSeq(orig)
    BY <1>2 DEF IsBody
  <1>4. MetadataOf(orig)
    <2>1. DOMAIN orig = 1..Len(orig)
      BY <1>3, SeqShape
    <2>2. \A k \in DOMAIN orig : IsInstruction(mod, FunctionValueTypes(mod, f), orig[k])
      BY <1>2 DEF IsBody
    <2>3. \A k \in DOMAIN orig : orig[k].mds \in Seq(Nat \X Nat)
      BY <2>2 DEF IsInstruction
    <2> QED
      BY <2>1, <2>3 DEF MetadataOf
  <1>5. PICK body : body = mod.bodies[f]
    OBVIOUS
  <1>6. orig = body.insts /\ names = body.names /\ Tracks(pl, t, body, Len(orig) + 1, last)
    BY <1>1, <1>5
  <1>7. PICK y : y = ReadAll(r, items)
    OBVIOUS
  <1>8. Follows(y, "function", mod) /\ Finished(pl, y, past, body, r.told) /\ IsSeq(items)
    BY <1>1, <1>3, <1>4, <1>6, <1>7, BodyEnds
  <1>9. PICK u : y.bodies = Append(past, u) /\ BodyDone(pl, u, body) /\ u.told = r.told
    BY <1>8 DEF Finished
  <1>10. BodyIs(u, mod, f)
    BY <1>0, <1>5, <1>9 DEF BodyIs, BodyAt
  <1>11. IsSeq(mod.functions)
    BY SeqIs DEF IsModule
  <1>12. PICK list : list = y.bodies
    OBVIOUS
  <1>13. BodiesDone(list, mod, f + 1)
    BY <1>1, <1>9, <1>10, <1>11, <1>12, BodiesMore
  <1>14. IsReader(y)
    BY <1>8, FollowsIs
  <1>15. Like(z, y)
    BY <1>7, <1>14, CountedIs
  <1>16. z.bodies = list
    BY <1>12, <1>15, LikeFields
  <1>17. Follows(z, "function", mod)
    BY <1>8, <1>15, LikeFollows
  <1> QED
    BY <1>8, <1>13, <1>16, <1>17

------------------------------------------------------------------------------
(* One operand: the number of a value is found from how far back it is.     *)

\* A number less than p and a multiple of p apart from it.
LEMMA Residue ==
    ASSUME NEW p \in Nat \ {0}, NEW v \in Nat, v < p, NEW q \in Int, NEW a \in Int, a = v + q * p
    PROVE  a % p = v
  <1>1. PICK d, m : d = a \div p /\ m = a % p
    OBVIOUS
  <1>2. d \in Int /\ m \in Int /\ 0 <= m /\ m < p /\ a = p * d + m
    BY <1>1
  <1>3. PICK e : e = d - q
    OBVIOUS
  <1>4. e \in Int /\ v - m = e * p
    BY <1>2, <1>3
  <1>5. CASE e = 0
    BY <1>1, <1>2, <1>4, <1>5
  <1>6. CASE e >= 1
    <2>1. PICK k : k = e - 1
      OBVIOUS
    <2>2. k \in Nat /\ e * p = k * p + p /\ k * p \in Nat
      BY <1>4, <1>6, <2>1
    <2> QED
      BY <1>2, <1>4, <2>2
  <1>7. CASE e <= -1
    <2>1. PICK k : k = -e - 1
      OBVIOUS
    <2>2. k \in Nat /\ e * p = -(k * p) - p /\ k * p \in Nat
      BY <1>4, <1>7, <2>1
    <2> QED
      BY <1>2, <1>4, <2>2
  <1> QED
    BY <1>4, <1>5, <1>6, <1>7

\* The value is found, though the difference was taken modulo a multiple of the modulus.
LEMMA DistanceReads ==
    ASSUME NEW p \in Nat \ {0}, NEW m \in Nat \ {0}, NEW s \in Nat \ {0}, s = m * p,
           NEW n \in Nat, n < p, NEW v \in Nat, v < p, NEW rel, rel = (n - v) % s
    PROVE  (n - rel) % p = v
  <1>1. p <= s
    <2>1. PICK k : k = m - 1
      OBVIOUS
    <2>2. k \in Nat /\ m * p = k * p + p /\ k * p \in Nat
      BY <2>1
    <2> QED
      BY <2>2
  <1>2. CASE v <= n
    <2>1. n - v \in Nat /\ n - v < s /\ n - v = (n - v) + 0 * s
      BY <1>1, <1>2
    <2>2. rel = n - v
      <3>1. PICK a : a = n - v
        OBVIOUS
      <3>2. a % s = a
        BY <2>1, <3>1, Residue
      <3> QED
        BY <3>1, <3>2
    <2>3. v = v + 0 * p /\ v \in Int /\ 0 \in Int
      OBVIOUS
    <2>4. v % p = v
      BY <2>3, Residue
    <2> QED
      BY <2>2, <2>4
  <1>3. CASE v > n
    <2>1. PICK a, b : a = n - v /\ b = a + s
      OBVIOUS
    <2>2. a \in Int /\ b \in Nat /\ b < s /\ a = b + (-1) * s
      BY <1>1, <1>3, <2>1
    <2>3. rel = b
      BY <2>1, <2>2, Residue
    <2>4. PICK c : c = n - rel
      OBVIOUS
    <2>5. c \in Int /\ -m \in Int /\ c = v + (-m) * p
      BY <2>1, <2>2, <2>3, <2>4
    <2>6. c % p = v
      BY <2>5, Residue
    <2> QED
      BY <2>4, <2>6
  <1> QED
    BY <1>2, <1>3

\* A reader that has the next values to number.
Numbering(r, tys, id) == Len(r.tys) = id /\ id \in Nat /\ id <= Len(tys) /\ Len(tys) \in Nat /\ Len(tys) < 2 ^ Width

LEMMA RelativeReads ==
    ASSUME NEW r, NEW tys, NEW id, Numbering(r, tys, id), NEW v \in 0..(Len(tys) - 1), NEW w, w = Width \/ w = 2 * Width
    PROVE  Absolute(r, Relative(v, id, w)) = v
  <1>1. PICK p, s : p = 2 ^ Width /\ s = 2 ^ w
    OBVIOUS
  <1>2. p \in Nat \ {0} /\ s \in Nat \ {0}
    <2>1. Width \in Nat /\ w \in Nat
      BY WidthIs
    <2>2. 2 ^ Width \in Nat /\ 2 ^ Width > 0 /\ 2 ^ w \in Nat /\ 2 ^ w > 0
      BY <2>1, PowerNat
    <2> QED
      BY <1>1, <2>2
  <1>3. \E m \in Nat \ {0} : s = m * p
    <2>1. CASE w = Width
      <3>1. s = 1 * p /\ 1 \in Nat \ {0}
        BY <1>1, <1>2, <2>1
      <3> QED
        BY <3>1
    <2>2. CASE w = 2 * Width
      <3>1. Width \in Nat /\ w = Width + Width
        BY <2>2, WidthIs
      <3>2. s = p * p
        BY <1>1, <3>1, PowerSum
      <3> QED
        BY <1>2, <3>2
    <2> QED
      BY <2>1, <2>2
  <1>4. PICK m \in Nat \ {0} : s = m * p
    BY <1>3
  <1>5. v \in Nat /\ v < p /\ id \in Nat /\ id < p
    BY <1>1, <1>2 DEF Numbering
  <1>6. PICK rel : rel = (id - v) % s
    OBVIOUS
  <1>7. (id - rel) % p = v
    BY <1>2, <1>4, <1>5, <1>6, DistanceReads
  <1> QED
    BY <1>1, <1>6, <1>7 DEF Absolute, Relative, Numbering

LEMMA SignedDistanceReads ==
    ASSUME NEW r, NEW tys, NEW id, Numbering(r, tys, id), NEW v \in 0..(Len(tys) - 1)
    PROVE  Absolute(r, FromSigned(emitSignedInt64(id - v))) = v
  <1>1. PICK p, h : p = 2 ^ Width /\ h = 2 ^ (2 * Width - 1)
    OBVIOUS
  <1>2. p < h /\ p \in Nat \ {0} /\ h \in Nat
    <2>1. PICK e : e = 2 * Width - 1
      OBVIOUS
    <2>2. Width \in Nat /\ e \in Nat /\ Width < e
      BY <2>1, WidthIs
    <2>3. 2 ^ Width < 2 ^ e
      BY <2>2, PowerGrows
    <2>4. 2 ^ Width \in Nat /\ 2 ^ Width > 0 /\ 2 ^ e \in Nat
      BY <2>2, PowerNat
    <2> QED
      BY <1>1, <2>1, <2>3, <2>4
  <1>3. PICK d : d = id - v
    OBVIOUS
  <1>4. d \in (-h)..(h - 1) /\ v \in Nat /\ v < p /\ id - d = v
    BY <1>1, <1>2, <1>3 DEF Numbering
  <1>5. FromSigned(emitSignedInt64(d)) = d
    BY <1>1, <1>4, SignedReads DEF Integers64
  <1>6. v % p = v
    BY <1>2, <1>4
  <1> QED
    BY <1>1, <1>3, <1>4, <1>5, <1>6 DEF Absolute, Numbering

\* What was read so far of a record.
Found(pos, values, told) == [pos |-> pos, values |-> values, told |-> told]

LEMMA FoundIs ==
    ASSUME NEW a, NEW b, NEW t
    PROVE  /\ Found(a, b, t).pos = a /\ Found(a, b, t).values = b /\ Found(a, b, t).told = t
           /\ \A n : ReadNumber(Found(a, b, t), n) = Found(a + 1, Append(b, n), t)
  <1>1. Found(a, b, t).pos = a /\ Found(a, b, t).values = b /\ Found(a, b, t).told = t
    BY DEF Found
  <1>2. ASSUME NEW n PROVE ReadNumber(Found(a, b, t), n) = Found(a + 1, Append(b, n), t)
    <2>1. PICK m, d : m = a + 1 /\ d = Append(b, n)
      OBVIOUS
    <2>2. PICK c : c = Found(a, b, t)
      OBVIOUS
    <2>3. [c EXCEPT !.pos = m] = Found(m, b, t)
      BY <2>2 DEF Found
    <2>4. PICK e : e = Found(m, b, t)
      OBVIOUS
    <2>5. [e EXCEPT !.values = d] = Found(m, d, t)
      BY <2>4 DEF Found
    <2>6. ReadNumber(c, n) = [[c EXCEPT !.pos = m] EXCEPT !.values = d]
      BY <1>1, <2>1, <2>2 DEF ReadNumber
    <2> QED
      BY <2>1, <2>2, <2>3, <2>4, <2>5, <2>6
  <1> QED
    BY <1>1, <1>2

\* What is pushed fits the kind of operand that is read.
OperandFits(kind, s, n) ==
  \/ kind = "vt" /\ s.push = "PushValueAndType" /\ s.n \in 0..(n - 1)
  \/ kind = "v" /\ s.push \in {"pushValue", "pushValue64"} /\ s.n \in 0..(n - 1)
  \/ kind = "vs" /\ s.push = "pushValueSigned" /\ s.n \in 0..(n - 1)
  \/ kind = "n" /\ s.push = "push_back"
\* The record has p from position a on.
LiesAt(vals, a, p) ==
  /\ IsSeq(vals) /\ a \in Nat \ {0} /\ IsSeq(p) /\ a + Len(p) - 1 <= Len(vals)
  /\ \A j \in 1..Len(p) : vals[a + j - 1] = p[j]
\* An operand is read where it lies.
ReadsOperand(r, x, kind, tys, s, p, a) ==
  \A b, t : ToldRight(t, tys) =>
    \E u : ToldRight(u, tys) /\ ReadOperand(r, x, kind, Found(a, b, t)) = Found(a + Len(p), Append(b, s.n), u)

LEMMA NumberReads2 ==
    ASSUME NEW r, NEW x, NEW tys, NEW s, NEW n, NEW p, p = <<n>>, NEW a, LiesAt(x.vals, a, p),
           NEW kind, kind \in {"v", "vs", "n"},
           s.n = (CASE kind = "v" -> Absolute(r, n) [] kind = "vs" -> Absolute(r, FromSigned(n)) [] kind = "n" -> n)
    PROVE  ReadsOperand(r, x, kind, tys, s, p, a) /\ Len(p) = 1
  <1>1. Len(p) = 1 /\ p[1] = n
    BY OneSeq
  <1>2. a \in Nat \ {0} /\ a <= Len(x.vals) /\ x.vals[a] = n
    BY <1>1 DEF LiesAt
  <1> SUFFICES ASSUME NEW b, NEW t, ToldRight(t, tys)
               PROVE  ReadOperand(r, x, kind, Found(a, b, t)) = Found(a + 1, Append(b, s.n), t)
    BY <1>1 DEF ReadsOperand
  <1>3. PICK c : c = Found(a, b, t)
    OBVIOUS
  <1>4. c.pos = a
    BY <1>3, FoundIs
  <1>5. Len(x.vals) \in Nat
    BY SeqShape DEF LiesAt
  <1>6. ~(c.pos > Len(x.vals))
    BY <1>2, <1>4, <1>5
  <1>7. ReadOperand(r, x, kind, c) = ReadNumber(c, s.n)
    BY <1>2, <1>4, <1>6 DEF ReadOperand
  <1> QED
    BY <1>3, <1>7, FoundIs

LEMMA TypedReads ==
    ASSUME NEW r, NEW x, NEW tys, NEW id, Numbering(r, tys, id), NEW s, s.n \in 0..(Len(tys) - 1),
           NEW p, p = <<Relative(s.n, id, Width)>> \o One(Forward(s.n, id), TypeOf(tys, s.n)),
           NEW a, LiesAt(x.vals, a, p)
    PROVE  ReadsOperand(r, x, "vt", tys, s, p, a) /\ Len(p) >= 1
  <1>1. PICK n, v : n = Relative(s.n, id, Width) /\ v = s.n
    OBVIOUS
  <1>2. Absolute(r, n) = v /\ v \in 0..(Len(tys) - 1)
    BY <1>1, RelativeReads
  <1>3. Len(r.tys) = id /\ id \in Nat /\ Len(tys) \in Nat
    BY DEF Numbering
  <1>4. IsSeq(x.vals) /\ Len(x.vals) \in Nat /\ a \in Nat \ {0}
    BY SeqShape DEF LiesAt
  <1>5. CASE v < id
    <2>1. p = <<n>> \o Empty
      <3>1. ~Forward(v, id)
        BY <1>2, <1>3, <1>5 DEF Forward
      <3>2. One(Forward(v, id), TypeOf(tys, v)) = Empty
        BY <3>1 DEF One, Empty
      <3> QED
        BY <1>1, <3>2
    <2>2. p = <<n>> /\ Len(p) = 1 /\ p[1] = n
      BY <2>1, OneSeq, NoneJoined
    <2>3. a <= Len(x.vals) /\ x.vals[a] = n
      BY <1>4, <2>2 DEF LiesAt
    <2> SUFFICES ASSUME NEW b, NEW t, ToldRight(t, tys)
                 PROVE  ReadOperand(r, x, "vt", Found(a, b, t)) = Found(a + 1, Append(b, v), t)
      BY <1>1, <2>2 DEF ReadsOperand
    <2>4. PICK c : c = Found(a, b, t)
      OBVIOUS
    <2>5. c.pos = a
      BY <2>4, FoundIs
    <2>6. ~(c.pos > Len(x.vals))
      BY <1>4, <2>3, <2>5
    <2>7. ReadOperand(r, x, "vt", c) = ReadTyped(r, x, c, v)
      BY <1>2, <2>3, <2>5, <2>6 DEF ReadOperand
    <2>8. ReadTyped(r, x, c, v) = ReadNumber(c, v)
      BY <1>3, <1>5 DEF ReadTyped
    <2> QED
      BY <2>4, <2>7, <2>8, FoundIs
  <1>6. CASE v >= id
    <2>1. PICK ty : ty = TypeOf(tys, v)
      OBVIOUS
    <2>2. p = <<n>> \o <<ty>>
      BY <1>1, <1>6, <2>1 DEF One, Forward
    <2>3. Len(p) = 2 /\ p[1] = n /\ p[2] = ty
      <3>1. <<n>> \o <<ty>> = <<n, ty>> /\ Len(<<n, ty>>) = 2 /\ <<n, ty>>[1] = n /\ <<n, ty>>[2] = ty
        BY TwoSeq
      <3> QED
        BY <2>2, <3>1, Zenon
    <2>4. a + 1 <= Len(x.vals) /\ x.vals[a] = n /\ x.vals[a + 1] = ty
      <3>1. a + 2 - 1 <= Len(x.vals) /\ x.vals[a + 1 - 1] = p[1] /\ x.vals[a + 2 - 1] = p[2]
        BY <2>3 DEF LiesAt
      <3>2. a + 2 - 1 = a + 1 /\ a + 1 - 1 = a
        BY <1>4
      <3> QED
        BY <2>3, <3>1, <3>2
    <2> SUFFICES ASSUME NEW b, NEW t, ToldRight(t, tys)
                 PROVE  \E u : ToldRight(u, tys) /\ ReadOperand(r, x, "vt", Found(a, b, t)) = Found(a + 2, Append(b, v), u)
      BY <1>1, <2>3 DEF ReadsOperand
    <2>5. PICK c : c = Found(a, b, t)
      OBVIOUS
    <2>6. c.pos = a /\ c.values = b /\ c.told = t
      BY <2>5, FoundIs
    <2>7. ~(c.pos > Len(x.vals))
      BY <1>4, <2>4, <2>6
    <2>8. ReadOperand(r, x, "vt", c) = ReadTyped(r, x, c, v)
      BY <1>2, <2>4, <2>6, <2>7 DEF ReadOperand
    <2>9. At(x.vals, c.pos + 1, NoType) = ty
      BY <2>4, <2>6 DEF At
    <2>10. PICK u : u = t \cup {<<v, ty>>}
      OBVIOUS
    <2>11. ReadTyped(r, x, c, v) = Found(a + 2, Append(b, v), u)
      <3>1. ~(v < Len(r.tys))
        BY <1>2, <1>3, <1>6
      <3> QED
        BY <2>6, <2>9, <2>10, <3>1 DEF ReadTyped, Found
    <2>12. ToldRight(u, tys)
      <3>1. <<v, ty>>[1] = v /\ <<v, ty>>[2] = ty
        OBVIOUS
      <3>2. \A w \in u : w \in t \/ w = <<v, ty>>
        BY <2>10
      <3>3. v < Len(tys)
        BY <1>2, <1>3
      <3> QED
        BY <2>1, <3>1, <3>2, <3>3 DEF ToldRight
    <2> QED
      BY <2>5, <2>8, <2>11, <2>12
  <1> QED
    BY <1>2, <1>3, <1>5, <1>6

LEMMA OperandIsRead ==
    ASSUME NEW r, NEW x, NEW tys, NEW id, Numbering(r, tys, id), NEW s, NEW kind, OperandFits(kind, s, Len(tys)),
           NEW p, p = Push(tys, id, s), NEW a, LiesAt(x.vals, a, p)
    PROVE  ReadsOperand(r, x, kind, tys, s, p, a) /\ Len(p) >= 1
  <1>1. PICK v : v = s.n
    OBVIOUS
  <1>2. CASE kind = "vt" /\ s.push = "PushValueAndType" /\ v \in 0..(Len(tys) - 1)
    <2>1. p = <<Relative(s.n, id, Width)>> \o One(Forward(s.n, id), TypeOf(tys, s.n))
      BY <1>2 DEF Push
    <2> QED
      BY <1>1, <1>2, <2>1, TypedReads
  <1>3. CASE kind = "v" /\ s.push = "pushValue" /\ v \in 0..(Len(tys) - 1)
    <2>1. PICK n : n = Relative(v, id, Width)
      OBVIOUS
    <2>2. p = <<n>>
      BY <1>1, <1>3, <2>1 DEF Push
    <2>3. Absolute(r, n) = v
      BY <1>3, <2>1, RelativeReads
    <2> QED
      BY <1>1, <1>3, <2>2, <2>3, NumberReads2
  <1>4. CASE kind = "v" /\ s.push = "pushValue64" /\ v \in 0..(Len(tys) - 1)
    <2>1. PICK w, n : w = 2 * Width /\ n = Relative(v, id, w)
      OBVIOUS
    <2>2. p = <<n>>
      BY <1>1, <1>4, <2>1 DEF Push
    <2>3. Absolute(r, n) = v
      BY <1>4, <2>1, RelativeReads
    <2> QED
      BY <1>1, <1>4, <2>2, <2>3, NumberReads2
  <1>5. CASE kind = "vs" /\ s.push = "pushValueSigned" /\ v \in 0..(Len(tys) - 1)
    <2>1. PICK n : n = emitSignedInt64(id - v)
      OBVIOUS
    <2>2. p = <<n>>
      BY <1>1, <1>5, <2>1 DEF Push
    <2>3. Absolute(r, FromSigned(n)) = v
      BY <1>5, <2>1, SignedDistanceReads
    <2> QED
      BY <1>1, <1>5, <2>2, <2>3, NumberReads2
  <1>6. CASE kind = "n" /\ s.push = "push_back"
    <2>1. p = <<v>>
      BY <1>1, <1>6 DEF Push
    <2> QED
      BY <1>1, <1>6, <2>1, NumberReads2
  <1> QED
    BY <1>1, <1>2, <1>3, <1>4, <1>5, <1>6 DEF OperandFits

------------------------------------------------------------------------------
(* The operands of a record, one after the other.                           *)

\* Each of the sequences ss lies in what they make together, where those before it end.
LiesEach(P, ss, m) ==
  IsSeq(P[m]) /\ \A k \in 1..m : LiesAt(P[m], Len(P[k - 1]) + 1, ss[k]) /\ Len(P[k]) = Len(P[k - 1]) + Len(ss[k])

LEMMA LiesStill ==
    ASSUME NEW vals, NEW a, NEW p, LiesAt(vals, a, p), NEW c, IsSeq(c), NEW z, z = vals \o c
    PROVE  LiesAt(z, a, p)
  <1>1. IsSeq(vals) /\ a \in Nat \ {0} /\ IsSeq(p) /\ a + Len(p) - 1 <= Len(vals)
    BY DEF LiesAt
  <1>2. Len(vals) \in Nat /\ Len(p) \in Nat /\ Len(c) \in Nat
    BY <1>1, SeqShape
  <1>3. IsSeq(z) /\ Len(z) = Len(vals) + Len(c) /\ \A k \in 1..Len(vals) : z[k] = vals[k]
    BY <1>1, JoinShape
  <1>4. ASSUME NEW j \in 1..Len(p) PROVE z[a + j - 1] = p[j]
    <2>1. a + j - 1 \in 1..Len(vals)
      BY <1>1, <1>2
    <2>2. vals[a + j - 1] = p[j]
      BY DEF LiesAt
    <2> QED
      BY <1>3, <2>1, <2>2
  <1>5. a + Len(p) - 1 <= Len(z)
    BY <1>1, <1>2, <1>3
  <1> QED
    BY <1>1, <1>3, <1>4, <1>5 DEF LiesAt

LEMMA LiesLast ==
    ASSUME NEW b, IsSeq(b), NEW p, IsSeq(p), NEW z, z = b \o p
    PROVE  LiesAt(z, Len(b) + 1, p) /\ Len(z) = Len(b) + Len(p) /\ IsSeq(z)
  <1>1. IsSeq(z) /\ Len(z) = Len(b) + Len(p) /\ \A k \in 1..Len(p) : z[Len(b) + k] = p[k]
    BY JoinShape
  <1>2. Len(b) \in Nat /\ Len(p) \in Nat
    BY SeqShape
  <1>3. \A j \in 1..Len(p) : z[Len(b) + 1 + j - 1] = p[j]
    <2> TAKE j \in 1..Len(p)
    <2>1. Len(b) + 1 + j - 1 = Len(b) + j
      BY <1>2
    <2> QED
      BY <1>1, <2>1
  <1>4. Len(b) + 1 \in Nat \ {0} /\ Len(b) + 1 + Len(p) - 1 <= Len(z)
    BY <1>1, <1>2
  <1> QED
    BY <1>1, <1>3, <1>4 DEF LiesAt

LEMMA JoinedLies ==
    ASSUME NEW n \in Nat, NEW ss, \A k \in 1..n : IsSeq(ss[k]), NEW P, Joined(P, ss, n)
    PROVE  \A m \in 0..n : LiesEach(P, ss, m)
  <1> DEFINE A(k) == k <= n => LiesEach(P, ss, k)
  <1>1. A(0)
    <2>1. IsSeq(P[0])
      BY NoneSeq DEF Joined
    <2> QED
      BY <2>1 DEF LiesEach
  <1>2. ASSUME NEW k \in Nat, A(k) PROVE A(k + 1)
    <2>1. SUFFICES ASSUME k + 1 <= n PROVE LiesEach(P, ss, k + 1)
      OBVIOUS
    <2>2. PICK h, b, z, c : h = k + 1 /\ b = P[k] /\ z = P[h] /\ c = ss[h]
      OBVIOUS
    <2>3. h \in 1..n /\ h - 1 = k /\ LiesEach(P, ss, k) /\ IsSeq(c)
      BY <1>2, <2>1, <2>2
    <2>4. z = b \o c
      BY <2>2, <2>3 DEF Joined
    <2>5. IsSeq(b)
      BY <2>2, <2>3 DEF LiesEach
    <2>6. LiesAt(z, Len(b) + 1, c) /\ Len(z) = Len(b) + Len(c) /\ IsSeq(z)
      BY <2>3, <2>4, <2>5, LiesLast
    <2>7. ASSUME NEW j \in 1..h
          PROVE  LiesAt(z, Len(P[j - 1]) + 1, ss[j]) /\ Len(P[j]) = Len(P[j - 1]) + Len(ss[j])
      <3>1. CASE j = h
        BY <2>2, <2>3, <2>6, <3>1
      <3>2. CASE j # h
        <4>1. j \in 1..k
          BY <2>2, <3>2
        <4>2. LiesAt(b, Len(P[j - 1]) + 1, ss[j]) /\ Len(P[j]) = Len(P[j - 1]) + Len(ss[j])
          BY <2>2, <2>3, <4>1 DEF LiesEach
        <4>3. LiesAt(z, Len(P[j - 1]) + 1, ss[j])
          BY <2>3, <2>4, <4>2, LiesStill
        <4> QED
          BY <4>2, <4>3
      <3> QED
        BY <3>1, <3>2
    <2>8. LiesEach(P, ss, h)
      BY <2>2, <2>6, <2>7 DEF LiesEach
    <2> QED
      BY <2>2, <2>8
  <1> HIDE DEF A
  <1>3. \A k \in Nat : A(k)
    <2> DEFINE S == {k \in Nat : A(k)}
    <2>1. 0 \in S /\ \A k \in Nat : k \in S => k + 1 \in S
      BY <1>1, <1>2
    <2> HIDE DEF S
    <2>2. Nat \subseteq S
      BY <2>1, NatSetInduction
    <2> QED
      BY <2>2 DEF S
  <1> QED
    BY <1>3 DEF A

\* The operands of a record are read by a fold over its positions.
OperandRuns(H, r, x, head, loop, n) ==
  /\ H[0] = Found(1, Empty, {})
  /\ \A k \in 1..n : H[k] = ReadOperand(r, x, KindAt(head, loop, k), H[k - 1])
FoldsOperands(ctx, G, start, items) ==
  G = [T \in SUBSET (1..Len(items)) |->
         IF T = {} THEN start
         ELSE ReadOperand(ctx.r, ctx.x, KindAt(ctx.head, ctx.loop, items[Max(T)]), G[T \ {Max(T)}])]

LEMMA ReadAsFolded ==
    ASSUME NEW ctx, IsSeq(ctx.x.vals), NEW items, items = [i \in DOMAIN ctx.x.vals |-> i],
           NEW start, start = Found(1, Empty, {})
    PROVE  ReadAs(ctx.r, ctx.x, ctx.head, ctx.loop) = Folded("operand", ctx, start, items) /\ IsSeq(items)
           /\ Len(items) = Len(ctx.x.vals) /\ \A k \in 1..Len(items) : items[k] = k
  <1>1. PICK vals, n : vals = ctx.x.vals /\ n = Len(vals)
    OBVIOUS
  <1>2. DOMAIN vals = 1..n /\ n \in Nat
    BY <1>1, SeqShape
  <1>3. DOMAIN items = 1..n /\ items = [k \in 1..n |-> items[k]] /\ \A k \in 1..n : items[k] = k
    BY <1>1, <1>2
  <1>4. IsSeq(items) /\ Len(items) = n
    BY <1>2, <1>3, TabulatedSeq
  <1>5. ReadAs(ctx.r, ctx.x, ctx.head, ctx.loop)
          = FoldLeft(LAMBDA c, k : ReadOperand(ctx.r, ctx.x, KindAt(ctx.head, ctx.loop, k), c), start, items)
    BY <1>1 DEF ReadAs, FoldLeftDomain, Found, Empty
  <1>7. DOMAIN items = 1..Len(items)
    BY <1>3, <1>4
  <1>6. FoldLeft(LAMBDA c, k : ReadOperand(ctx.r, ctx.x, KindAt(ctx.head, ctx.loop, k), c), start, items)
          = (CHOOSE G : FoldsOperands(ctx, G, start, items))[1..Len(items)]
    BY <1>7 DEF FoldLeft, MapThenFoldSet, FoldsOperands
  <1>8. \A G : FoldsOperands(ctx, G, start, items) <=> IsFold("operand", ctx, G, start, items, Len(items))
    <2>1. \A c, k : Step("operand", ctx, c, k) = ReadOperand(ctx.r, ctx.x, KindAt(ctx.head, ctx.loop, k), c)
      BY DEF Step
    <2> QED
      BY <2>1 DEF FoldsOperands, IsFold
  <1>9. (CHOOSE G : FoldsOperands(ctx, G, start, items)) = (CHOOSE G : IsFold("operand", ctx, G, start, items, Len(items)))
    BY <1>8
  <1>10. FoldLeft(LAMBDA c, k : ReadOperand(ctx.r, ctx.x, KindAt(ctx.head, ctx.loop, k), c), start, items)
          = Folded("operand", ctx, start, items)
    BY <1>6, <1>9 DEF Folded
  <1> QED
    BY <1>1, <1>3, <1>4, <1>5, <1>10

LEMMA ReadAsRuns ==
    ASSUME NEW r, NEW x, IsSeq(x.vals), NEW head, NEW loop
    PROVE  \E H : OperandRuns(H, r, x, head, loop, Len(x.vals)) /\ ReadAs(r, x, head, loop) = H[Len(x.vals)]
  <1>1. PICK n, start : n = Len(x.vals) /\ start = Found(1, Empty, {})
    OBVIOUS
  <1>2. PICK ctx : ctx = [r |-> r, x |-> x, head |-> head, loop |-> loop]
    OBVIOUS
  <1>3. ctx.r = r /\ ctx.x = x /\ ctx.head = head /\ ctx.loop = loop
    BY <1>2
  <1>4. PICK items : items = [i \in DOMAIN ctx.x.vals |-> i]
    OBVIOUS
  <1>5. IsSeq(ctx.x.vals)
    BY <1>3
  <1>6. /\ ReadAs(ctx.r, ctx.x, ctx.head, ctx.loop) = Folded("operand", ctx, start, items)
        /\ IsSeq(items) /\ Len(items) = Len(ctx.x.vals) /\ \A k \in 1..Len(items) : items[k] = k
    BY <1>1, <1>4, <1>5, ReadAsFolded
  <1>7. ReadAs(r, x, head, loop) = Folded("operand", ctx, start, items) /\ Len(items) = n
    BY <1>1, <1>3, <1>6
  <1>8. PICK H : Runs("operand", ctx, H, start, items, n) /\ Folded("operand", ctx, start, items) = H[n]
    BY <1>6, <1>7, FoldRuns
  <1>9. H[0] = start
    BY <1>8 DEF Runs
  <1>10. ASSUME NEW k \in 1..n PROVE H[k] = ReadOperand(r, x, KindAt(head, loop, k), H[k - 1])
    <2>1. H[k] = Step("operand", ctx, H[k - 1], items[k]) /\ items[k] = k
      BY <1>6, <1>7, <1>8 DEF Runs
    <2> QED
      BY <1>3, <2>1 DEF Step
  <1> QED
    BY <1>1, <1>7, <1>8, <1>9, <1>10 DEF OperandRuns

\* The first k operands of S are read.
ReadUpTo(c, S, k, tys, pos) ==
  \E b, t : /\ c = Found(pos, b, t) /\ IsSeq(b) /\ Len(b) = k /\ ToldRight(t, tys)
            /\ \A j \in 1..k : b[j] = S[j].n
AllFit(head, loop, S, n) == \A k \in 1..Len(S) : OperandFits(KindAt(head, loop, k), S[k], n)

LEMMA NextIsRead ==
    ASSUME NEW r, NEW x, NEW kind, NEW tys, NEW S, NEW k \in Nat, NEW pos, NEW c, ReadUpTo(c, S, k, tys, pos),
           NEW s, s = S[k + 1], NEW p, ReadsOperand(r, x, kind, tys, s, p, pos)
    PROVE  ReadUpTo(ReadOperand(r, x, kind, c), S, k + 1, tys, pos + Len(p))
  <1>1. PICK b, t : /\ c = Found(pos, b, t) /\ IsSeq(b) /\ Len(b) = k /\ ToldRight(t, tys)
                    /\ \A j \in 1..k : b[j] = S[j].n
    BY DEF ReadUpTo
  <1>2. PICK u : ToldRight(u, tys) /\ ReadOperand(r, x, kind, c) = Found(pos + Len(p), Append(b, s.n), u)
    BY <1>1 DEF ReadsOperand
  <1>3. PICK d, v : d = Append(b, v) /\ v = s.n
    OBVIOUS
  <1>4. IsSeq(d) /\ Len(d) = k + 1 /\ d[k + 1] = v /\ \A j \in 1..k : d[j] = b[j]
    <2>1. IsSeq(b) /\ Len(b) = k
      BY <1>1
    <2>2. /\ IsSeq(Append(b, v)) /\ Len(Append(b, v)) = Len(b) + 1 /\ Append(b, v)[Len(b) + 1] = v
          /\ \A j \in 1..Len(b) : Append(b, v)[j] = b[j]
      BY <2>1, AppendShape
    <2> QED
      BY <1>3, <2>1, <2>2
  <1>5. \A j \in 1..(k + 1) : d[j] = S[j].n
    <2> TAKE j \in 1..(k + 1)
    <2>1. j = k + 1 \/ j \in 1..k
      OBVIOUS
    <2> QED
      BY <1>1, <1>3, <1>4, <2>1
  <1>6. ReadOperand(r, x, kind, c) = Found(pos + Len(p), d, u)
    BY <1>2, <1>3
  <1> QED
    BY <1>2, <1>4, <1>5, <1>6 DEF ReadUpTo

PushedOf(tys, id, S) == [k \in DOMAIN S |-> Push(tys, id, S[k])]

LEMMA PushedIs ==
    ASSUME NEW tys, NEW id, NEW S
    PROVE  Flat(LAMBDA s : Push(tys, id, s), S) = FlattenSeq(PushedOf(tys, id, S))
  BY DEF Flat, Map, PushedOf

LEMMA PushIsSeq ==
    ASSUME NEW tys, NEW id, NEW s, NEW kind, NEW n, OperandFits(kind, s, n)
    PROVE  IsSeq(Push(tys, id, s)) /\ Len(Push(tys, id, s)) >= 1
  <1>1. CASE s.push = "PushValueAndType"
    <2>1. PICK a, b : a = Relative(s.n, id, Width) /\ b = TypeOf(tys, s.n)
      OBVIOUS
    <2>2. Push(tys, id, s) = <<a>> \o One(Forward(s.n, id), b)
      BY <1>1, <2>1 DEF Push
    <2>3. <<a>> \o Empty = <<a>> /\ IsSeq(<<a>>) /\ Len(<<a>>) = 1
      BY OneSeq, NoneJoined
    <2>4. <<a>> \o <<b>> = <<a, b>> /\ IsSeq(<<a, b>>) /\ Len(<<a, b>>) = 2
      BY TwoSeq
    <2>5. One(Forward(s.n, id), b) = <<b>> \/ One(Forward(s.n, id), b) = Empty
      BY DEF One, Empty
    <2>6. Push(tys, id, s) = <<a>> \/ Push(tys, id, s) = <<a, b>>
      BY <2>2, <2>3, <2>4, <2>5, Zenon
    <2>7. CASE Push(tys, id, s) = <<a>>
      <3>1. IsSeq(<<a>>) /\ Len(<<a>>) >= 1
        BY <2>3
      <3> QED
        BY <2>7, <3>1
    <2>8. CASE Push(tys, id, s) = <<a, b>>
      <3>1. IsSeq(<<a, b>>) /\ Len(<<a, b>>) >= 1
        BY <2>4
      <3> QED
        BY <2>8, <3>1
    <2> QED
      BY <2>6, <2>7, <2>8
  <1>2. CASE s.push # "PushValueAndType"
    <2>1. \E a : Push(tys, id, s) = <<a>>
      <3>1. s.push \in {"pushValue", "pushValue64", "pushValueSigned", "push_back"}
        BY <1>2 DEF OperandFits
      <3> QED
        BY <3>1 DEF Push
    <2> QED
      BY <2>1, OneSeq
  <1> QED
    BY <1>1, <1>2

LEMMA PushedShape ==
    ASSUME NEW tys, NEW id, NEW S, IsSeq(S), NEW head, NEW loop, AllFit(head, loop, S, Len(tys)),
           NEW ss, ss = PushedOf(tys, id, S)
    PROVE  /\ IsSeq(ss) /\ Len(ss) = Len(S) /\ \A k \in 1..Len(S) : IsSeq(ss[k]) /\ Len(ss[k]) >= 1
           /\ \A k \in 1..Len(S) : ss[k] = Push(tys, id, S[k])
  <1>1. DOMAIN ss = DOMAIN S /\ ss = [k \in DOMAIN ss |-> ss[k]]
    BY DEF PushedOf
  <1>2. IsSeq(ss) /\ Len(ss) = Len(S) /\ DOMAIN S = 1..Len(S)
    BY <1>1, MapShape
  <1>3. \A k \in 1..Len(S) : ss[k] = Push(tys, id, S[k])
    BY <1>2 DEF PushedOf
  <1>4. ASSUME NEW k \in 1..Len(S) PROVE IsSeq(ss[k]) /\ Len(ss[k]) >= 1
    <2>1. OperandFits(KindAt(head, loop, k), S[k], Len(tys))
      BY DEF AllFit
    <2> QED
      BY <1>3, <2>1, PushIsSeq
  <1> QED
    BY <1>2, <1>3, <1>4

\* The values of a record are those of the operands pushed.
Gets(got, S, tys) == got.values = Map(LAMBDA s : s.n, S) /\ ToldRight(got.told, tys)

LEMMA OperandsAreRead ==
    ASSUME NEW r, NEW x, NEW tys, NEW id, Numbering(r, tys, id), NEW S, IsSeq(S),
           x.vals = FlattenSeq(PushedOf(tys, id, S)),
           NEW head, NEW loop, AllFit(head, loop, S, Len(tys))
    PROVE  Gets(ReadAs(r, x, head, loop), S, tys) /\ IsSeq(x.vals)
  <1>1. PICK ss, n, vals : ss = PushedOf(tys, id, S) /\ n = Len(S) /\ vals = x.vals
    OBVIOUS
  <1>2. /\ IsSeq(ss) /\ Len(ss) = n /\ \A k \in 1..n : IsSeq(ss[k]) /\ Len(ss[k]) >= 1
        /\ \A k \in 1..n : ss[k] = Push(tys, id, S[k])
    BY <1>1, PushedShape
  <1>3. n \in Nat
    BY <1>1, SeqShape
  <1>4. vals = FlattenSeq(ss)
    BY <1>1
  <1>5. PICK P : Joined(P, ss, n) /\ vals = P[n]
    BY <1>2, <1>4, FlattenJoined
  <1>6. \A m \in 0..n : LiesEach(P, ss, m)
    BY <1>2, <1>3, <1>5, JoinedLies
  <1>7. LiesEach(P, ss, n) /\ IsSeq(vals)
    <2>1. n \in 0..n
      BY <1>3
    <2>2. LiesEach(P, ss, n)
      BY <1>6, <2>1
    <2>3. IsSeq(P[n])
      BY <2>2 DEF LiesEach
    <2> QED
      BY <1>5, <2>2, <2>3
  <1>8. PICK H : OperandRuns(H, r, x, head, loop, Len(vals)) /\ ReadAs(r, x, head, loop) = H[Len(vals)]
    BY <1>1, <1>7, ReadAsRuns
  <1> DEFINE A(k) == k <= n => k <= Len(P[k]) /\ Len(P[k]) \in Nat /\ Len(P[k]) <= Len(vals)
                              /\ ReadUpTo(H[k], S, k, tys, Len(P[k]) + 1)
  <1>n. Len(vals) \in Nat
    BY <1>7, SeqShape
  <1>9. A(0)
    <2>1. Len(P[0]) = 0 /\ Len(Empty) = 0 /\ IsSeq(Empty)
      BY <1>5, NoneSeq DEF Joined
    <2>2. H[0] = Found(Len(P[0]) + 1, Empty, {})
      BY <1>8, <2>1 DEF OperandRuns
    <2>3. ToldRight({}, tys)
      BY DEF ToldRight
    <2>4. ReadUpTo(H[0], S, 0, tys, Len(P[0]) + 1)
      BY <2>1, <2>2, <2>3 DEF ReadUpTo
    <2> QED
      BY <1>n, <2>1, <2>4
  <1>10. ASSUME NEW k \in Nat, A(k) PROVE A(k + 1)
    <2> USE DEF A
    <2>1. SUFFICES ASSUME k + 1 <= n
                   PROVE  k + 1 <= Len(P[k + 1]) /\ Len(P[k + 1]) \in Nat /\ Len(P[k + 1]) <= Len(vals)
                          /\ ReadUpTo(H[k + 1], S, k + 1, tys, Len(P[k + 1]) + 1)
      OBVIOUS
    <2> HIDE DEF A
    <2>2. PICK h, p, a, s, kind : /\ h = k + 1 /\ p = ss[h] /\ a = Len(P[k]) + 1 /\ s = S[h]
                                  /\ kind = KindAt(head, loop, h)
      OBVIOUS
    <2>3. h \in 1..n /\ h - 1 = k
      BY <2>1, <2>2
    <2>4. k <= Len(P[k]) /\ Len(P[k]) \in Nat /\ ReadUpTo(H[k], S, k, tys, a)
      <3>1. k <= n
        BY <1>3, <2>1
      <3> QED
        BY <1>10, <2>2, <3>1 DEF A
    <2>5. LiesAt(vals, a, p) /\ Len(P[h]) = Len(P[k]) + Len(p)
      BY <1>5, <1>7, <2>2, <2>3 DEF LiesEach
    <2>6. OperandFits(kind, s, Len(tys))
      BY <1>1, <2>2, <2>3 DEF AllFit
    <2>7. p = Push(tys, id, s)
      BY <1>2, <2>2, <2>3
    <2>8. ReadsOperand(r, x, kind, tys, s, p, a) /\ Len(p) >= 1
      BY <1>1, <2>5, <2>6, <2>7, OperandIsRead
    <2>9. ReadUpTo(ReadOperand(r, x, kind, H[k]), S, k + 1, tys, a + Len(p))
      BY <2>2, <2>4, <2>8, NextIsRead
    <2>10. Len(p) \in Nat /\ a + Len(p) - 1 <= Len(vals)
      BY <2>5, SeqShape DEF LiesAt
    <2>11. h \in 1..Len(vals)
      <3>1. PICK l, lp, lv : l = Len(P[k]) /\ lp = Len(p) /\ lv = Len(vals)
        OBVIOUS
      <3>2. k <= l /\ l \in Nat /\ lp \in Nat /\ lp >= 1 /\ lv \in Nat /\ l + 1 + lp - 1 <= lv
        BY <1>n, <2>2, <2>4, <2>8, <2>10, <3>1
      <3>3. k + 1 \in 1..lv
        BY <3>2
      <3> QED
        BY <2>2, <3>1, <3>3
    <2>12. H[h] = ReadOperand(r, x, kind, H[h - 1])
      BY <1>8, <2>2, <2>11 DEF OperandRuns
    <2>13. a + Len(p) = Len(P[h]) + 1 /\ h <= Len(P[h]) /\ Len(P[h]) \in Nat /\ Len(P[h]) <= Len(vals)
      <3>1. PICK l, lp, lv, lh : l = Len(P[k]) /\ lp = Len(p) /\ lv = Len(vals) /\ lh = Len(P[h])
        OBVIOUS
      <3>2. /\ k <= l /\ l \in Nat /\ lp \in Nat /\ lp >= 1 /\ lv \in Nat /\ l + 1 + lp - 1 <= lv
            /\ lh = l + lp
        BY <1>n, <2>2, <2>4, <2>5, <2>8, <2>10, <3>1
      <3>3. l + 1 + lp = lh + 1 /\ k + 1 <= lh /\ lh \in Nat /\ lh <= lv
        BY <3>2
      <3> QED
        BY <2>2, <3>1, <3>3
    <2>14. ReadUpTo(H[h], S, k + 1, tys, Len(P[h]) + 1)
      BY <2>3, <2>9, <2>12, <2>13
    <2> QED
      BY <2>2, <2>13, <2>14
  <1> HIDE DEF A
  <1>11. \A k \in Nat : A(k)
    <2> DEFINE T == {k \in Nat : A(k)}
    <2>1. 0 \in T /\ \A k \in Nat : k \in T => k + 1 \in T
      BY <1>9, <1>10
    <2> HIDE DEF T
    <2>2. Nat \subseteq T
      BY <2>1, NatSetInduction
    <2> QED
      BY <2>2 DEF T
  <1>12. n <= Len(vals) /\ ReadUpTo(H[n], S, n, tys, Len(vals) + 1)
    BY <1>3, <1>5, <1>11 DEF A
  \* What is left of the fold finds nothing more.
  <1> DEFINE B(k) == n <= k /\ k <= Len(vals) => H[k] = H[n]
  <1>13. B(0)
    BY <1>3
  <1>14. ASSUME NEW k \in Nat, B(k) PROVE B(k + 1)
    <2>1. SUFFICES ASSUME n <= k + 1, k + 1 <= Len(vals) PROVE H[k + 1] = H[n]
      OBVIOUS
    <2>2. CASE n = k + 1
      BY <2>2
    <2>3. CASE n # k + 1
      <3>1. PICK h, c : h = k + 1 /\ c = H[k]
        OBVIOUS
      <3>2. h \in 1..Len(vals) /\ h - 1 = k /\ c = H[n]
        BY <1>3, <1>n, <1>14, <2>1, <2>3, <3>1
      <3>3. H[h] = ReadOperand(r, x, KindAt(head, loop, h), c)
        BY <1>8, <3>1, <3>2 DEF OperandRuns
      <3>4. PICK b, t : c = Found(Len(vals) + 1, b, t)
        BY <1>12, <3>2 DEF ReadUpTo
      <3>5. c.pos > Len(x.vals)
        BY <1>1, <1>n, <3>4, FoundIs
      <3> QED
        BY <3>1, <3>2, <3>3, <3>5 DEF ReadOperand
    <2> QED
      BY <2>2, <2>3
  <1> HIDE DEF B
  <1>15. \A k \in Nat : B(k)
    <2> DEFINE T == {k \in Nat : B(k)}
    <2>1. 0 \in T /\ \A k \in Nat : k \in T => k + 1 \in T
      BY <1>13, <1>14
    <2> HIDE DEF T
    <2>2. Nat \subseteq T
      BY <2>1, NatSetInduction
    <2> QED
      BY <2>2 DEF T
  <1>16. H[Len(vals)] = H[n]
    BY <1>n, <1>12, <1>15 DEF B
  <1>17. PICK b, t : /\ H[n] = Found(Len(vals) + 1, b, t) /\ IsSeq(b) /\ Len(b) = n /\ ToldRight(t, tys)
                     /\ \A j \in 1..n : b[j] = S[j].n
    BY <1>12 DEF ReadUpTo
  <1>18. b = Map(LAMBDA s : s.n, S)
    <2>1. PICK m : m = [k \in DOMAIN S |-> S[k].n]
      OBVIOUS
    <2>2. DOMAIN m = DOMAIN S /\ m = [k \in DOMAIN m |-> m[k]]
      BY <2>1
    <2>3. IsSeq(m) /\ Len(m) = n /\ DOMAIN S = 1..n
      BY <1>1, <2>2, MapShape
    <2>4. \A k \in 1..Len(b) : b[k] = m[k]
      BY <1>17, <2>1, <2>3
    <2>5. b = m
      BY <1>17, <2>3, <2>4, SameSeq
    <2> QED
      BY <2>1, <2>5 DEF Map
  <1>19. H[n].values = b /\ H[n].told = t
    BY <1>17, FoundIs
  <1> QED
    BY <1>1, <1>7, <1>8, <1>16, <1>17, <1>18, <1>19 DEF Gets

------------------------------------------------------------------------------
(* What the writer pushes fits what the reader reads.                       *)

\* The kinds of the operands of a record, and the operands of a part that starts after d.
KindsOf(head, loop) == [k \in Nat \ {0} |-> KindAt(head, loop, k)]
Fitting(K, d, S, n) == IsSeq(S) /\ \A k \in 1..Len(S) : OperandFits(K[d + k], S[k], n)
Past(K, d, kind) == \A k \in Nat \ {0} : K[d + k] = kind

LEMMA FitsAll ==
    ASSUME NEW head, NEW loop, NEW S, NEW n, Fitting(KindsOf(head, loop), 0, S, n)
    PROVE  IsSeq(S) /\ AllFit(head, loop, S, n)
  <1>1. IsSeq(S) /\ Len(S) \in Nat
    BY SeqShape DEF Fitting
  <1>2. ASSUME NEW k \in 1..Len(S) PROVE OperandFits(KindAt(head, loop, k), S[k], n)
    <2>1. k \in Nat \ {0} /\ 0 + k = k
      BY <1>1
    <2>2. KindsOf(head, loop)[0 + k] = KindAt(head, loop, k)
      BY <2>1 DEF KindsOf
    <2>3. OperandFits(KindsOf(head, loop)[0 + k], S[k], n)
      BY DEF Fitting
    <2> QED
      BY <2>2, <2>3
  <1> QED
    BY <1>1, <1>2 DEF AllFit

LEMMA FitNone == ASSUME NEW K, NEW d, NEW n PROVE Fitting(K, d, Empty, n)
  BY NoneSeq DEF Fitting

LEMMA FitOne ==
    ASSUME NEW K, NEW d, NEW n, NEW s, OperandFits(K[d + 1], s, n)
    PROVE  Fitting(K, d, <<s>>, n) /\ Len(<<s>>) = 1
  <1>1. IsSeq(<<s>>) /\ Len(<<s>>) = 1 /\ <<s>>[1] = s
    BY OneSeq
  <1> QED
    BY <1>1 DEF Fitting

LEMMA FitJoin ==
    ASSUME NEW K, NEW d \in Nat, NEW n, NEW A, Fitting(K, d, A, n), NEW B, Fitting(K, d + Len(A), B, n)
    PROVE  Fitting(K, d, A \o B, n) /\ Len(A \o B) = Len(A) + Len(B) /\ Len(A) \in Nat /\ Len(B) \in Nat
  <1>1. IsSeq(A) /\ IsSeq(B)
    BY DEF Fitting
  <1>2. PICK S, a, b : S = A \o B /\ a = Len(A) /\ b = Len(B)
    OBVIOUS
  <1>3. a \in Nat /\ b \in Nat
    BY <1>1, <1>2, SeqShape
  <1>4. IsSeq(S) /\ Len(S) = a + b /\ (\A k \in 1..a : S[k] = A[k]) /\ \A k \in 1..b : S[a + k] = B[k]
    <2>1. /\ IsSeq(A \o B) /\ Len(A \o B) = Len(A) + Len(B) /\ (\A k \in 1..Len(A) : (A \o B)[k] = A[k])
          /\ \A k \in 1..Len(B) : (A \o B)[Len(A) + k] = B[k]
      BY <1>1, JoinShape
    <2> QED
      BY <1>2, <2>1
  <1>5. ASSUME NEW k \in 1..Len(S) PROVE OperandFits(K[d + k], S[k], n)
    <2>1. CASE k \in 1..a
      BY <1>2, <1>4, <2>1 DEF Fitting
    <2>2. CASE k \notin 1..a
      <3>1. PICK j : j = k - a
        OBVIOUS
      <3>2. j \in 1..b /\ k = a + j /\ d + a + j = d + k
        BY <1>3, <1>4, <2>2, <3>1
      <3>3. S[k] = B[j] /\ OperandFits(K[d + a + j], B[j], n)
        BY <1>2, <1>4, <3>2 DEF Fitting
      <3> QED
        BY <3>2, <3>3
    <2> QED
      BY <2>1, <2>2
  <1> QED
    BY <1>2, <1>3, <1>4, <1>5 DEF Fitting

LEMMA FitEach ==
    ASSUME NEW K, NEW d, NEW kind, Past(K, d, kind), NEW S, IsSeq(S), NEW n, \A k \in 1..Len(S) : OperandFits(kind, S[k], n)
    PROVE  Fitting(K, d, S, n)
  <1>1. Len(S) \in Nat
    BY SeqShape
  <1>2. ASSUME NEW k \in 1..Len(S) PROVE OperandFits(K[d + k], S[k], n)
    <2>1. k \in Nat \ {0}
      BY <1>1
    <2>2. K[d + k] = kind
      BY <2>1 DEF Past
    <2> QED
      BY <2>2
  <1> QED
    BY <1>2 DEF Fitting

LEMMA PastFurther ==
    ASSUME NEW K, NEW d \in Nat, NEW kind, Past(K, d, kind), NEW e \in Nat, e >= d
    PROVE  Past(K, e, kind)
  <1> SUFFICES ASSUME NEW k \in Nat \ {0} PROVE K[e + k] = kind
    BY DEF Past
  <1>1. PICK j : j = e - d + k
    OBVIOUS
  <1>2. j \in Nat \ {0} /\ d + j = e + k
    BY <1>1
  <1>3. K[d + j] = kind
    BY <1>2 DEF Past
  <1> QED
    BY <1>2, <1>3

\* What each of the pushes fits.
LEMMA PushesFit ==
    ASSUME NEW v, NEW n
    PROVE  /\ OperandFits("n", N(v), n)
           /\ v \in 0..(n - 1) => /\ OperandFits("vt", VT(v), n) /\ OperandFits("v", V(v), n) /\ OperandFits("v", V64(v), n)
                                  /\ OperandFits("vs", VS(v), n)
  BY DEF OperandFits, N, VT, V, V64, VS

\* Each of a sequence is pushed as a number, or as a value.
LEMMA NumbersFit ==
    ASSUME NEW K, NEW d, Past(K, d, "n"), NEW c, IsSeq(c), NEW n
    PROVE  Fitting(K, d, Map(N, c), n) /\ Len(Map(N, c)) = Len(c)
  <1>1. PICK t : t = [k \in DOMAIN c |-> N(c[k])]
    OBVIOUS
  <1>2. DOMAIN t = DOMAIN c /\ t = [k \in DOMAIN t |-> t[k]]
    BY <1>1
  <1>3. IsSeq(t) /\ Len(t) = Len(c) /\ DOMAIN c = 1..Len(c)
    BY <1>2, MapShape
  <1>4. \A k \in 1..Len(t) : OperandFits("n", t[k], n)
    BY <1>1, <1>3, PushesFit
  <1>5. Fitting(K, d, t, n)
    BY <1>3, <1>4, FitEach
  <1> QED
    BY <1>1, <1>3, <1>5 DEF Map

LEMMA TypedFit ==
    ASSUME NEW K, NEW d, Past(K, d, "vt"), NEW n, NEW c, IsSeq(c), \A k \in 1..Len(c) : c[k] \in 0..(n - 1)
    PROVE  Fitting(K, d, Map(VT, c), n) /\ Len(Map(VT, c)) = Len(c)
  <1>1. PICK t : t = [k \in DOMAIN c |-> VT(c[k])]
    OBVIOUS
  <1>2. DOMAIN t = DOMAIN c /\ t = [k \in DOMAIN t |-> t[k]]
    BY <1>1
  <1>3. IsSeq(t) /\ Len(t) = Len(c) /\ DOMAIN c = 1..Len(c)
    BY <1>2, MapShape
  <1>4. \A k \in 1..Len(t) : OperandFits("vt", t[k], n)
    BY <1>1, <1>3, PushesFit
  <1>5. Fitting(K, d, t, n)
    BY <1>3, <1>4, FitEach
  <1> QED
    BY <1>1, <1>3, <1>5 DEF Map

\* The group that is repeated, of one.
LEMMA KindsOne ==
    ASSUME NEW head, IsSeq(head), NEW kind, NEW loop, loop = <<kind>>, NEW K, K = KindsOf(head, loop)
    PROVE  /\ Past(K, Len(head), kind)
           /\ \A k \in 1..Len(head) : K[k] = head[k]
  <1>1. Len(head) \in Nat
    BY SeqShape
  <1>2. Len(loop) = 1 /\ loop[1] = kind
    BY OneSeq
  <1>3. ASSUME NEW k \in Nat \ {0} PROVE K[Len(head) + k] = kind
    <2>1. PICK h, m : h = Len(head) /\ m = h + k
      OBVIOUS
    <2>2. m \in Nat \ {0} /\ ~(m <= h) /\ m - h - 1 \in Nat
      BY <1>1, <2>1
    <2>3. KindAt(head, loop, m) = loop[((m - h - 1) % 1) + 1]
      BY <1>2, <2>1, <2>2 DEF KindAt
    <2>4. (m - h - 1) % 1 = 0
      BY <2>2
    <2>5. K[m] = KindAt(head, loop, m)
      BY <2>2 DEF KindsOf
    <2> QED
      BY <1>2, <2>1, <2>3, <2>4, <2>5
  <1>4. ASSUME NEW k \in 1..Len(head) PROVE K[k] = head[k]
    BY <1>1 DEF KindsOf, KindAt
  <1> QED
    BY <1>3, <1>4 DEF Past

\* The head goes on as the group that is repeated.
LEMMA PastEarlier ==
    ASSUME NEW K, NEW d \in Nat, NEW kind, Past(K, d + 1, kind), K[d + 1] = kind
    PROVE  Past(K, d, kind)
  <1> SUFFICES ASSUME NEW k \in Nat \ {0} PROVE K[d + k] = kind
    BY DEF Past
  <1>1. CASE k = 1
    BY <1>1
  <1>2. CASE k # 1
    <2>1. PICK j : j = k - 1
      OBVIOUS
    <2>2. j \in Nat \ {0} /\ d + 1 + j = d + k
      BY <1>2, <2>1
    <2>3. K[d + 1 + j] = kind
      BY <2>2 DEF Past
    <2> QED
      BY <2>2, <2>3
  <1> QED
    BY <1>1, <1>2

\* The kinds of the operands that op has.
KindsFor(op, args) == KindsOf(Leading(FunctionCodes[op], args), Repeated(FunctionCodes[op]))
Pushes(mod, tys, inst, args) == Fitting(KindsFor(inst.op, args), 0, Operands(mod, tys, inst), Len(tys))
\* From p on the head is numbers, and so is what is repeated.
EndsAs(head, p, kind) ==
  IsSeq(head) /\ p \in 0..Len(head) /\ \A k \in (p + 1)..Len(head) : head[k] = kind

LEMMA KindsThen ==
    ASSUME NEW head, NEW p, NEW kind, EndsAs(head, p, kind),
           NEW loop, loop = <<kind>>, NEW K, K = KindsOf(head, loop)
    PROVE  Past(K, p, kind) /\ \A k \in 1..p : K[k] = head[k]
  <1>1. IsSeq(head) /\ Len(head) \in Nat /\ p \in 0..Len(head)
    BY SeqShape DEF EndsAs
  <1>2. Past(K, Len(head), kind) /\ \A k \in 1..Len(head) : K[k] = head[k]
    BY <1>1, KindsOne
  <1>3. ASSUME NEW k \in Nat \ {0} PROVE K[p + k] = kind
    <2>1. CASE p + k <= Len(head)
      <3>1. p + k \in (p + 1)..Len(head) /\ p + k \in 1..Len(head)
        BY <1>1, <2>1
      <3> QED
        BY <1>2, <3>1 DEF EndsAs
    <2>2. CASE ~(p + k <= Len(head))
      <3>1. PICK j : j = p + k - Len(head)
        OBVIOUS
      <3>2. j \in Nat \ {0} /\ Len(head) + j = p + k
        BY <1>1, <2>2, <3>1
      <3>3. K[Len(head) + j] = kind
        BY <1>2, <3>2 DEF Past
      <3> QED
        BY <3>2, <3>3
    <2> QED
      BY <2>1, <2>2
  <1>4. Past(K, p, kind)
    BY <1>3 DEF Past
  <1>5. \A k \in 1..p : k \in 1..Len(head)
    BY <1>1
  <1> QED
    BY <1>2, <1>4, <1>5

\* Numbers are repeated but after these.
ListRepeats == {"GEP", "INBOUNDS_GEP", "RET", "CALL", "INVOKE"}

LEMMA RepeatedIs ==
    ASSUME NEW op \in Opcodes
    PROVE  /\ op \notin ListRepeats \cup {"PHI", "LANDINGPAD"} => Repeated(FunctionCodes[op]) = <<"n">>
           /\ op \in ListRepeats => Repeated(FunctionCodes[op]) = <<"vt">>
           /\ op = "PHI" => Repeated(FunctionCodes[op]) = <<"vs", "n">>
           /\ op = "LANDINGPAD" => Repeated(FunctionCodes[op]) = <<"n", "vt">>
  BY DEF FunctionCodes, Opcodes, ListRepeats, Repeated

LEMMA NumbersRepeat ==
    ASSUME NEW op \in Opcodes, op \notin ListRepeats \cup {"PHI", "LANDINGPAD"}, NEW args, NEW K, K = KindsFor(op, args),
           NEW head, head = Leading(FunctionCodes[op], args), NEW p, EndsAs(head, p, "n")
    PROVE  Past(K, p, "n") /\ \A k \in 1..p : K[k] = head[k]
  <1>1. PICK loop : loop = Repeated(FunctionCodes[op])
    OBVIOUS
  <1>2. loop = <<"n">>
    BY <1>1, RepeatedIs
  <1>3. K = KindsOf(head, loop)
    BY <1>1 DEF KindsFor
  <1> QED
    BY <1>2, <1>3, KindsThen

LEMMA HeadsAre ==
    ASSUME NEW op \in Opcodes, NEW args, NEW head, head = Leading(FunctionCodes[op], args)
    PROVE  /\ op \in {"GEP", "INBOUNDS_GEP", "RET", "UNREACHABLE"} => head = <<>>
           /\ op = "CAST" => head = <<"vt", "n", "n">>
           /\ op \in {"BINOP", "CMP2"} => head = <<"vt", "v", "n">>
           /\ op \in {"EXTRACTVAL", "RESUME"} => head = <<"vt">>
           /\ op = "INSERTVAL" => head = <<"vt", "vt">>
           /\ op = "VSELECT" => head = <<"vt", "v", "vt">>
           /\ op = "EXTRACTELT" => head = <<"vt", "v">>
           /\ op \in {"INSERTELT", "SHUFFLEVEC"} => head = <<"vt", "v", "v">>
           /\ op = "BR" => head = <<"n", "n", "v">>
           /\ op = "SWITCH" => head = <<"n", "n", "v", "n", "n">>
           /\ op = "INDIRECTBR" => head = <<"n", "v">>
           /\ op = "INVOKE" => head = <<"n", "n", "n", "n", "vt">> \o args
           /\ op = "CALL" => head = <<"n", "n", "vt">> \o args
           /\ op = "PHI" => head = <<"n">>
           /\ op = "LANDINGPAD" => head = <<"n", "vt", "n", "n">>
           /\ op = "ALLOCA" => head = <<"n", "n", "n", "n">>
           /\ op \in {"LOAD", "LOADATOMIC"} => head = <<"vt", "n", "n", "n", "n">>
           /\ op \in {"STORE", "STOREATOMIC", "ATOMICRMW"} => head = <<"vt", "v", "n", "n", "n", "n">>
           /\ op = "CMPXCHG" => head = <<"vt", "v", "v", "n", "n", "n">>
           /\ op = "FENCE" => head = <<"n", "n">>
           /\ op = "VAARG" => head = <<"n", "v", "n">>
  <1>1. PICK is : is = CHOOSE c \in DOMAIN FunctionCodes : FunctionCodes[c] = FunctionCodes[op]
    OBVIOUS
  <1>2. is = op
    BY <1>1, CodeGivesOpcode
  <1>3. head = Leading(FunctionCodes[op], args)
    OBVIOUS
  <1>4. op \in {"GEP", "INBOUNDS_GEP", "RET", "UNREACHABLE"} => head = <<>>
    BY <1>1, <1>2, <1>3 DEF Leading
  <1>5. op = "CAST" => head = <<"vt", "n", "n">>
    BY <1>1, <1>2, <1>3 DEF Leading
  <1>6. op \in {"BINOP", "CMP2"} => head = <<"vt", "v", "n">>
    BY <1>1, <1>2, <1>3 DEF Leading
  <1>7. op \in {"EXTRACTVAL", "RESUME"} => head = <<"vt">>
    BY <1>1, <1>2, <1>3 DEF Leading
  <1>8. op = "INSERTVAL" => head = <<"vt", "vt">>
    BY <1>1, <1>2, <1>3 DEF Leading
  <1>9. op = "VSELECT" => head = <<"vt", "v", "vt">>
    BY <1>1, <1>2, <1>3 DEF Leading
  <1>10. op = "EXTRACTELT" => head = <<"vt", "v">>
    BY <1>1, <1>2, <1>3 DEF Leading
  <1>11. op \in {"INSERTELT", "SHUFFLEVEC"} => head = <<"vt", "v", "v">>
    BY <1>1, <1>2, <1>3 DEF Leading
  <1>12. op = "BR" => head = <<"n", "n", "v">>
    BY <1>1, <1>2, <1>3 DEF Leading
  <1>13. op = "SWITCH" => head = <<"n", "n", "v", "n", "n">>
    BY <1>1, <1>2, <1>3 DEF Leading
  <1>14. op = "INDIRECTBR" => head = <<"n", "v">>
    BY <1>1, <1>2, <1>3 DEF Leading
  <1>15. op = "INVOKE" => head = <<"n", "n", "n", "n", "vt">> \o args
    BY <1>1, <1>2, <1>3 DEF Leading
  <1>16. op = "CALL" => head = <<"n", "n", "vt">> \o args
    BY <1>1, <1>2, <1>3 DEF Leading
  <1>17. op = "PHI" => head = <<"n">>
    BY <1>1, <1>2, <1>3 DEF Leading
  <1>18. op = "LANDINGPAD" => head = <<"n", "vt", "n", "n">>
    BY <1>1, <1>2, <1>3 DEF Leading
  <1>19. op = "ALLOCA" => head = <<"n", "n", "n", "n">>
    BY <1>1, <1>2, <1>3 DEF Leading
  <1>20. op \in {"LOAD", "LOADATOMIC"} => head = <<"vt", "n", "n", "n", "n">>
    BY <1>1, <1>2, <1>3 DEF Leading
  <1>21. op \in {"STORE", "STOREATOMIC", "ATOMICRMW"} => head = <<"vt", "v", "n", "n", "n", "n">>
    BY <1>1, <1>2, <1>3 DEF Leading
  <1>22. op = "CMPXCHG" => head = <<"vt", "v", "v", "n", "n", "n">>
    BY <1>1, <1>2, <1>3 DEF Leading
  <1>23. op = "FENCE" => head = <<"n", "n">>
    BY <1>1, <1>2, <1>3 DEF Leading
  <1>24. op = "VAARG" => head = <<"n", "v", "n">>
    BY <1>1, <1>2, <1>3 DEF Leading
  <1> QED
    BY <1>4, <1>5, <1>6, <1>7, <1>8, <1>9, <1>10, <1>11, <1>12, <1>13, <1>14, <1>15, <1>16, <1>17, <1>18, <1>19, <1>20, <1>21, <1>22, <1>23, <1>24

LEMMA FitTwo ==
    ASSUME NEW K, NEW n, NEW a, OperandFits(K[1], a, n), NEW b, OperandFits(K[2], b, n), NEW s, s = <<a, b>>
    PROVE  Fitting(K, 0, s, n) /\ Len(s) = 2
  <1>1. IsSeq(s) /\ Len(s) = 2 /\ s[1] = a /\ s[2] = b
    BY PairSeq
  <1>2. \A k \in 1..2 : OperandFits(K[0 + k], s[k], n)
    BY <1>1
  <1> QED
    BY <1>1, <1>2 DEF Fitting

LEMMA FitThree ==
    ASSUME NEW K, NEW n, NEW a, OperandFits(K[1], a, n), NEW b, OperandFits(K[2], b, n), NEW c, OperandFits(K[3], c, n), NEW s, s = <<a, b, c>>
    PROVE  Fitting(K, 0, s, n) /\ Len(s) = 3
  <1>1. IsSeq(s) /\ Len(s) = 3 /\ s[1] = a /\ s[2] = b /\ s[3] = c
    BY ThreeSeq
  <1>2. \A k \in 1..3 : OperandFits(K[0 + k], s[k], n)
    BY <1>1
  <1> QED
    BY <1>1, <1>2 DEF Fitting

LEMMA FitFour ==
    ASSUME NEW K, NEW n, NEW a, OperandFits(K[1], a, n), NEW b, OperandFits(K[2], b, n), NEW c, OperandFits(K[3], c, n),
           NEW e, OperandFits(K[4], e, n), NEW s, s = <<a, b, c, e>>
    PROVE  Fitting(K, 0, s, n) /\ Len(s) = 4
  <1>1. IsSeq(s) /\ Len(s) = 4 /\ s[1] = a /\ s[2] = b /\ s[3] = c /\ s[4] = e
    BY DEF IsSeq
  <1>2. \A k \in 1..4 : OperandFits(K[0 + k], s[k], n)
    BY <1>1
  <1> QED
    BY <1>1, <1>2 DEF Fitting

LEMMA FitFive ==
    ASSUME NEW K, NEW n, NEW a, OperandFits(K[1], a, n), NEW b, OperandFits(K[2], b, n), NEW c, OperandFits(K[3], c, n),
           NEW e, OperandFits(K[4], e, n), NEW f, OperandFits(K[5], f, n), NEW s, s = <<a, b, c, e, f>>
    PROVE  Fitting(K, 0, s, n) /\ Len(s) = 5
  <1>1. IsSeq(s) /\ Len(s) = 5 /\ s[1] = a /\ s[2] = b /\ s[3] = c /\ s[4] = e /\ s[5] = f
    BY DEF IsSeq
  <1>2. \A k \in 1..5 : OperandFits(K[0 + k], s[k], n)
    BY <1>1
  <1> QED
    BY <1>1, <1>2 DEF Fitting

\* Numbers of any kind where numbers are read.
LEMMA NumberAt ==
    ASSUME NEW K, NEW d \in Nat, Past(K, d, "n"), NEW c, NEW n
    PROVE  /\ Fitting(K, d, <<N(c)>>, n) /\ Len(<<N(c)>>) = 1
           /\ \A b \in BOOLEAN : Fitting(K, d, One(b, N(c)), n)
  <1>1. K[d + 1] = "n"
    BY DEF Past
  <1>2. OperandFits(K[d + 1], N(c), n)
    BY <1>1, PushesFit
  <1>3. Fitting(K, d, <<N(c)>>, n) /\ Len(<<N(c)>>) = 1
    BY <1>2, FitOne
  <1>4. Fitting(K, d, Empty, n)
    BY FitNone
  <1>5. \A b \in BOOLEAN : One(b, N(c)) = <<N(c)>> \/ One(b, N(c)) = Empty
    BY DEF One, Empty
  <1> QED
    BY <1>3, <1>4, <1>5

LEMMA TailIs ==
    ASSUME NEW s, IsSeq(s), Len(s) >= 1, NEW t, t = Tail(s)
    PROVE  IsSeq(t) /\ Len(t) = Len(s) - 1 /\ \A k \in 1..Len(t) : t[k] = s[k + 1]
  <1>1. PICK X : X = {s[k] : k \in 1..Len(s)}
    OBVIOUS
  <1>2. \A k \in 1..Len(s) : s[k] \in X
    BY <1>1
  <1> HIDE <1>1
  <1>3. s \in Seq(X) /\ s # <<>> /\ Len(s) \in Nat
    BY <1>2 DEF IsSeq
  <1>4. t \in Seq(X) /\ Len(t) = Len(s) - 1 /\ \A k \in 1..Len(t) : t[k] = s[k + 1]
    BY <1>3
  <1> QED
    BY <1>4, SeqIs

LEMMA AlignFits ==
    ASSUME NEW K, NEW d \in Nat, Past(K, d, "n"), NEW lits, IsSeq(lits), Len(lits) >= 1, NEW n
    PROVE  Fitting(K, d, AlignFirst(lits), n)
  <1>1. PICK a, t : a = Log2_32(Head(lits)) + 1 /\ t = Tail(lits)
    OBVIOUS
  <1>2. IsSeq(t)
    BY <1>1, TailIs
  <1>3. Fitting(K, d, <<N(a)>>, n) /\ Len(<<N(a)>>) = 1
    BY NumberAt
  <1>4. Past(K, d + 1, "n")
    BY PastFurther
  <1>5. Fitting(K, d + Len(<<N(a)>>), Map(N, t), n)
    BY <1>2, <1>3, <1>4, NumbersFit
  <1>6. Fitting(K, d, <<N(a)>> \o Map(N, t), n)
    BY <1>3, <1>5, FitJoin
  <1> QED
    BY <1>1, <1>6 DEF AlignFirst

LEMMA AtomicFits ==
    ASSUME NEW K, NEW d \in Nat, Past(K, d, "n"), NEW order, NEW scope, NEW n
    PROVE  Fitting(K, d, Atomic(order, scope), n) /\ Len(Atomic(order, scope)) = 2
  <1>1. PICK a, b : a = N(GetEncodedOrdering[order]) /\ b = N(GetEncodedSynchScope[scope])
    OBVIOUS
  <1>2. PICK s : s = Atomic(order, scope)
    OBVIOUS
  <1>3. s = <<a, b>>
    BY <1>1, <1>2 DEF Atomic
  <1>4. IsSeq(s) /\ Len(s) = 2 /\ s[1] = a /\ s[2] = b
    BY <1>3, PairSeq
  <1>5. \A k \in 1..Len(s) : OperandFits("n", s[k], n)
    BY <1>1, <1>4, PushesFit
  <1>6. Fitting(K, d, s, n)
    BY <1>4, <1>5, FitEach
  <1> QED
    BY <1>2, <1>4, <1>6

------------------------------------------------------------------------------
(* What is read of a record of each kind.                                   *)

LEMMA KindsValue ==
    ASSUME NEW op \in {"CAST", "EXTRACTVAL", "RESUME", "LOAD", "LOADATOMIC"}, NEW args, NEW K, K = KindsFor(op, args)
    PROVE  K[1] = "vt" /\ Past(K, 1, "n")
  <1>1. op \in Opcodes /\ op \notin ListRepeats \cup {"PHI", "LANDINGPAD"}
    BY DEF Opcodes, FunctionCodes, ListRepeats
  <1>2. PICK head : head = Leading(FunctionCodes[op], args)
    OBVIOUS
  <1>3. head = <<"vt", "n", "n">> \/ head = <<"vt">> \/ head = <<"vt", "n", "n", "n", "n">>
    BY <1>1, <1>2, HeadsAre
  <1>4. ASSUME head = <<"vt", "n", "n">> PROVE head[1] = "vt" /\ EndsAs(head, 1, "n")
    <2>1. IsSeq(head) /\ Len(head) = 3
      BY <1>4 DEF IsSeq
    <2> QED
      BY <1>4, <2>1 DEF EndsAs
  <1>5. ASSUME head = <<"vt">> PROVE head[1] = "vt" /\ EndsAs(head, 1, "n")
    <2>1. IsSeq(head) /\ Len(head) = 1
      BY <1>5 DEF IsSeq
    <2> QED
      BY <1>5, <2>1 DEF EndsAs
  <1>6. ASSUME head = <<"vt", "n", "n", "n", "n">> PROVE head[1] = "vt" /\ EndsAs(head, 1, "n")
    <2>1. IsSeq(head) /\ Len(head) = 5
      BY <1>6 DEF IsSeq
    <2> QED
      BY <1>6, <2>1 DEF EndsAs
  <1>7. head[1] = "vt" /\ EndsAs(head, 1, "n")
    BY <1>3, <1>4, <1>5, <1>6
  <1>8. Past(K, 1, "n") /\ \A k \in 1..1 : K[k] = head[k]
    BY <1>1, <1>2, <1>7, NumbersRepeat
  <1> QED
    BY <1>7, <1>8

LEMMA KindsTwoValues ==
    ASSUME NEW op \in {"BINOP", "CMP2", "EXTRACTELT", "STORE", "STOREATOMIC", "ATOMICRMW"}, NEW args, NEW K, K = KindsFor(op, args)
    PROVE  K[1] = "vt" /\ K[2] = "v" /\ Past(K, 2, "n")
  <1>1. op \in Opcodes /\ op \notin ListRepeats \cup {"PHI", "LANDINGPAD"}
    BY DEF Opcodes, FunctionCodes, ListRepeats
  <1>2. PICK head : head = Leading(FunctionCodes[op], args)
    OBVIOUS
  <1>3. head = <<"vt", "v", "n">> \/ head = <<"vt", "v">> \/ head = <<"vt", "v", "n", "n", "n", "n">>
    BY <1>1, <1>2, HeadsAre
  <1>4. ASSUME head = <<"vt", "v", "n">> PROVE head[1] = "vt" /\ head[2] = "v" /\ EndsAs(head, 2, "n")
    <2>1. IsSeq(head) /\ Len(head) = 3
      BY <1>4 DEF IsSeq
    <2> QED
      BY <1>4, <2>1 DEF EndsAs
  <1>5. ASSUME head = <<"vt", "v">> PROVE head[1] = "vt" /\ head[2] = "v" /\ EndsAs(head, 2, "n")
    <2>1. IsSeq(head) /\ Len(head) = 2
      BY <1>5 DEF IsSeq
    <2> QED
      BY <1>5, <2>1 DEF EndsAs
  <1>6. ASSUME head = <<"vt", "v", "n", "n", "n", "n">> PROVE head[1] = "vt" /\ head[2] = "v" /\ EndsAs(head, 2, "n")
    <2>1. IsSeq(head) /\ Len(head) = 6
      BY <1>6 DEF IsSeq
    <2> QED
      BY <1>6, <2>1 DEF EndsAs
  <1>7. head[1] = "vt" /\ head[2] = "v" /\ EndsAs(head, 2, "n")
    BY <1>3, <1>4, <1>5, <1>6
  <1>8. Past(K, 2, "n") /\ \A k \in 1..2 : K[k] = head[k]
    BY <1>1, <1>2, <1>7, NumbersRepeat
  <1> QED
    BY <1>7, <1>8

LEMMA KindsTwoTyped ==
    ASSUME NEW op \in {"INSERTVAL"}, NEW args, NEW K, K = KindsFor(op, args)
    PROVE  K[1] = "vt" /\ K[2] = "vt" /\ Past(K, 2, "n")
  <1>1. op \in Opcodes /\ op \notin ListRepeats \cup {"PHI", "LANDINGPAD"}
    BY DEF Opcodes, FunctionCodes, ListRepeats
  <1>2. PICK head : head = Leading(FunctionCodes[op], args)
    OBVIOUS
  <1>3. head = <<"vt", "vt">>
    BY <1>1, <1>2, HeadsAre
  <1>4. ASSUME head = <<"vt", "vt">> PROVE head[1] = "vt" /\ head[2] = "vt" /\ EndsAs(head, 2, "n")
    <2>1. IsSeq(head) /\ Len(head) = 2
      BY <1>4 DEF IsSeq
    <2> QED
      BY <1>4, <2>1 DEF EndsAs
  <1>5. head[1] = "vt" /\ head[2] = "vt" /\ EndsAs(head, 2, "n")
    BY <1>3, <1>4
  <1>6. Past(K, 2, "n") /\ \A k \in 1..2 : K[k] = head[k]
    BY <1>1, <1>2, <1>5, NumbersRepeat
  <1> QED
    BY <1>5, <1>6

LEMMA KindsSelected ==
    ASSUME NEW op \in {"VSELECT"}, NEW args, NEW K, K = KindsFor(op, args)
    PROVE  K[1] = "vt" /\ K[2] = "v" /\ K[3] = "vt" /\ Past(K, 3, "n")
  <1>1. op \in Opcodes /\ op \notin ListRepeats \cup {"PHI", "LANDINGPAD"}
    BY DEF Opcodes, FunctionCodes, ListRepeats
  <1>2. PICK head : head = Leading(FunctionCodes[op], args)
    OBVIOUS
  <1>3. head = <<"vt", "v", "vt">>
    BY <1>1, <1>2, HeadsAre
  <1>4. ASSUME head = <<"vt", "v", "vt">> PROVE head[1] = "vt" /\ head[2] = "v" /\ head[3] = "vt" /\ EndsAs(head, 3, "n")
    <2>1. IsSeq(head) /\ Len(head) = 3
      BY <1>4 DEF IsSeq
    <2> QED
      BY <1>4, <2>1 DEF EndsAs
  <1>5. head[1] = "vt" /\ head[2] = "v" /\ head[3] = "vt" /\ EndsAs(head, 3, "n")
    BY <1>3, <1>4
  <1>6. Past(K, 3, "n") /\ \A k \in 1..3 : K[k] = head[k]
    BY <1>1, <1>2, <1>5, NumbersRepeat
  <1> QED
    BY <1>5, <1>6

LEMMA KindsThreeValues ==
    ASSUME NEW op \in {"INSERTELT", "SHUFFLEVEC", "CMPXCHG"}, NEW args, NEW K, K = KindsFor(op, args)
    PROVE  K[1] = "vt" /\ K[2] = "v" /\ K[3] = "v" /\ Past(K, 3, "n")
  <1>1. op \in Opcodes /\ op \notin ListRepeats \cup {"PHI", "LANDINGPAD"}
    BY DEF Opcodes, FunctionCodes, ListRepeats
  <1>2. PICK head : head = Leading(FunctionCodes[op], args)
    OBVIOUS
  <1>3. head = <<"vt", "v", "v">> \/ head = <<"vt", "v", "v", "n", "n", "n">>
    BY <1>1, <1>2, HeadsAre
  <1>4. ASSUME head = <<"vt", "v", "v">> PROVE head[1] = "vt" /\ head[2] = "v" /\ head[3] = "v" /\ EndsAs(head, 3, "n")
    <2>1. IsSeq(head) /\ Len(head) = 3
      BY <1>4 DEF IsSeq
    <2> QED
      BY <1>4, <2>1 DEF EndsAs
  <1>5. ASSUME head = <<"vt", "v", "v", "n", "n", "n">> PROVE head[1] = "vt" /\ head[2] = "v" /\ head[3] = "v" /\ EndsAs(head, 3, "n")
    <2>1. IsSeq(head) /\ Len(head) = 6
      BY <1>5 DEF IsSeq
    <2> QED
      BY <1>5, <2>1 DEF EndsAs
  <1>6. head[1] = "vt" /\ head[2] = "v" /\ head[3] = "v" /\ EndsAs(head, 3, "n")
    BY <1>3, <1>4, <1>5
  <1>7. Past(K, 3, "n") /\ \A k \in 1..3 : K[k] = head[k]
    BY <1>1, <1>2, <1>6, NumbersRepeat
  <1> QED
    BY <1>6, <1>7

LEMMA KindsNumbersValue ==
    ASSUME NEW op \in {"BR", "SWITCH"}, NEW args, NEW K, K = KindsFor(op, args)
    PROVE  K[1] = "n" /\ K[2] = "n" /\ K[3] = "v" /\ Past(K, 3, "n")
  <1>1. op \in Opcodes /\ op \notin ListRepeats \cup {"PHI", "LANDINGPAD"}
    BY DEF Opcodes, FunctionCodes, ListRepeats
  <1>2. PICK head : head = Leading(FunctionCodes[op], args)
    OBVIOUS
  <1>3. head = <<"n", "n", "v">> \/ head = <<"n", "n", "v", "n", "n">>
    BY <1>1, <1>2, HeadsAre
  <1>4. ASSUME head = <<"n", "n", "v">> PROVE head[1] = "n" /\ head[2] = "n" /\ head[3] = "v" /\ EndsAs(head, 3, "n")
    <2>1. IsSeq(head) /\ Len(head) = 3
      BY <1>4 DEF IsSeq
    <2> QED
      BY <1>4, <2>1 DEF EndsAs
  <1>5. ASSUME head = <<"n", "n", "v", "n", "n">> PROVE head[1] = "n" /\ head[2] = "n" /\ head[3] = "v" /\ EndsAs(head, 3, "n")
    <2>1. IsSeq(head) /\ Len(head) = 5
      BY <1>5 DEF IsSeq
    <2> QED
      BY <1>5, <2>1 DEF EndsAs
  <1>6. head[1] = "n" /\ head[2] = "n" /\ head[3] = "v" /\ EndsAs(head, 3, "n")
    BY <1>3, <1>4, <1>5
  <1>7. Past(K, 3, "n") /\ \A k \in 1..3 : K[k] = head[k]
    BY <1>1, <1>2, <1>6, NumbersRepeat
  <1> QED
    BY <1>6, <1>7

LEMMA KindsNumberValue ==
    ASSUME NEW op \in {"INDIRECTBR", "VAARG"}, NEW args, NEW K, K = KindsFor(op, args)
    PROVE  K[1] = "n" /\ K[2] = "v" /\ Past(K, 2, "n")
  <1>1. op \in Opcodes /\ op \notin ListRepeats \cup {"PHI", "LANDINGPAD"}
    BY DEF Opcodes, FunctionCodes, ListRepeats
  <1>2. PICK head : head = Leading(FunctionCodes[op], args)
    OBVIOUS
  <1>3. head = <<"n", "v">> \/ head = <<"n", "v", "n">>
    BY <1>1, <1>2, HeadsAre
  <1>4. ASSUME head = <<"n", "v">> PROVE head[1] = "n" /\ head[2] = "v" /\ EndsAs(head, 2, "n")
    <2>1. IsSeq(head) /\ Len(head) = 2
      BY <1>4 DEF IsSeq
    <2> QED
      BY <1>4, <2>1 DEF EndsAs
  <1>5. ASSUME head = <<"n", "v", "n">> PROVE head[1] = "n" /\ head[2] = "v" /\ EndsAs(head, 2, "n")
    <2>1. IsSeq(head) /\ Len(head) = 3
      BY <1>5 DEF IsSeq
    <2> QED
      BY <1>5, <2>1 DEF EndsAs
  <1>6. head[1] = "n" /\ head[2] = "v" /\ EndsAs(head, 2, "n")
    BY <1>3, <1>4, <1>5
  <1>7. Past(K, 2, "n") /\ \A k \in 1..2 : K[k] = head[k]
    BY <1>1, <1>2, <1>6, NumbersRepeat
  <1> QED
    BY <1>6, <1>7

LEMMA KindsNumbers ==
    ASSUME NEW op \in {"ALLOCA", "FENCE", "UNREACHABLE"}, NEW args, NEW K, K = KindsFor(op, args)
    PROVE  Past(K, 0, "n")
  <1>1. op \in Opcodes /\ op \notin ListRepeats \cup {"PHI", "LANDINGPAD"}
    BY DEF Opcodes, FunctionCodes, ListRepeats
  <1>2. PICK head : head = Leading(FunctionCodes[op], args)
    OBVIOUS
  <1>3. head = <<"n", "n", "n", "n">> \/ head = <<"n", "n">> \/ head = <<>>
    BY <1>1, <1>2, HeadsAre
  <1>4. ASSUME head = <<"n", "n", "n", "n">> PROVE EndsAs(head, 0, "n")
    <2>1. IsSeq(head) /\ Len(head) = 4
      BY <1>4 DEF IsSeq
    <2> QED
      BY <1>4, <2>1 DEF EndsAs
  <1>5. ASSUME head = <<"n", "n">> PROVE EndsAs(head, 0, "n")
    <2>1. IsSeq(head) /\ Len(head) = 2
      BY <1>5 DEF IsSeq
    <2> QED
      BY <1>5, <2>1 DEF EndsAs
  <1>6. ASSUME head = <<>> PROVE EndsAs(head, 0, "n")
    <2>1. IsSeq(head) /\ Len(head) = 0
      BY <1>6 DEF IsSeq
    <2> QED
      BY <1>6, <2>1 DEF EndsAs
  <1>7. EndsAs(head, 0, "n")
    BY <1>3, <1>4, <1>5, <1>6
  <1>8. Past(K, 0, "n") /\ \A k \in 1..0 : K[k] = head[k]
    BY <1>1, <1>2, <1>7, NumbersRepeat
  <1> QED
    BY <1>7, <1>8

\* The operands of an instruction are values.
OperandsIn(ops, n) == IsSeq(ops) /\ \A k \in 1..Len(ops) : ops[k] \in 0..(n - 1)

LEMMA OpsAre ==
    ASSUME NEW mod, NEW tys, NEW inst, IsInstruction(mod, tys, inst)
    PROVE  /\ inst.op \in Opcodes /\ IsSeq(inst.lits) /\ IsSeq(inst.blocks) /\ IsSeq(inst.ops)
           /\ inst.op \notin Calls => OperandsIn(inst.ops, Len(tys))
  <1>1. /\ inst.op \in Opcodes /\ IsSeq(inst.lits) /\ inst.blocks \in Seq(Nat) /\ inst.ops \in Seq(Nat)
        /\ inst.op \notin Calls => inst.ops \in Seq(0..(Len(tys) - 1))
    BY DEF IsInstruction
  <1>2. IsSeq(inst.blocks) /\ IsSeq(inst.ops) /\ DOMAIN inst.ops = 1..Len(inst.ops)
    BY <1>1, SeqIs
  <1>3. inst.op \notin Calls => \A k \in 1..Len(inst.ops) : inst.ops[k] \in 0..(Len(tys) - 1)
    BY <1>1
  <1> QED
    BY <1>1, <1>2, <1>3 DEF OperandsIn

LEMMA NumbersAt ==
    ASSUME NEW K, NEW d \in Nat, Past(K, d, "n")
    PROVE  K[d + 1] = "n" /\ K[d + 2] = "n" /\ K[d + 3] = "n" /\ K[d + 4] = "n"
  BY DEF Past

LEMMA CastPushes ==
    ASSUME NEW mod, NEW tys, NEW inst, IsInstruction(mod, tys, inst), inst.op = "CAST", NEW args
    PROVE  Pushes(mod, tys, inst, args)
  <1>1. PICK K, n, ops : K = KindsFor(inst.op, args) /\ n = Len(tys) /\ ops = inst.ops
    OBVIOUS
  <1>2. K[1] = "vt" /\ Past(K, 1, "n")
    BY <1>1, KindsValue
  <1>3. K[2] = "n" /\ K[3] = "n"
    BY <1>2, NumbersAt
  <1>4. ops[1] \in 0..(n - 1)
    <2>1. Len(ops) = 1
      BY <1>1 DEF IsInstruction
    <2>2. OperandsIn(ops, n)
      BY <1>1, OpsAre DEF Calls
    <2> QED
      BY <2>1, <2>2 DEF OperandsIn
  <1>5. PICK a, b, c, S : a = VT(ops[1]) /\ b = N(inst.ty) /\ c = N(GetEncodedCastOpcode[inst.lits[1]]) /\ S = <<a, b, c>>
    OBVIOUS
  <1>6. Operands(mod, tys, inst) = S
    BY <1>1, <1>5 DEF Operands
  <1>7. OperandFits(K[1], a, n) /\ OperandFits(K[2], b, n) /\ OperandFits(K[3], c, n)
    BY <1>2, <1>3, <1>4, <1>5, PushesFit
  <1>8. Fitting(K, 0, S, n)
    BY <1>5, <1>7, FitThree
  <1> QED
    BY <1>1, <1>6, <1>8 DEF Pushes

LEMMA BinopPushes ==
    ASSUME NEW mod, NEW tys, NEW inst, IsInstruction(mod, tys, inst), inst.op = "BINOP", NEW args
    PROVE  Pushes(mod, tys, inst, args)
  <1>1. PICK K, n, ops : K = KindsFor(inst.op, args) /\ n = Len(tys) /\ ops = inst.ops
    OBVIOUS
  <1>2. K[1] = "vt" /\ K[2] = "v" /\ Past(K, 2, "n")
    BY <1>1, KindsTwoValues
  <1>3. K[3] = "n" /\ Past(K, 3, "n")
    BY <1>2, NumbersAt, PastFurther
  <1>4. ops[1] \in 0..(n - 1) /\ ops[2] \in 0..(n - 1)
    <2>1. Len(ops) = 2
      BY <1>1 DEF IsInstruction
    <2>2. OperandsIn(ops, n)
      BY <1>1, OpsAre DEF Calls
    <2> QED
      BY <2>1, <2>2 DEF OperandsIn
  <1>5. PICK a, b, c, S, f, t : /\ a = VT(ops[1]) /\ b = V(ops[2]) /\ c = N(GetEncodedBinaryOpcode[inst.lits[1]])
                                /\ S = <<a, b, c>> /\ f = GetOptimizationFlags(inst.lits[1], inst.lits[2])
                                /\ t = One(f # 0, N(f))
    OBVIOUS
  <1>6. Operands(mod, tys, inst) = S \o t
    BY <1>1, <1>5 DEF Operands
  <1>7. OperandFits(K[1], a, n) /\ OperandFits(K[2], b, n) /\ OperandFits(K[3], c, n)
    BY <1>2, <1>3, <1>4, <1>5, PushesFit
  <1>8. Fitting(K, 0, S, n) /\ Len(S) = 3
    BY <1>5, <1>7, FitThree
  <1>9. Fitting(K, 0 + Len(S), t, n)
    <2>1. (f # 0) \in BOOLEAN
      OBVIOUS
    <2>2. Fitting(K, 3, t, n)
      BY <1>3, <1>5, <2>1, NumberAt
    <2> QED
      BY <1>8, <2>2
  <1>10. Fitting(K, 0, S \o t, n)
    BY <1>8, <1>9, FitJoin
  <1> QED
    BY <1>1, <1>6, <1>10 DEF Pushes

\* Values with their types, as many as there are, and then numbers.
LEMMA ListPushes ==
    ASSUME NEW mod, NEW tys, NEW inst, IsInstruction(mod, tys, inst), NEW args,
           inst.op \in {"GEP", "INBOUNDS_GEP", "EXTRACTVAL", "INSERTVAL", "RESUME", "RET"}
    PROVE  Pushes(mod, tys, inst, args)
  <1>1. PICK K, n, ops, lits : K = KindsFor(inst.op, args) /\ n = Len(tys) /\ ops = inst.ops /\ lits = inst.lits
    OBVIOUS
  <1>2. OperandsIn(ops, n) /\ IsSeq(lits) /\ inst.op \in Opcodes
    BY <1>1, OpsAre DEF Calls
  <1>3. Operands(mod, tys, inst) = Map(VT, ops) \o Map(N, lits)
    BY <1>1 DEF Operands
  <1>4. PICK S, t : S = [k \in DOMAIN ops |-> VT(ops[k])] /\ t = [k \in DOMAIN lits |-> N(lits[k])]
    OBVIOUS
  <1>5. Map(VT, ops) = S /\ Map(N, lits) = t
    BY <1>4 DEF Map
  <1>6. IsSeq(S) /\ Len(S) = Len(ops) /\ DOMAIN ops = 1..Len(ops)
    <2>1. DOMAIN S = DOMAIN ops /\ S = [k \in DOMAIN S |-> S[k]]
      BY <1>4
    <2> QED
      BY <1>2, <2>1, MapShape DEF OperandsIn
  <1>7. IsSeq(t) /\ Len(t) = Len(lits)
    <2>1. DOMAIN t = DOMAIN lits /\ t = [k \in DOMAIN t |-> t[k]]
      BY <1>4
    <2> QED
      BY <1>2, <2>1, MapShape
  <1>8. /\ \A k \in 1..Len(S) : K[k] = "vt"
        /\ Len(t) = 0 \/ Past(K, Len(S), "n")
    <2>1. CASE inst.op \in {"EXTRACTVAL", "RESUME"}
      <3>1. K[1] = "vt" /\ Past(K, 1, "n")
        BY <1>1, <2>1, KindsValue
      <3>2. Len(ops) = 1
        BY <1>1, <2>1 DEF IsInstruction
      <3> QED
        BY <1>6, <3>1, <3>2
    <2>2. CASE inst.op = "INSERTVAL"
      <3>1. K[1] = "vt" /\ K[2] = "vt" /\ Past(K, 2, "n")
        BY <1>1, <2>2, KindsTwoTyped
      <3>2. Len(ops) = 2
        BY <1>1, <2>2 DEF IsInstruction
      <3> QED
        BY <1>6, <3>1, <3>2
    <2>3. CASE inst.op \in {"GEP", "INBOUNDS_GEP", "RET"}
      <3>1. lits = <<>>
        BY <1>1, <2>3 DEF IsInstruction
      <3>2. Len(lits) = 0
        BY <3>1
      <3>3. PICK head, loop : head = Leading(FunctionCodes[inst.op], args) /\ loop = Repeated(FunctionCodes[inst.op])
        OBVIOUS
      <3>4. head = Empty /\ loop = <<"vt">>
        BY <1>2, <2>3, <3>3, HeadsAre, RepeatedIs DEF Empty, ListRepeats
      <3>5. K = KindsOf(head, loop)
        BY <1>1, <3>3 DEF KindsFor
      <3>6. IsSeq(head) /\ Len(head) = 0
        BY <3>4, NoneSeq
      <3>7. Past(K, Len(head), "vt")
        BY <3>4, <3>5, <3>6, KindsOne
      <3>8. ASSUME NEW k \in 1..Len(S) PROVE K[k] = "vt"
        <4>1. k \in Nat \ {0} /\ 0 + k = k
          BY <1>6, SeqShape
        <4> QED
          BY <3>6, <3>7, <4>1 DEF Past
      <3> QED
        BY <1>7, <3>2, <3>8
    <2> QED
      BY <2>1, <2>2, <2>3
  <1>9. Fitting(K, 0, S, n)
    <2>1. ASSUME NEW k \in 1..Len(S) PROVE OperandFits(K[0 + k], S[k], n)
      <3>1. k \in Nat /\ K[0 + k] = "vt" /\ S[k] = VT(ops[k]) /\ ops[k] \in 0..(n - 1)
        BY <1>2, <1>4, <1>6, <1>8, SeqShape DEF OperandsIn
      <3> QED
        BY <3>1, PushesFit
    <2> QED
      BY <1>6, <2>1 DEF Fitting
  <1>10. Fitting(K, 0 + Len(S), t, n)
    <2>1. CASE Len(t) = 0
      BY <1>7, <2>1 DEF Fitting
    <2>2. CASE Past(K, Len(S), "n")
      <3>1. Fitting(K, Len(S), Map(N, lits), n)
        BY <1>2, <2>2, NumbersFit
      <3>2. Len(S) \in Nat /\ 0 + Len(S) = Len(S)
        BY <1>6, SeqShape
      <3> QED
        BY <1>5, <3>1, <3>2
    <2> QED
      BY <1>8, <2>1, <2>2
  <1>11. Fitting(K, 0, S \o t, n)
    BY <1>9, <1>10, FitJoin
  <1> QED
    BY <1>1, <1>3, <1>5, <1>11 DEF Pushes

LEMMA ValuesFit ==
    ASSUME NEW K, NEW d \in Nat, NEW n, NEW c, IsSeq(c), \A k \in 1..Len(c) : K[d + k] = "v" /\ c[k] \in 0..(n - 1)
    PROVE  Fitting(K, d, Map(V, c), n) /\ Len(Map(V, c)) = Len(c)
  <1>1. PICK t : t = [k \in DOMAIN c |-> V(c[k])]
    OBVIOUS
  <1>2. DOMAIN t = DOMAIN c /\ t = [k \in DOMAIN t |-> t[k]]
    BY <1>1
  <1>3. IsSeq(t) /\ Len(t) = Len(c) /\ DOMAIN c = 1..Len(c)
    BY <1>2, MapShape
  <1>4. ASSUME NEW k \in 1..Len(t) PROVE OperandFits(K[d + k], t[k], n)
    <2>1. t[k] = V(c[k]) /\ K[d + k] = "v" /\ c[k] \in 0..(n - 1)
      BY <1>1, <1>3
    <2> QED
      BY <2>1, PushesFit
  <1>5. Fitting(K, d, t, n)
    BY <1>3, <1>4 DEF Fitting
  <1> QED
    BY <1>1, <1>3, <1>5 DEF Map

\* The operands after the first.
RestOf(s) == SubSeq(s, 2, Len(s))

LEMMA RestIs ==
    ASSUME NEW s, IsSeq(s), Len(s) >= 1, NEW t, t = RestOf(s)
    PROVE  IsSeq(t) /\ Len(t) = Len(s) - 1 /\ \A k \in 1..Len(t) : t[k] = s[k + 1]
  <1>1. PICK n : n = Len(s) - 1
    OBVIOUS
  <1>2. n \in Nat /\ 2 \in Nat /\ 2 + n <= Len(s) + 1 /\ 2 + n - 1 = Len(s)
    BY <1>1, SeqShape
  <1>3. Slice(SubSeq(s, 2, 2 + n - 1), s, 2, n)
    BY <1>2, SliceIs
  <1>4. t = SubSeq(s, 2, 2 + n - 1)
    BY <1>2 DEF RestOf
  <1>5. Slice(t, s, 2, n)
    BY <1>3, <1>4
  <1>6. IsSeq(t) /\ Len(t) = n /\ \A k \in 1..n : t[k] = s[2 + k - 1]
    BY <1>5 DEF Slice
  <1>7. \A k \in 1..n : 2 + k - 1 = k + 1
    BY <1>2
  <1> QED
    BY <1>1, <1>6, <1>7

LEMMA ValuesPush ==
    ASSUME NEW mod, NEW tys, NEW inst, IsInstruction(mod, tys, inst), NEW args,
           inst.op \in {"EXTRACTELT", "INSERTELT", "SHUFFLEVEC", "CMP2"}
    PROVE  Pushes(mod, tys, inst, args)
  <1>1. PICK K, n, ops, lits : K = KindsFor(inst.op, args) /\ n = Len(tys) /\ ops = inst.ops /\ lits = inst.lits
    OBVIOUS
  <1>2. OperandsIn(ops, n) /\ IsSeq(lits)
    BY <1>1, OpsAre DEF Calls
  <1>3. PICK a, c : a = VT(ops[1]) /\ c = RestOf(ops)
    OBVIOUS
  <1>4. Operands(mod, tys, inst) = (<<a>> \o Map(V, c)) \o Map(N, lits)
    BY <1>1, <1>3 DEF Operands, RestOf
  <1>5. K[1] = "vt" /\ Len(ops) >= 2 /\ (\A k \in 2..Len(ops) : K[k] = "v") /\ Past(K, Len(ops), "n")
    <2>1. CASE inst.op \in {"EXTRACTELT", "CMP2"}
      <3>1. K[1] = "vt" /\ K[2] = "v" /\ Past(K, 2, "n")
        BY <1>1, <2>1, KindsTwoValues
      <3>2. Len(ops) = 2
        BY <1>1, <2>1 DEF IsInstruction
      <3> QED
        BY <3>1, <3>2
    <2>2. CASE inst.op \in {"INSERTELT", "SHUFFLEVEC"}
      <3>1. K[1] = "vt" /\ K[2] = "v" /\ K[3] = "v" /\ Past(K, 3, "n")
        BY <1>1, <2>2, KindsThreeValues
      <3>2. Len(ops) = 3
        BY <1>1, <2>2 DEF IsInstruction
      <3> QED
        BY <3>1, <3>2
    <2> QED
      BY <2>1, <2>2
  <1>6. Fitting(K, 0, <<a>>, n) /\ Len(<<a>>) = 1
    <2>1. ops[1] \in 0..(n - 1)
      BY <1>2, <1>5, SeqShape DEF OperandsIn
    <2>2. OperandFits(K[0 + 1], a, n)
      BY <1>3, <1>5, <2>1, PushesFit
    <2> QED
      BY <2>2, FitOne
  <1>7. IsSeq(c) /\ Len(c) = Len(ops) - 1 /\ (\A k \in 1..Len(c) : c[k] = ops[k + 1]) /\ Len(ops) \in Nat
    BY <1>2, <1>3, <1>5, RestIs, SeqShape DEF OperandsIn
  <1>8. \A k \in 1..Len(c) : K[1 + k] = "v" /\ c[k] \in 0..(n - 1)
    BY <1>2, <1>5, <1>7 DEF OperandsIn
  <1>9. Fitting(K, 1, Map(V, c), n) /\ Len(Map(V, c)) = Len(c)
    BY <1>7, <1>8, ValuesFit
  <1>10. Fitting(K, 0, <<a>> \o Map(V, c), n) /\ Len(<<a>> \o Map(V, c)) = Len(ops)
    <2>1. Fitting(K, 0 + Len(<<a>>), Map(V, c), n)
      BY <1>6, <1>9
    <2>2. /\ Fitting(K, 0, <<a>> \o Map(V, c), n)
          /\ Len(<<a>> \o Map(V, c)) = Len(<<a>>) + Len(Map(V, c))
      <3>1. PICK b, m : b = <<a>> /\ m = Map(V, c)
        OBVIOUS
      <3>2. Fitting(K, 0, b, n) /\ Fitting(K, 0 + Len(b), m, n) /\ 0 \in Nat
        BY <1>6, <2>1, <3>1
      <3>3. Fitting(K, 0, b \o m, n) /\ Len(b \o m) = Len(b) + Len(m)
        BY <3>2, FitJoin
      <3> QED
        BY <3>1, <3>3
    <2> QED
      BY <1>6, <1>7, <1>9, <2>2
  <1>11. PICK S : S = <<a>> \o Map(V, c)
    OBVIOUS
  <1>12. Fitting(K, 0 + Len(S), Map(N, lits), n)
    <2>1. Fitting(K, Len(ops), Map(N, lits), n)
      BY <1>2, <1>5, NumbersFit
    <2>2. 0 + Len(S) = Len(ops)
      BY <1>7, <1>10, <1>11
    <2> QED
      BY <2>1, <2>2
  <1>13. Fitting(K, 0, S \o Map(N, lits), n)
    BY <1>10, <1>11, <1>12, FitJoin
  <1> QED
    BY <1>1, <1>4, <1>11, <1>13 DEF Pushes

LEMMA BranchPushes ==
    ASSUME NEW mod, NEW tys, NEW inst, IsInstruction(mod, tys, inst), NEW args, inst.op = "BR"
    PROVE  Pushes(mod, tys, inst, args)
  <1>1. PICK K, n, ops, bs : K = KindsFor(inst.op, args) /\ n = Len(tys) /\ ops = inst.ops /\ bs = inst.blocks
    OBVIOUS
  <1>2. OperandsIn(ops, n) /\ IsSeq(bs)
    BY <1>1, OpsAre DEF Calls
  <1>3. K[1] = "n" /\ K[2] = "n" /\ K[3] = "v"
    BY <1>1, KindsNumbersValue
  <1>4. Operands(mod, tys, inst) = Map(N, bs) \o Map(V, ops)
    BY <1>1 DEF Operands
  <1>5. (Len(ops) = 0 /\ Len(bs) = 1) \/ (Len(ops) = 1 /\ Len(bs) = 2)
    BY <1>1 DEF IsInstruction
  <1>6. PICK S : S = [k \in DOMAIN bs |-> N(bs[k])]
    OBVIOUS
  <1>7. S = Map(N, bs)
    BY <1>6 DEF Map
  <1>8. IsSeq(S) /\ Len(S) = Len(bs) /\ DOMAIN bs = 1..Len(bs)
    <2>1. DOMAIN S = DOMAIN bs /\ S = [k \in DOMAIN S |-> S[k]]
      BY <1>6
    <2> QED
      BY <1>2, <2>1, MapShape
  <1>9. Fitting(K, 0, S, n)
    <2>1. ASSUME NEW k \in 1..Len(S) PROVE OperandFits(K[0 + k], S[k], n)
      <3>1. S[k] = N(bs[k]) /\ K[0 + k] = "n"
        BY <1>3, <1>5, <1>6, <1>8
      <3> QED
        BY <3>1, PushesFit
    <2> QED
      BY <1>8, <2>1 DEF Fitting
  <1>10. \A k \in 1..Len(ops) : K[0 + Len(S) + k] = "v" /\ ops[k] \in 0..(n - 1)
    BY <1>2, <1>3, <1>5, <1>8 DEF OperandsIn
  <1>11. Fitting(K, 0 + Len(S), Map(V, ops), n)
    <2>1. 0 + Len(S) \in Nat /\ IsSeq(ops)
      BY <1>2, <1>5, <1>8 DEF OperandsIn
    <2> QED
      BY <1>10, <2>1, ValuesFit
  <1>12. Fitting(K, 0, S \o Map(V, ops), n)
    BY <1>9, <1>11, FitJoin
  <1> QED
    BY <1>1, <1>4, <1>7, <1>12 DEF Pushes

\* Three operands, and no more.
LEMMA ThreePush ==
    ASSUME NEW mod, NEW tys, NEW inst, IsInstruction(mod, tys, inst), NEW args, inst.op \in {"VSELECT", "VAARG"}
    PROVE  Pushes(mod, tys, inst, args)
  <1>1. PICK K, n, ops, S : K = KindsFor(inst.op, args) /\ n = Len(tys) /\ ops = inst.ops /\ S = Operands(mod, tys, inst)
    OBVIOUS
  <1>2. OperandsIn(ops, n)
    BY <1>1, OpsAre DEF Calls
  <1>3. CASE inst.op = "VSELECT"
    <2>1. K[1] = "vt" /\ K[2] = "v" /\ K[3] = "vt"
      BY <1>1, <1>3, KindsSelected
    <2>2. Len(ops) = 3
      BY <1>1, <1>3 DEF IsInstruction
    <2>3. PICK a, b, c : a = VT(ops[2]) /\ b = V(ops[3]) /\ c = VT(ops[1])
      OBVIOUS
    <2>4. S = <<a, b, c>>
      BY <1>1, <1>3, <2>3 DEF Operands
    <2>5. OperandFits(K[1], a, n) /\ OperandFits(K[2], b, n) /\ OperandFits(K[3], c, n)
      BY <1>2, <2>1, <2>2, <2>3, PushesFit DEF OperandsIn
    <2>6. Fitting(K, 0, S, n)
      BY <2>4, <2>5, FitThree
    <2> QED
      BY <1>1, <2>6 DEF Pushes
  <1>4. CASE inst.op = "VAARG"
    <2>1. K[1] = "n" /\ K[2] = "v" /\ Past(K, 2, "n")
      BY <1>1, <1>4, KindsNumberValue
    <2>2. Len(ops) = 1 /\ K[3] = "n"
      <3>1. Len(ops) = 1
        BY <1>1, <1>4 DEF IsInstruction
      <3>2. K[2 + 1] = "n"
        BY <2>1, NumbersAt
      <3> QED
        BY <3>1, <3>2
    <2>3. PICK a, b, c : a = N(TypeOf(tys, ops[1])) /\ b = V(ops[1]) /\ c = N(inst.ty)
      OBVIOUS
    <2>4. S = <<a, b, c>>
      BY <1>1, <1>4, <2>3 DEF Operands
    <2>5. OperandFits(K[1], a, n) /\ OperandFits(K[2], b, n) /\ OperandFits(K[3], c, n)
      BY <1>2, <2>1, <2>2, <2>3, PushesFit DEF OperandsIn
    <2>6. Fitting(K, 0, S, n)
      BY <2>4, <2>5, FitThree
    <2> QED
      BY <1>1, <2>6 DEF Pushes
  <1> QED
    BY <1>3, <1>4

\* What fits so far, and numbers from here on.
FitsSoFar(K, S, n) == Fitting(K, 0, S, n) /\ Past(K, Len(S), "n")

LEMMA NumbersFollow ==
    ASSUME NEW K, NEW S, NEW n, FitsSoFar(K, S, n), NEW t, \A d \in Nat : Past(K, d, "n") => Fitting(K, d, t, n)
    PROVE  FitsSoFar(K, S \o t, n)
  <1>1. Fitting(K, 0, S, n) /\ Past(K, Len(S), "n") /\ 0 \in Nat /\ IsSeq(S)
    BY DEF FitsSoFar, Fitting
  <1>2. Len(S) \in Nat /\ 0 + Len(S) = Len(S)
    BY <1>1, SeqShape
  <1>3. Fitting(K, 0 + Len(S), t, n)
    BY <1>1, <1>2
  <1>4. Fitting(K, 0, S \o t, n) /\ Len(S \o t) = Len(S) + Len(t) /\ Len(t) \in Nat
    BY <1>1, <1>3, FitJoin
  <1>5. PICK e : e = Len(S \o t)
    OBVIOUS
  <1>6. e \in Nat /\ e >= Len(S)
    BY <1>2, <1>4, <1>5
  <1>7. Past(K, e, "n")
    BY <1>1, <1>2, <1>6, PastFurther
  <1> QED
    BY <1>4, <1>5, <1>7 DEF FitsSoFar

LEMMA AlignFollows ==
    ASSUME NEW K, NEW S, NEW n, FitsSoFar(K, S, n), NEW lits, IsSeq(lits), Len(lits) >= 1
    PROVE  FitsSoFar(K, S \o AlignFirst(lits), n)
  <1>1. \A d \in Nat : Past(K, d, "n") => Fitting(K, d, AlignFirst(lits), n)
    BY AlignFits
  <1> QED
    BY <1>1, NumbersFollow

LEMMA AtomicFollows ==
    ASSUME NEW K, NEW S, NEW n, FitsSoFar(K, S, n), NEW order, NEW scope
    PROVE  FitsSoFar(K, S \o Atomic(order, scope), n)
  <1>1. \A d \in Nat : Past(K, d, "n") => Fitting(K, d, Atomic(order, scope), n)
    BY AtomicFits
  <1> QED
    BY <1>1, NumbersFollow

LEMMA MapFollows ==
    ASSUME NEW K, NEW S, NEW n, FitsSoFar(K, S, n), NEW c, IsSeq(c)
    PROVE  FitsSoFar(K, S \o Map(N, c), n)
  <1>1. \A d \in Nat : Past(K, d, "n") => Fitting(K, d, Map(N, c), n)
    BY NumbersFit
  <1> QED
    BY <1>1, NumbersFollow

LEMMA FirstTwoIs ==
    ASSUME NEW s, IsSeq(s), Len(s) >= 2, NEW t, t = SubSeq(s, 1, 2)
    PROVE  IsSeq(t) /\ Len(t) = 2 /\ t[1] = s[1] /\ t[2] = s[2]
  <1>1. 1 \in Nat /\ 2 \in Nat /\ 1 + 2 <= Len(s) + 1 /\ 1 + 2 - 1 = 2
    BY SeqShape
  <1>2. Slice(SubSeq(s, 1, 1 + 2 - 1), s, 1, 2)
    BY <1>1, SliceIs
  <1>3. Slice(t, s, 1, 2)
    BY <1>1, <1>2
  <1>4. IsSeq(t) /\ Len(t) = 2 /\ \A k \in 1..2 : t[k] = s[1 + k - 1]
    BY <1>3 DEF Slice
  <1> QED
    BY <1>4

\* What an access starts with: the pointer, and the value that is stored.
LEMMA PointerFits ==
    ASSUME NEW mod, NEW tys, NEW inst, IsInstruction(mod, tys, inst), NEW args, NEW K, K = KindsFor(inst.op, args),
           inst.op \in {"LOAD", "LOADATOMIC"}, NEW S, S = <<VT(inst.ops[1])>>
    PROVE  FitsSoFar(K, S, Len(tys))
  <1>1. PICK n, ops, a : n = Len(tys) /\ ops = inst.ops /\ a = VT(ops[1])
    OBVIOUS
  <1>2. OperandsIn(ops, n)
    BY <1>1, OpsAre DEF Calls
  <1>3. Len(ops) = 1
    BY <1>1 DEF IsInstruction
  <1>4. K[1] = "vt" /\ Past(K, 1, "n")
    BY KindsValue
  <1>5. OperandFits(K[0 + 1], a, n)
    BY <1>1, <1>2, <1>3, <1>4, PushesFit DEF OperandsIn
  <1>6. Fitting(K, 0, <<a>>, n) /\ Len(<<a>>) = 1
    BY <1>5, FitOne
  <1> QED
    BY <1>1, <1>4, <1>6 DEF FitsSoFar

LEMMA StoredFits ==
    ASSUME NEW mod, NEW tys, NEW inst, IsInstruction(mod, tys, inst), NEW args, NEW K, K = KindsFor(inst.op, args),
           inst.op \in {"STORE", "STOREATOMIC"}, NEW S, S = <<VT(inst.ops[2]), V(inst.ops[1])>>
    PROVE  FitsSoFar(K, S, Len(tys))
  <1>1. PICK n, ops, a, b : n = Len(tys) /\ ops = inst.ops /\ a = VT(ops[2]) /\ b = V(ops[1])
    OBVIOUS
  <1>2. OperandsIn(ops, n)
    BY <1>1, OpsAre DEF Calls
  <1>3. Len(ops) = 2
    BY <1>1 DEF IsInstruction
  <1>4. K[1] = "vt" /\ K[2] = "v" /\ Past(K, 2, "n")
    BY KindsTwoValues
  <1>5. OperandFits(K[1], a, n) /\ OperandFits(K[2], b, n)
    BY <1>1, <1>2, <1>3, <1>4, PushesFit DEF OperandsIn
  <1>6. Fitting(K, 0, S, n) /\ Len(S) = 2
    BY <1>1, <1>5, FitTwo
  <1> QED
    BY <1>1, <1>4, <1>6 DEF FitsSoFar

LEMMA AccessPushes ==
    ASSUME NEW mod, NEW tys, NEW inst, IsInstruction(mod, tys, inst), NEW args,
           inst.op \in {"LOAD", "STORE", "LOADATOMIC", "STOREATOMIC"}
    PROVE  Pushes(mod, tys, inst, args)
  <1>1. PICK K, n, lits, S : K = KindsFor(inst.op, args) /\ n = Len(tys) /\ lits = inst.lits /\ S = Operands(mod, tys, inst)
    OBVIOUS
  <1>2. IsSeq(lits)
    BY <1>1, OpsAre
  <1>3. PICK a, b : a = <<VT(inst.ops[1])>> /\ b = <<VT(inst.ops[2]), V(inst.ops[1])>>
    OBVIOUS
  <1>4. /\ inst.op \in {"LOAD", "LOADATOMIC"} => FitsSoFar(K, a, n)
        /\ inst.op \in {"STORE", "STOREATOMIC"} => FitsSoFar(K, b, n)
    BY <1>1, <1>3, PointerFits, StoredFits
  <1>5. FitsSoFar(K, S, n)
    <2>1. CASE inst.op \in {"LOAD", "STORE"}
      <3>1. Len(lits) >= 1
        <4>1. inst.op = "LOAD" => Len(inst.lits) = 2
          BY DEF IsInstruction
        <4>2. inst.op = "STORE" => Len(inst.lits) = 2
          BY DEF IsInstruction
        <4> QED
          BY <1>1, <2>1, <4>1, <4>2
      <3>2. S = (IF inst.op = "LOAD" THEN a ELSE b) \o AlignFirst(lits)
        BY <1>1, <1>3, <2>1 DEF Operands
      <3> QED
        BY <1>2, <1>4, <2>1, <3>1, <3>2, AlignFollows
    <2>2. CASE inst.op \in {"LOADATOMIC", "STOREATOMIC"}
      <3>1. Len(lits) >= 2
        <4>1. inst.op = "LOADATOMIC" => Len(inst.lits) = 4
          BY DEF IsInstruction
        <4>2. inst.op = "STOREATOMIC" => Len(inst.lits) = 4
          BY DEF IsInstruction
        <4> QED
          BY <1>1, <2>2, <4>1, <4>2
      <3>2. PICK c, p, o, s : /\ c = SubSeq(lits, 1, 2) /\ p = (IF inst.op = "LOADATOMIC" THEN a ELSE b)
                              /\ o = lits[3] /\ s = lits[4]
        OBVIOUS
      <3>3. IsSeq(c) /\ Len(c) >= 1
        <4>1. IsSeq(c) /\ Len(c) = 2
          BY <1>2, <3>1, <3>2, FirstTwoIs
        <4> QED
          BY <4>1
      <3>4. S = (p \o AlignFirst(c)) \o Atomic(o, s)
        BY <1>1, <1>3, <2>2, <3>2 DEF Operands
      <3>5. FitsSoFar(K, p, n)
        BY <1>4, <2>2, <3>2
      <3>6. FitsSoFar(K, p \o AlignFirst(c), n)
        BY <3>3, <3>5, AlignFollows
      <3> QED
        BY <3>4, <3>6, AtomicFollows
    <2> QED
      BY <2>1, <2>2
  <1> QED
    BY <1>1, <1>5 DEF Pushes, FitsSoFar

LEMMA ExchangePushes ==
    ASSUME NEW mod, NEW tys, NEW inst, IsInstruction(mod, tys, inst), NEW args, inst.op \in {"CMPXCHG", "ATOMICRMW"}
    PROVE  Pushes(mod, tys, inst, args)
  <1>1. PICK K, n, ops, S, lits : /\ K = KindsFor(inst.op, args) /\ n = Len(tys) /\ ops = inst.ops
                                  /\ S = Operands(mod, tys, inst) /\ lits = inst.lits
    OBVIOUS
  <1>2. OperandsIn(ops, n)
    BY <1>1, OpsAre DEF Calls
  <1>3. \E a, o, s : FitsSoFar(K, a, n) /\ S = a \o Atomic(o, s)
    <2>1. CASE inst.op = "CMPXCHG"
      <3>1. K[1] = "vt" /\ K[2] = "v" /\ K[3] = "v" /\ Past(K, 3, "n")
        BY <1>1, <2>1, KindsThreeValues
      <3>2. Len(ops) = 3
        BY <1>1, <2>1 DEF IsInstruction
      <3>3. PICK a, b, c, e, t : a = VT(ops[1]) /\ b = V(ops[2]) /\ c = V(ops[3]) /\ e = N(lits[1]) /\ t = <<a, b, c, e>>
        OBVIOUS
      <3>4. S = t \o Atomic(lits[2], lits[3])
        BY <1>1, <2>1, <3>3 DEF Operands
      <3>5. K[4] = "n" /\ Past(K, 4, "n")
        BY <3>1, NumbersAt, PastFurther
      <3>6. OperandFits(K[1], a, n) /\ OperandFits(K[2], b, n) /\ OperandFits(K[3], c, n) /\ OperandFits(K[4], e, n)
        BY <1>2, <3>1, <3>2, <3>3, <3>5, PushesFit DEF OperandsIn
      <3>7. Fitting(K, 0, t, n) /\ Len(t) = 4
        BY <3>3, <3>6, FitFour
      <3> QED
        BY <3>4, <3>5, <3>7 DEF FitsSoFar
    <2>2. CASE inst.op = "ATOMICRMW"
      <3>1. K[1] = "vt" /\ K[2] = "v" /\ Past(K, 2, "n")
        BY <1>1, <2>2, KindsTwoValues
      <3>2. Len(ops) = 2
        BY <1>1, <2>2 DEF IsInstruction
      <3>3. PICK a, b, c, e, t : /\ a = VT(ops[1]) /\ b = V(ops[2]) /\ c = N(GetEncodedRMWOperation[lits[1]])
                                 /\ e = N(lits[2]) /\ t = <<a, b, c, e>>
        OBVIOUS
      <3>4. S = t \o Atomic(lits[3], lits[4])
        BY <1>1, <2>2, <3>3 DEF Operands
      <3>5. K[3] = "n" /\ K[4] = "n" /\ Past(K, 4, "n")
        BY <3>1, NumbersAt, PastFurther
      <3>6. OperandFits(K[1], a, n) /\ OperandFits(K[2], b, n) /\ OperandFits(K[3], c, n) /\ OperandFits(K[4], e, n)
        BY <1>2, <3>1, <3>2, <3>3, <3>5, PushesFit DEF OperandsIn
      <3>7. Fitting(K, 0, t, n) /\ Len(t) = 4
        BY <3>3, <3>6, FitFour
      <3> QED
        BY <3>4, <3>5, <3>7 DEF FitsSoFar
    <2> QED
      BY <2>1, <2>2
  <1>4. FitsSoFar(K, S, n)
    BY <1>3, AtomicFollows
  <1> QED
    BY <1>1, <1>4 DEF Pushes, FitsSoFar

\* Records of numbers, but for the value that is switched on.
LEMMA NothingSoFar ==
    ASSUME NEW K, Past(K, 0, "n"), NEW n
    PROVE  FitsSoFar(K, Empty, n)
  <1>1. Fitting(K, 0, Empty, n) /\ Len(Empty) = 0
    BY FitNone, NoneSeq
  <1> QED
    BY <1>1 DEF FitsSoFar

LEMMA PlainPushes ==
    ASSUME NEW mod, NEW tys, NEW inst, IsInstruction(mod, tys, inst), NEW args, inst.op \in {"ALLOCA", "FENCE", "UNREACHABLE"}
    PROVE  Pushes(mod, tys, inst, args)
  <1>1. PICK K, n, ops, S, lits : /\ K = KindsFor(inst.op, args) /\ n = Len(tys) /\ ops = inst.ops
                                  /\ S = Operands(mod, tys, inst) /\ lits = inst.lits
    OBVIOUS
  <1>2. Past(K, 0, "n")
    BY <1>1, KindsNumbers
  <1>3. FitsSoFar(K, Empty, n)
    BY <1>2, NothingSoFar
  <1>4. FitsSoFar(K, S, n)
    <2>1. CASE inst.op = "UNREACHABLE"
      <3>1. S = Empty
        BY <1>1, <2>1 DEF Operands, Empty
      <3> QED
        BY <1>3, <3>1
    <2>2. CASE inst.op = "FENCE"
      <3>1. PICK o, s, t : o = lits[1] /\ s = lits[2] /\ t = Atomic(o, s)
        OBVIOUS
      <3>2. S = t
        BY <1>1, <2>2, <3>1 DEF Operands
      <3>3. Fitting(K, 0, t, n) /\ Len(t) = 2 /\ Past(K, 2, "n")
        BY <1>2, <3>1, AtomicFits, PastFurther
      <3> QED
        BY <3>2, <3>3 DEF FitsSoFar
    <2>3. CASE inst.op = "ALLOCA"
      <3>1. PICK a, b, c, t : a = N(inst.ty) /\ b = N(TypeOf(tys, ops[1])) /\ c = N(ops[1]) /\ t = <<a, b, c>>
        OBVIOUS
      <3>2. S = t \o AlignFirst(lits)
        BY <1>1, <2>3, <3>1 DEF Operands
      <3>3. K[1] = "n" /\ K[2] = "n" /\ K[3] = "n" /\ Past(K, 3, "n")
        BY <1>2, NumbersAt, PastFurther
      <3>4. OperandFits(K[1], a, n) /\ OperandFits(K[2], b, n) /\ OperandFits(K[3], c, n)
        BY <3>1, <3>3, PushesFit
      <3>5. Fitting(K, 0, t, n) /\ Len(t) = 3
        BY <3>1, <3>4, FitThree
      <3>6. FitsSoFar(K, t, n)
        BY <3>3, <3>5 DEF FitsSoFar
      <3>7. IsSeq(lits) /\ Len(lits) >= 1
        BY <1>1, <2>3, OpsAre DEF IsInstruction
      <3> QED
        BY <3>2, <3>6, <3>7, AlignFollows
    <2> QED
      BY <2>1, <2>2, <2>3
  <1> QED
    BY <1>1, <1>4 DEF Pushes, FitsSoFar

LEMMA IndirectPushes ==
    ASSUME NEW mod, NEW tys, NEW inst, IsInstruction(mod, tys, inst), NEW args, inst.op = "INDIRECTBR"
    PROVE  Pushes(mod, tys, inst, args)
  <1>1. PICK K, n, ops, S, bs : /\ K = KindsFor(inst.op, args) /\ n = Len(tys) /\ ops = inst.ops
                                /\ S = Operands(mod, tys, inst) /\ bs = inst.blocks
    OBVIOUS
  <1>2. OperandsIn(ops, n) /\ IsSeq(bs)
    BY <1>1, OpsAre DEF Calls
  <1>3. K[1] = "n" /\ K[2] = "v" /\ Past(K, 2, "n")
    BY <1>1, KindsNumberValue
  <1>4. Len(ops) = 1
    BY <1>1 DEF IsInstruction
  <1>5. PICK a, b, t : a = N(TypeOf(tys, ops[1])) /\ b = V(ops[1]) /\ t = <<a, b>>
    OBVIOUS
  <1>6. S = t \o Map(N, bs)
    BY <1>1, <1>5 DEF Operands
  <1>7. OperandFits(K[1], a, n) /\ OperandFits(K[2], b, n)
    BY <1>2, <1>3, <1>4, <1>5, PushesFit DEF OperandsIn
  <1>8. Fitting(K, 0, t, n) /\ Len(t) = 2
    BY <1>5, <1>7, FitTwo
  <1>9. FitsSoFar(K, t, n)
    BY <1>3, <1>8 DEF FitsSoFar
  <1>10. FitsSoFar(K, S, n)
    BY <1>2, <1>6, <1>9, MapFollows
  <1> QED
    BY <1>1, <1>10 DEF Pushes, FitsSoFar

LEMMA FlatFits ==
    ASSUME NEW K, NEW d \in Nat, Past(K, d, "n"), NEW n, NEW ss, IsSeq(ss),
           \A k \in 1..Len(ss) : IsSeq(ss[k]) /\ \A e \in Nat : Past(K, e, "n") => Fitting(K, e, ss[k], n)
    PROVE  Fitting(K, d, FlattenSeq(ss), n)
  <1>1. PICK c : c = Len(ss)
    OBVIOUS
  <1>2. c \in Nat
    BY <1>1, SeqShape
  <1>3. PICK P : Joined(P, ss, c) /\ FlattenSeq(ss) = P[c]
    BY <1>1, FlattenJoined
  <1> DEFINE A(k) == k <= c => Fitting(K, d, P[k], n)
  <1>4. A(0)
    <2>1. P[0] = Empty
      BY <1>3 DEF Joined
    <2> QED
      BY <2>1, FitNone
  <1>5. ASSUME NEW k \in Nat, A(k) PROVE A(k + 1)
    <2>1. SUFFICES ASSUME k + 1 <= c PROVE Fitting(K, d, P[k + 1], n)
      OBVIOUS
    <2>2. PICK h, p, s, e : h = k + 1 /\ p = P[k] /\ s = ss[h] /\ e = d + Len(p)
      OBVIOUS
    <2>3. h \in 1..c /\ h - 1 = k
      BY <1>2, <2>1, <2>2
    <2>4. P[h] = p \o s
      BY <1>3, <2>2, <2>3 DEF Joined
    <2>5. Fitting(K, d, p, n)
      BY <1>2, <1>5, <2>1, <2>2
    <2>6. Len(p) \in Nat
      BY <2>5, SeqShape DEF Fitting
    <2>7. e \in Nat /\ e >= d
      BY <2>2, <2>6
    <2>8. Past(K, e, "n")
      BY <2>7, PastFurther
    <2>9. Fitting(K, d + Len(p), s, n)
      BY <1>1, <2>2, <2>3, <2>7, <2>8
    <2>10. Fitting(K, d, p \o s, n)
      BY <2>5, <2>9, FitJoin
    <2> QED
      BY <2>2, <2>4, <2>10
  <1> HIDE DEF A
  <1>6. \A k \in Nat : A(k)
    <2> DEFINE T == {k \in Nat : A(k)}
    <2>1. 0 \in T /\ \A k \in Nat : k \in T => k + 1 \in T
      BY <1>4, <1>5
    <2> HIDE DEF T
    <2>2. Nat \subseteq T
      BY <2>1, NatSetInduction
    <2> QED
      BY <2>2 DEF T
  <1> QED
    BY <1>2, <1>3, <1>6 DEF A

LEMMA SwitchPushes ==
    ASSUME NEW mod, NEW tys, NEW inst, IsInstruction(mod, tys, inst), NEW args, inst.op = "SWITCH"
    PROVE  Pushes(mod, tys, inst, args)
  <1>1. PICK K, n, ops, S, lits, bs : /\ K = KindsFor(inst.op, args) /\ n = Len(tys) /\ ops = inst.ops
                                      /\ S = Operands(mod, tys, inst) /\ lits = inst.lits /\ bs = inst.blocks
    OBVIOUS
  <1>2. OperandsIn(ops, n) /\ IsSeq(lits)
    BY <1>1, OpsAre DEF Calls
  <1>3. K[1] = "n" /\ K[2] = "n" /\ K[3] = "v" /\ Past(K, 3, "n")
    BY <1>1, KindsNumbersValue
  <1>4. K[4] = "n" /\ K[5] = "n" /\ Past(K, 5, "n")
    BY <1>3, NumbersAt, PastFurther
  <1>5. Len(ops) = 1
    BY <1>1 DEF IsInstruction
  <1>6. PICK a, b, c, e, f, t : /\ a = N(SwitchRecordHeader(lits)) /\ b = N(TypeOf(tys, ops[1])) /\ c = V64(ops[1])
                                /\ e = N(bs[1]) /\ f = N(Len(lits)) /\ t = <<a, b, c, e, f>>
    OBVIOUS
  <1>7. PICK ss : ss = [k \in DOMAIN lits |-> <<N(1), N(1), N(emitSignedInt64(lits[k])), N(bs[k + 1])>>]
    OBVIOUS
  <1>8. Flat(LAMBDA k : <<N(1), N(1), N(emitSignedInt64(inst.lits[k])), N(inst.blocks[k + 1])>>, [k \in DOMAIN inst.lits |-> k])
          = FlattenSeq(ss)
    <2>1. PICK idx : idx = [k \in DOMAIN inst.lits |-> k]
      OBVIOUS
    <2>2. [k \in DOMAIN idx |-> <<N(1), N(1), N(emitSignedInt64(inst.lits[idx[k]])), N(inst.blocks[idx[k] + 1])>>] = ss
      BY <1>1, <1>7, <2>1
    <2> QED
      BY <2>1, <2>2 DEF Flat, Map
  <1>9. S = t \o FlattenSeq(ss)
    <2>1. Operands(mod, tys, inst)
            = <<N(SwitchRecordHeader(inst.lits)), N(TypeOf(tys, inst.ops[1])), V64(inst.ops[1]), N(inst.blocks[1]), N(Len(inst.lits))>>
                \o Flat(LAMBDA k : <<N(1), N(1), N(emitSignedInt64(inst.lits[k])), N(inst.blocks[k + 1])>>,
                        [k \in DOMAIN inst.lits |-> k])
      BY DEF Operands
    <2> QED
      BY <1>1, <1>6, <1>8, <2>1
  <1>10. IsSeq(ss) /\ Len(ss) = Len(lits) /\ DOMAIN lits = 1..Len(lits)
    <2>1. DOMAIN ss = DOMAIN lits /\ ss = [k \in DOMAIN ss |-> ss[k]]
      BY <1>7
    <2> QED
      BY <1>2, <2>1, MapShape
  <1>11. ASSUME NEW k \in 1..Len(ss)
         PROVE  IsSeq(ss[k]) /\ \A g \in Nat : Past(K, g, "n") => Fitting(K, g, ss[k], n)
    <2>1. PICK h, i, j, q : h = N(1) /\ i = N(emitSignedInt64(lits[k])) /\ j = N(bs[k + 1]) /\ q = <<h, h, i, j>>
      OBVIOUS
    <2>2. ss[k] = q
      BY <1>7, <1>10, <2>1
    <2>3. IsSeq(q) /\ Len(q) = 4 /\ q[1] = h /\ q[2] = h /\ q[3] = i /\ q[4] = j
      BY <2>1 DEF IsSeq
    <2>4. OperandFits("n", h, n) /\ OperandFits("n", i, n) /\ OperandFits("n", j, n)
      BY <2>1, PushesFit
    <2>5. \A m \in 1..Len(q) : OperandFits("n", q[m], n)
      BY <2>3, <2>4
    <2>6. ASSUME NEW g \in Nat, Past(K, g, "n") PROVE Fitting(K, g, q, n)
      BY <2>3, <2>5, <2>6, FitEach
    <2> QED
      BY <2>2, <2>3, <2>6
  <1>12. OperandFits(K[1], a, n) /\ OperandFits(K[2], b, n) /\ OperandFits(K[3], c, n) /\ OperandFits(K[4], e, n) /\ OperandFits(K[5], f, n)
    BY <1>2, <1>3, <1>4, <1>5, <1>6, PushesFit DEF OperandsIn
  <1>13. Fitting(K, 0, t, n) /\ Len(t) = 5
    BY <1>6, <1>12, FitFive
  <1>14. Fitting(K, 5, FlattenSeq(ss), n)
    <2>1. 5 \in Nat
      OBVIOUS
    <2> QED
      BY <1>4, <1>10, <1>11, <2>1, FlatFits
  <1>15. Fitting(K, 0 + Len(t), FlattenSeq(ss), n)
    BY <1>13, <1>14
  <1>16. Fitting(K, 0, t \o FlattenSeq(ss), n)
    BY <1>13, <1>15, FitJoin
  <1> QED
    BY <1>1, <1>9, <1>16 DEF Pushes

\* The group that is repeated, of two.
Alternates(K, d, a, b) == \A j \in Nat \ {0} : K[d + 2 * j - 1] = a /\ K[d + 2 * j] = b

LEMMA KindsTwo ==
    ASSUME NEW head, IsSeq(head), NEW a, NEW b, NEW loop, loop = <<a, b>>, NEW K, K = KindsOf(head, loop)
    PROVE  Alternates(K, Len(head), a, b) /\ \A k \in 1..Len(head) : K[k] = head[k]
  <1>1. PICK h : h = Len(head)
    OBVIOUS
  <1>2. h \in Nat
    BY <1>1, SeqShape
  <1>3. Len(loop) = 2 /\ loop[1] = a /\ loop[2] = b
    BY PairSeq
  <1>4. ASSUME NEW j \in Nat \ {0} PROVE K[h + 2 * j - 1] = a /\ K[h + 2 * j] = b
    <2>1. PICK m, i : m = h + 2 * j - 1 /\ i = h + 2 * j
      OBVIOUS
    <2>2. /\ m \in Nat \ {0} /\ i \in Nat \ {0} /\ ~(m <= h) /\ ~(i <= h)
          /\ m - h - 1 = 2 * (j - 1) /\ i - h - 1 = 2 * (j - 1) + 1
      BY <1>2, <2>1
    <2>3. (2 * (j - 1)) % 2 = 0 /\ (2 * (j - 1) + 1) % 2 = 1
      OBVIOUS
    <2>4. KindAt(head, loop, m) = loop[((m - h - 1) % 2) + 1] /\ KindAt(head, loop, i) = loop[((i - h - 1) % 2) + 1]
      BY <1>1, <1>3, <2>2 DEF KindAt
    <2>5. K[m] = KindAt(head, loop, m) /\ K[i] = KindAt(head, loop, i)
      BY <2>2 DEF KindsOf
    <2>6. (m - h - 1) % 2 = 0 /\ (i - h - 1) % 2 = 1
      BY <2>2, <2>3
    <2>7. K[m] = loop[0 + 1] /\ K[i] = loop[1 + 1]
      BY <2>4, <2>5, <2>6
    <2> QED
      BY <1>3, <2>1, <2>7
  <1>5. ASSUME NEW k \in 1..Len(head) PROVE K[k] = head[k]
    BY <1>1, <1>2 DEF KindsOf, KindAt
  <1> QED
    BY <1>1, <1>4, <1>5 DEF Alternates

LEMMA PairsFit ==
    ASSUME NEW K, NEW d \in Nat, NEW a, NEW b, Alternates(K, d, a, b), NEW n, NEW ss, IsSeq(ss),
           \A k \in 1..Len(ss) : IsSeq(ss[k]) /\ Len(ss[k]) = 2 /\ OperandFits(a, ss[k][1], n) /\ OperandFits(b, ss[k][2], n)
    PROVE  Fitting(K, d, FlattenSeq(ss), n)
  <1>1. PICK z, m : z = FlattenSeq(ss) /\ m = Len(ss)
    OBVIOUS
  <1>2. m \in Nat
    BY <1>1, SeqShape
  <1>3. /\ IsSeq(z) /\ Len(z) = 2 * m
        /\ \A k \in 1..m : z[2 * k - 1] = ss[k][1] /\ z[2 * k] = ss[k][2]
    BY <1>1, PairsJoined
  <1>4. ASSUME NEW k \in 1..Len(z) PROVE OperandFits(K[d + k], z[k], n)
    <2>1. PICK j : j = (k + 1) \div 2
      OBVIOUS
    <2>2. j \in 1..m /\ j \in Nat \ {0} /\ (k = 2 * j - 1 \/ k = 2 * j)
      BY <1>2, <1>3, <2>1
    <2>3. OperandFits(a, ss[j][1], n) /\ OperandFits(b, ss[j][2], n) /\ z[2 * j - 1] = ss[j][1] /\ z[2 * j] = ss[j][2]
      BY <1>1, <1>3, <2>2
    <2>4. K[d + 2 * j - 1] = a /\ K[d + 2 * j] = b
      BY <2>2 DEF Alternates
    <2>5. CASE k = 2 * j - 1
      <3>1. d + 2 * j - 1 = d + k
        BY <2>2, <2>5
      <3> QED
        BY <2>3, <2>4, <2>5, <3>1
    <2>6. CASE k = 2 * j
      BY <2>3, <2>4, <2>6
    <2> QED
      BY <2>2, <2>5, <2>6
  <1> QED
    BY <1>1, <1>3, <1>4 DEF Fitting

\* The type of what an instruction gives is the first of the operands.
StartsTyped(S, ty) == IsSeq(S) /\ Len(S) \in Nat \ {0} /\ S[1] = N(ty)

LEMMA StartsAs ==
    ASSUME NEW K, NEW d, NEW n, NEW s, NEW t, Fitting(K, 0, s, n), Fitting(K, d, t, n), Len(s) >= 1, NEW ty, s[1] = N(ty),
           NEW z, z = s \o t
    PROVE  StartsTyped(z, ty)
  <1>1. IsSeq(s) /\ IsSeq(t)
    BY DEF Fitting
  <1>2. IsSeq(z)
    BY <1>1, JoinShape
  <1>3. Len(z) = Len(s) + Len(t)
    BY <1>1, JoinShape
  <1>4. \A k \in 1..Len(s) : z[k] = s[k]
    BY <1>1, JoinShape
  <1>5. Len(s) \in Nat /\ Len(t) \in Nat
    BY <1>1, SeqShape
  <1> QED
    BY <1>2, <1>3, <1>4, <1>5 DEF StartsTyped

\* One number, then pairs of a signed value and a number.
LEMMA PhiPushes ==
    ASSUME NEW mod, NEW tys, NEW inst, IsInstruction(mod, tys, inst), NEW args, inst.op = "PHI"
    PROVE  Pushes(mod, tys, inst, args) /\ StartsTyped(Operands(mod, tys, inst), inst.ty)
  <1>1. PICK K, n, ops, S : K = KindsFor(inst.op, args) /\ n = Len(tys) /\ ops = inst.ops /\ S = Operands(mod, tys, inst)
    OBVIOUS
  <1>2. OperandsIn(ops, n) /\ inst.op \in Opcodes
    BY <1>1, OpsAre DEF Calls
  <1>3. PICK head, loop : head = Leading(FunctionCodes[inst.op], args) /\ loop = Repeated(FunctionCodes[inst.op])
    OBVIOUS
  <1>4. head = <<"n">> /\ loop = <<"vs", "n">> /\ K = KindsOf(head, loop)
    BY <1>1, <1>2, <1>3, HeadsAre, RepeatedIs DEF KindsFor
  <1>5. IsSeq(head) /\ Len(head) = 1 /\ head[1] = "n"
    BY <1>4, OneSeq
  <1>6. Alternates(K, 1, "vs", "n") /\ K[1] = "n"
    <2>1. Alternates(K, Len(head), "vs", "n") /\ \A k \in 1..Len(head) : K[k] = head[k]
      <3>1. PICK p, q : p = "vs" /\ q = "n"
        OBVIOUS
      <3>2. loop = <<p, q>> /\ IsSeq(head) /\ K = KindsOf(head, loop)
        BY <1>4, <1>5, <3>1
      <3>3. Alternates(K, Len(head), p, q) /\ \A k \in 1..Len(head) : K[k] = head[k]
        BY <3>2, KindsTwo
      <3> QED
        BY <3>1, <3>3
    <2> QED
      BY <1>5, <2>1
  <1>7. PICK ss : ss = [k \in DOMAIN ops |-> <<VS(ops[k]), N(inst.blocks[k])>>]
    OBVIOUS
  <1>8. Flat(LAMBDA k : <<VS(inst.ops[k]), N(inst.blocks[k])>>, [k \in DOMAIN inst.ops |-> k]) = FlattenSeq(ss)
    <2>1. PICK idx : idx = [k \in DOMAIN inst.ops |-> k]
      OBVIOUS
    <2>2. [k \in DOMAIN idx |-> <<VS(inst.ops[idx[k]]), N(inst.blocks[idx[k]])>>] = ss
      BY <1>1, <1>7, <2>1
    <2> QED
      BY <2>1, <2>2 DEF Flat, Map
  <1>9. PICK a : a = N(inst.ty)
    OBVIOUS
  <1>10. S = <<a>> \o FlattenSeq(ss)
    <2>1. Operands(mod, tys, inst)
            = <<N(inst.ty)>> \o Flat(LAMBDA k : <<VS(inst.ops[k]), N(inst.blocks[k])>>, [k \in DOMAIN inst.ops |-> k])
      BY DEF Operands
    <2> QED
      BY <1>1, <1>8, <1>9, <2>1
  <1>11. IsSeq(ss) /\ Len(ss) = Len(ops) /\ DOMAIN ops = 1..Len(ops)
    <2>1. DOMAIN ss = DOMAIN ops /\ ss = [k \in DOMAIN ss |-> ss[k]]
      BY <1>7
    <2> QED
      BY <1>2, <2>1, MapShape DEF OperandsIn
  <1>12. ASSUME NEW k \in 1..Len(ss)
         PROVE  IsSeq(ss[k]) /\ Len(ss[k]) = 2 /\ OperandFits("vs", ss[k][1], n) /\ OperandFits("n", ss[k][2], n)
    <2>1. PICK b, c, s : b = VS(ops[k]) /\ c = N(inst.blocks[k]) /\ s = ss[k]
      OBVIOUS
    <2>2. s = <<b, c>> /\ ops[k] \in 0..(n - 1)
      BY <1>2, <1>7, <1>11, <2>1 DEF OperandsIn
    <2>3. IsSeq(s) /\ Len(s) = 2 /\ s[1] = b /\ s[2] = c
      BY <2>2, PairSeq
    <2>4. OperandFits("vs", b, n) /\ OperandFits("n", c, n)
      BY <2>1, <2>2, PushesFit
    <2> QED
      BY <2>1, <2>3, <2>4
  <1>13. Fitting(K, 1, FlattenSeq(ss), n)
    <2>1. 1 \in Nat
      OBVIOUS
    <2> QED
      BY <1>6, <1>11, <1>12, <2>1, PairsFit
  <1>14. Fitting(K, 0, <<a>>, n) /\ Len(<<a>>) = 1
    <2>1. OperandFits(K[0 + 1], a, n)
      BY <1>6, <1>9, PushesFit
    <2> QED
      BY <2>1, FitOne
  <1>15. Fitting(K, 0 + Len(<<a>>), FlattenSeq(ss), n)
    BY <1>13, <1>14
  <1>16. Fitting(K, 0, <<a>> \o FlattenSeq(ss), n)
    BY <1>14, <1>15, FitJoin
  <1>17. StartsTyped(S, inst.ty)
    <2>1. PICK u, w, ty : u = <<a>> /\ w = FlattenSeq(ss) /\ ty = inst.ty
      OBVIOUS
    <2>2. Len(u) >= 1 /\ u[1] = N(ty)
      BY <1>9, <2>1, OneSeq
    <2>3. Fitting(K, 0, u, n) /\ Fitting(K, 1, w, n) /\ S = u \o w
      BY <1>10, <1>13, <1>14, <2>1
    <2> QED
      BY <2>1, <2>2, <2>3, StartsAs
  <1> QED
    BY <1>1, <1>10, <1>16, <1>17 DEF Pushes

\* Four operands, then pairs of a number and a value with its type.
LEMMA LandingPushes ==
    ASSUME NEW mod, NEW tys, NEW inst, IsInstruction(mod, tys, inst), NEW args, inst.op = "LANDINGPAD"
    PROVE  Pushes(mod, tys, inst, args) /\ StartsTyped(Operands(mod, tys, inst), inst.ty)
  <1>1. PICK K, n, ops, S : K = KindsFor(inst.op, args) /\ n = Len(tys) /\ ops = inst.ops /\ S = Operands(mod, tys, inst)
    OBVIOUS
  <1>2. OperandsIn(ops, n) /\ inst.op \in Opcodes
    BY <1>1, OpsAre DEF Calls
  <1>3. PICK head, loop : head = Leading(FunctionCodes[inst.op], args) /\ loop = Repeated(FunctionCodes[inst.op])
    OBVIOUS
  <1>4. head = <<"n", "vt", "n", "n">> /\ loop = <<"n", "vt">> /\ K = KindsOf(head, loop)
    BY <1>1, <1>2, <1>3, HeadsAre, RepeatedIs DEF KindsFor
  <1>5. IsSeq(head) /\ Len(head) = 4 /\ head[1] = "n" /\ head[2] = "vt" /\ head[3] = "n" /\ head[4] = "n"
    BY <1>4 DEF IsSeq
  <1>6. Alternates(K, 4, "n", "vt") /\ K[1] = "n" /\ K[2] = "vt" /\ K[3] = "n" /\ K[4] = "n"
    <2>1. Alternates(K, Len(head), "n", "vt") /\ \A k \in 1..Len(head) : K[k] = head[k]
      <3>1. PICK p, q : p = "n" /\ q = "vt"
        OBVIOUS
      <3>2. loop = <<p, q>> /\ IsSeq(head) /\ K = KindsOf(head, loop)
        BY <1>4, <1>5, <3>1
      <3>3. Alternates(K, Len(head), p, q) /\ \A k \in 1..Len(head) : K[k] = head[k]
        BY <3>2, KindsTwo
      <3> QED
        BY <3>1, <3>3
    <2> QED
      BY <1>5, <2>1
  <1>7. PICK idx : idx = [k \in 1..(Len(inst.ops) - 1) |-> k + 1]
    OBVIOUS
  <1>8. PICK ss : ss = [k \in DOMAIN idx |-> <<N(inst.lits[idx[k]]), VT(ops[idx[k]])>>]
    OBVIOUS
  <1>9. PICK a, b, c, e, t : /\ a = N(inst.ty) /\ b = VT(ops[1]) /\ c = N(inst.lits[1]) /\ e = N(Len(ops) - 1)
                             /\ t = <<a, b, c, e>>
    OBVIOUS
  <1>10. S = t \o FlattenSeq(ss)
    <2>1. Operands(mod, tys, inst)
            = <<N(inst.ty), VT(inst.ops[1]), N(inst.lits[1]), N(Len(inst.ops) - 1)>>
                \o Flat(LAMBDA k : <<N(inst.lits[k]), VT(inst.ops[k])>>, [k \in 1..(Len(inst.ops) - 1) |-> k + 1])
      BY DEF Operands
    <2>2. Flat(LAMBDA k : <<N(inst.lits[k]), VT(inst.ops[k])>>, [k \in 1..(Len(inst.ops) - 1) |-> k + 1]) = FlattenSeq(ss)
      BY <1>1, <1>7, <1>8 DEF Flat, Map
    <2> QED
      BY <1>1, <1>9, <2>1, <2>2
  <1>11. Len(ops) \in Nat /\ Len(ops) >= 1
    <2>1. ops # <<>> /\ IsSeq(ops)
      BY <1>1, <1>2 DEF IsInstruction, OperandsIn
    <2>2. Len(ops) \in Nat /\ (Len(ops) = 0 => ops = Empty)
      BY <2>1, SeqShape, NoneSeq, SameSeq
    <2> QED
      BY <2>1, <2>2 DEF Empty
  <1>12. IsSeq(ss) /\ Len(ss) = Len(ops) - 1 /\ DOMAIN idx = 1..(Len(ops) - 1)
    <2>1. PICK m : m = Len(ops) - 1
      OBVIOUS
    <2>2. m \in Nat /\ DOMAIN idx = 1..m
      BY <1>1, <1>7, <1>11, <2>1
    <2>3. DOMAIN ss = 1..m /\ ss = [k \in 1..m |-> ss[k]]
      BY <1>8, <2>2
    <2>4. IsSeq(ss) /\ Len(ss) = m
      BY <2>2, <2>3, TabulatedSeq
    <2> QED
      BY <2>1, <2>2, <2>4
  <1>13. ASSUME NEW k \in 1..Len(ss)
         PROVE  IsSeq(ss[k]) /\ Len(ss[k]) = 2 /\ OperandFits("n", ss[k][1], n) /\ OperandFits("vt", ss[k][2], n)
    <2>1. PICK f, g, s : f = N(inst.lits[k + 1]) /\ g = VT(ops[k + 1]) /\ s = ss[k]
      OBVIOUS
    <2>2. s = <<f, g>> /\ ops[k + 1] \in 0..(n - 1)
      <3>1. idx[k] = k + 1 /\ k + 1 \in 1..Len(ops)
        BY <1>1, <1>7, <1>11, <1>12
      <3> QED
        BY <1>2, <1>8, <1>12, <2>1, <3>1 DEF OperandsIn
    <2>3. IsSeq(s) /\ Len(s) = 2 /\ s[1] = f /\ s[2] = g
      BY <2>2, PairSeq
    <2>4. OperandFits("vt", g, n) /\ OperandFits("n", f, n)
      BY <2>1, <2>2, PushesFit
    <2> QED
      BY <2>1, <2>3, <2>4
  <1>14. Fitting(K, 4, FlattenSeq(ss), n)
    <2>1. 4 \in Nat
      OBVIOUS
    <2> QED
      BY <1>6, <1>12, <1>13, <2>1, PairsFit
  <1>15. Fitting(K, 0, t, n) /\ Len(t) = 4
    <2>1. ops[1] \in 0..(n - 1)
      BY <1>2, <1>11 DEF OperandsIn
    <2>2. OperandFits(K[1], a, n) /\ OperandFits(K[2], b, n) /\ OperandFits(K[3], c, n) /\ OperandFits(K[4], e, n)
      BY <1>6, <1>9, <2>1, PushesFit
    <2> QED
      BY <1>9, <2>2, FitFour
  <1>16. Fitting(K, 0 + Len(t), FlattenSeq(ss), n)
    BY <1>14, <1>15
  <1>17. Fitting(K, 0, t \o FlattenSeq(ss), n)
    BY <1>15, <1>16, FitJoin
  <1>18. StartsTyped(S, inst.ty)
    <2>1. PICK w, ty : w = FlattenSeq(ss) /\ ty = inst.ty
      OBVIOUS
    <2>2. Len(t) >= 1 /\ t[1] = N(ty)
      BY <1>9, <1>15, <2>1
    <2>3. Fitting(K, 0, t, n) /\ Fitting(K, 4, w, n) /\ S = t \o w
      BY <1>10, <1>14, <1>15, <2>1
    <2> QED
      BY <2>1, <2>2, <2>3, StartsAs
  <1> QED
    BY <1>1, <1>10, <1>17, <1>18 DEF Pushes

\* The kinds of the arguments for the parameters params.
ParamsOf(mod, tys, inst) == ParamTypes(FunctionType(mod, tys, inst.ops[1]))
TakenAs(mod, op, ty) == IF op = "CALL" /\ isLabel(mod, ty) THEN "n" ELSE "v"
ArgumentsFor(mod, op, params, args) ==
  IsSeq(args) /\ Len(args) = Len(params) /\ \A k \in 1..Len(args) : args[k] = TakenAs(mod, op, params[k])

\* The arguments of a call: where they start, those for parameters, and those for the dots.
LEMMA ArgumentsFit ==
    ASSUME NEW mod, NEW tys, NEW inst, IsInstruction(mod, tys, inst), inst.op \in Calls,
           NEW params, params = ParamsOf(mod, tys, inst), NEW args, ArgumentsFor(mod, inst.op, params, args),
           NEW K, NEW d \in Nat, \A k \in 1..Len(args) : K[d + k] = args[k], Past(K, d + Len(args), "vt")
    PROVE  Fitting(K, d, Arguments(mod, tys, inst), Len(tys)) /\ inst.ops[1] \in 0..(Len(tys) - 1)
  <1>1. PICK n, ops, t, np : n = Len(tys) /\ ops = inst.ops /\ t = Arguments(mod, tys, inst) /\ np = Len(params)
    OBVIOUS
  <1>2. IsCall(mod, tys, inst)
    BY DEF IsInstruction
  <1>3. ops # <<>> /\ IsSeq(ops) /\ ops[1] \in 0..(n - 1)
    BY <1>1, <1>2, OpsAre DEF IsCall
  <1>4. ASSUME NEW k \in 2..Len(ops)
        PROVE  ops[k] \in 0..(n - 1) \/ (inst.op = "CALL" /\ k - 1 <= np /\ isLabel(mod, params[k - 1]))
    <2>1. params = ParamTypes(PointedTo(mod, TypeOf(tys, inst.ops[1])))
      BY DEF ParamsOf, FunctionType, PointedTo
    <2> QED
      BY <1>1, <1>2, <2>1 DEF IsCall
  <1>5. Len(ops) \in Nat /\ Len(ops) >= 1
    <2>1. Len(ops) \in Nat /\ (Len(ops) = 0 => ops = Empty)
      BY <1>3, SeqShape, NoneSeq, SameSeq
    <2> QED
      BY <1>3, <2>1 DEF Empty
  <1>6. PICK m : m = Len(ops) - 1
    OBVIOUS
  <1>7. m \in Nat /\ np \in Nat
    BY <1>1, <1>5, <1>6, SeqShape DEF ArgumentsFor
  <1>8. t = [k \in 1..m |-> IF k > np THEN VT(ops[k + 1])
                           ELSE IF inst.op = "CALL" /\ isLabel(mod, params[k]) THEN N(ops[k + 1]) ELSE V(ops[k + 1])]
    BY <1>1, <1>6 DEF Arguments, ParamsOf
  <1>9. IsSeq(t) /\ Len(t) = m
    <2>1. DOMAIN t = 1..m /\ t = [k \in 1..m |-> t[k]]
      BY <1>8
    <2> QED
      BY <1>7, <2>1, TabulatedSeq
  <1>10. ASSUME NEW k \in 1..m PROVE OperandFits(K[d + k], t[k], n)
    <2>1. PICK v : v = ops[k + 1]
      OBVIOUS
    <2>2. v \in 0..(n - 1) \/ (inst.op = "CALL" /\ k <= np /\ isLabel(mod, params[k]))
      <3>1. k + 1 \in 2..Len(ops) /\ (k + 1) - 1 = k
        BY <1>5, <1>6
      <3> QED
        BY <1>4, <2>1, <3>1
    <2>3. CASE k > np
      <3>1. PICK j : j = k - np
        OBVIOUS
      <3>2. j \in Nat \ {0} /\ d + Len(args) + j = d + k
        BY <1>1, <1>7, <2>3, <3>1 DEF ArgumentsFor
      <3>3. K[d + k] = "vt"
        BY <3>2 DEF Past
      <3>4. t[k] = VT(v) /\ v \in 0..(n - 1)
        BY <1>7, <1>8, <2>1, <2>2, <2>3
      <3> QED
        BY <3>3, <3>4, PushesFit
    <2>4. CASE ~(k > np)
      <3>1. k \in 1..Len(args)
        BY <1>1, <1>7, <2>4 DEF ArgumentsFor
      <3>2. K[d + k] = TakenAs(mod, inst.op, params[k])
        BY <3>1 DEF ArgumentsFor
      <3>3. CASE inst.op = "CALL" /\ isLabel(mod, params[k])
        <4>1. t[k] = N(v) /\ K[d + k] = "n"
          BY <1>8, <2>1, <2>4, <3>2, <3>3 DEF TakenAs
        <4> QED
          BY <4>1, PushesFit
      <3>4. CASE ~(inst.op = "CALL" /\ isLabel(mod, params[k]))
        <4>1. t[k] = V(v) /\ K[d + k] = "v" /\ v \in 0..(n - 1)
          BY <1>8, <2>1, <2>2, <2>4, <3>2, <3>4 DEF TakenAs
        <4> QED
          BY <4>1, PushesFit
      <3> QED
        BY <3>3, <3>4
    <2> QED
      BY <2>3, <2>4
  <1>11. Fitting(K, d, t, n)
    BY <1>9, <1>10 DEF Fitting
  <1> QED
    BY <1>1, <1>3, <1>11

ReadsCall(K, first, args) ==
  /\ \A k \in 1..Len(first) : K[k] = first[k]
  /\ \A k \in 1..Len(args) : K[Len(first) + k] = args[k]
  /\ Past(K, Len(first) + Len(args), "vt")

LEMMA CallKinds ==
    ASSUME NEW op \in Opcodes, NEW args, IsSeq(args), NEW first, IsSeq(first),
           Leading(FunctionCodes[op], args) = first \o args, op \in Calls, NEW K, K = KindsFor(op, args)
    PROVE  ReadsCall(K, first, args)
  <1>1. PICK head, loop, a, b : /\ head = Leading(FunctionCodes[op], args) /\ loop = Repeated(FunctionCodes[op])
                                /\ a = Len(first) /\ b = Len(args)
    OBVIOUS
  <1>2. loop = <<"vt">> /\ K = KindsOf(head, loop)
    BY <1>1, RepeatedIs DEF ListRepeats, Calls, KindsFor
  <1>3. /\ IsSeq(head) /\ Len(head) = a + b /\ \A k \in 1..a : head[k] = first[k]
        /\ \A k \in 1..b : head[a + k] = args[k]
    <2>1. /\ IsSeq(first \o args) /\ Len(first \o args) = Len(first) + Len(args)
          /\ (\A k \in 1..Len(first) : (first \o args)[k] = first[k])
          /\ \A k \in 1..Len(args) : (first \o args)[Len(first) + k] = args[k]
      BY JoinShape
    <2> QED
      BY <1>1, <2>1
  <1>4. a \in Nat /\ b \in Nat
    BY <1>1, SeqShape
  <1>5. Past(K, Len(head), "vt") /\ \A k \in 1..Len(head) : K[k] = head[k]
    BY <1>2, <1>3, KindsOne
  <1>6. \A k \in 1..a : K[k] = first[k]
    BY <1>3, <1>4, <1>5
  <1>7. \A k \in 1..b : K[a + k] = args[k]
    <2> TAKE k \in 1..b
    <2>1. a + k \in 1..Len(head)
      BY <1>3, <1>4
    <2> QED
      BY <1>3, <1>5, <2>1
  <1> QED
    BY <1>1, <1>3, <1>5, <1>6, <1>7 DEF ReadsCall

LEMMA CallPushes ==
    ASSUME NEW mod, NEW tys, NEW inst, IsInstruction(mod, tys, inst), inst.op = "CALL",
           NEW args, ArgumentsFor(mod, inst.op, ParamsOf(mod, tys, inst), args)
    PROVE  Pushes(mod, tys, inst, args)
  <1>1. PICK K, n, S, params : /\ K = KindsFor(inst.op, args) /\ n = Len(tys) /\ S = Operands(mod, tys, inst)
                               /\ params = ParamsOf(mod, tys, inst)
    OBVIOUS
  <1>2. inst.op \in Opcodes /\ inst.op \in Calls /\ IsSeq(args)
    BY OpsAre DEF Calls, ArgumentsFor
  <1>3. PICK first : first = <<"n", "n", "vt">>
    OBVIOUS
  <1>4. IsSeq(first) /\ Len(first) = 3 /\ first[1] = "n" /\ first[2] = "n" /\ first[3] = "vt"
    BY <1>3, ThreeSeq
  <1>5. Leading(FunctionCodes[inst.op], args) = first \o args
    BY <1>2, <1>3, HeadsAre
  <1>6. /\ \A k \in 1..Len(first) : K[k] = first[k]
        /\ \A k \in 1..Len(args) : K[Len(first) + k] = args[k]
        /\ Past(K, Len(first) + Len(args), "vt")
    <2>1. PICK op : op = inst.op
      OBVIOUS
    <2>2. /\ op \in Opcodes /\ op \in Calls /\ IsSeq(args) /\ IsSeq(first) /\ K = KindsFor(op, args)
          /\ Leading(FunctionCodes[op], args) = first \o args
      BY <1>1, <1>2, <1>4, <1>5, <2>1
    <2>3. ReadsCall(K, first, args)
      BY <2>2, CallKinds
    <2> QED
      BY <2>3 DEF ReadsCall
  <1>7. K[1] = "n" /\ K[2] = "n" /\ K[3] = "vt"
    BY <1>4, <1>6
  <1>8. Fitting(K, 3, Arguments(mod, tys, inst), n) /\ inst.ops[1] \in 0..(n - 1)
    <2>1. (\A k \in 1..Len(args) : K[3 + k] = args[k]) /\ Past(K, 3 + Len(args), "vt") /\ 3 \in Nat
      BY <1>4, <1>6
    <2>2. Fitting(K, 3, Arguments(mod, tys, inst), Len(tys)) /\ inst.ops[1] \in 0..(Len(tys) - 1)
      BY <1>1, <1>2, <2>1, ArgumentsFit
    <2> QED
      BY <1>1, <2>2
  <1>9. PICK a, b, c, t : a = N(inst.lits[1]) /\ b = N(inst.lits[2] * 2 + inst.lits[3]) /\ c = VT(inst.ops[1]) /\ t = <<a, b, c>>
    OBVIOUS
  <1>10. S = t \o Arguments(mod, tys, inst)
    BY <1>1, <1>9 DEF Operands
  <1>11. OperandFits(K[1], a, n) /\ OperandFits(K[2], b, n) /\ OperandFits(K[3], c, n)
    BY <1>7, <1>8, <1>9, PushesFit
  <1>12. Fitting(K, 0, t, n) /\ Len(t) = 3
    BY <1>9, <1>11, FitThree
  <1>13. Fitting(K, 0 + Len(t), Arguments(mod, tys, inst), n)
    BY <1>8, <1>12
  <1>14. Fitting(K, 0, t \o Arguments(mod, tys, inst), n)
    BY <1>12, <1>13, FitJoin
  <1> QED
    BY <1>1, <1>10, <1>14 DEF Pushes

LEMMA InvokePushes ==
    ASSUME NEW mod, NEW tys, NEW inst, IsInstruction(mod, tys, inst), inst.op = "INVOKE",
           NEW args, ArgumentsFor(mod, inst.op, ParamsOf(mod, tys, inst), args)
    PROVE  Pushes(mod, tys, inst, args)
  <1>1. PICK K, n, S, params, lits, bs : /\ K = KindsFor(inst.op, args) /\ n = Len(tys) /\ S = Operands(mod, tys, inst)
                                         /\ params = ParamsOf(mod, tys, inst) /\ lits = inst.lits /\ bs = inst.blocks
    OBVIOUS
  <1>2. inst.op \in Opcodes /\ inst.op \in Calls /\ IsSeq(args) /\ IsSeq(lits) /\ IsSeq(bs)
    BY <1>1, OpsAre DEF Calls, ArgumentsFor
  <1>3. PICK first : first = <<"n", "n", "n", "n", "vt">>
    OBVIOUS
  <1>4. IsSeq(first) /\ Len(first) = 5 /\ first[1] = "n" /\ first[2] = "n" /\ first[3] = "n" /\ first[4] = "n" /\ first[5] = "vt"
    BY <1>3 DEF IsSeq
  <1>5. Leading(FunctionCodes[inst.op], args) = first \o args
    BY <1>2, <1>3, HeadsAre
  <1>6. /\ \A k \in 1..Len(first) : K[k] = first[k]
        /\ \A k \in 1..Len(args) : K[Len(first) + k] = args[k]
        /\ Past(K, Len(first) + Len(args), "vt")
    <2>1. PICK op : op = inst.op
      OBVIOUS
    <2>2. /\ op \in Opcodes /\ op \in Calls /\ IsSeq(args) /\ IsSeq(first) /\ K = KindsFor(op, args)
          /\ Leading(FunctionCodes[op], args) = first \o args
      BY <1>1, <1>2, <1>4, <1>5, <2>1
    <2>3. ReadsCall(K, first, args)
      BY <2>2, CallKinds
    <2> QED
      BY <2>3 DEF ReadsCall
  <1>7. K[1] = "n" /\ K[2] = "n" /\ K[3] = "n" /\ K[4] = "n" /\ K[5] = "vt"
    BY <1>4, <1>6
  <1>8. Fitting(K, 5, Arguments(mod, tys, inst), n) /\ inst.ops[1] \in 0..(n - 1)
    <2>1. (\A k \in 1..Len(args) : K[5 + k] = args[k]) /\ Past(K, 5 + Len(args), "vt") /\ 5 \in Nat
      BY <1>4, <1>6
    <2>3. PICK d : d = 5
      OBVIOUS
    <2>4. /\ params = ParamsOf(mod, tys, inst) /\ ArgumentsFor(mod, inst.op, params, args) /\ d \in Nat
          /\ (\A k \in 1..Len(args) : K[d + k] = args[k]) /\ Past(K, d + Len(args), "vt")
      BY <1>1, <2>1, <2>3
    <2>5. Fitting(K, d, Arguments(mod, tys, inst), Len(tys)) /\ inst.ops[1] \in 0..(Len(tys) - 1)
      BY <1>2, <2>4, ArgumentsFit
    <2>2. Fitting(K, 5, Arguments(mod, tys, inst), Len(tys)) /\ inst.ops[1] \in 0..(Len(tys) - 1)
      BY <2>3, <2>5
    <2> QED
      BY <1>1, <2>2
  <1>9. Len(lits) = 2 /\ Len(bs) = 2
    BY <1>1 DEF IsInstruction
  <1>10. PICK t : t = Map(N, lits) \o Map(N, bs)
    OBVIOUS
  <1>11. PICK a, b, c : a = [k \in DOMAIN lits |-> N(lits[k])] /\ b = [k \in DOMAIN bs |-> N(bs[k])] /\ c = VT(inst.ops[1])
    OBVIOUS
  <1>12. IsSeq(a) /\ Len(a) = 2 /\ \A k \in 1..2 : a[k] = N(lits[k])
    <2>1. DOMAIN a = DOMAIN lits /\ a = [k \in DOMAIN a |-> a[k]]
      BY <1>11
    <2>2. IsSeq(a) /\ Len(a) = Len(lits) /\ DOMAIN lits = 1..Len(lits)
      BY <1>2, <2>1, MapShape
    <2> QED
      BY <1>9, <1>11, <2>2
  <1>13. IsSeq(b) /\ Len(b) = 2 /\ \A k \in 1..2 : b[k] = N(bs[k])
    <2>1. DOMAIN b = DOMAIN bs /\ b = [k \in DOMAIN b |-> b[k]]
      BY <1>11
    <2>2. IsSeq(b) /\ Len(b) = Len(bs) /\ DOMAIN bs = 1..Len(bs)
      BY <1>2, <2>1, MapShape
    <2> QED
      BY <1>9, <1>11, <2>2
  <1>14. Fitting(K, 0, a, n) /\ Fitting(K, 0 + Len(a), b, n)
    <2>1. ASSUME NEW k \in 1..2 PROVE OperandFits(K[0 + k], a[k], n) /\ OperandFits(K[2 + k], b[k], n)
      <3>1. K[0 + k] = "n" /\ K[2 + k] = "n"
        BY <1>7
      <3> QED
        BY <1>12, <1>13, <3>1, PushesFit
    <2> QED
      BY <1>12, <1>13, <2>1 DEF Fitting
  <1>15. Fitting(K, 0, a \o b, n) /\ Len(a \o b) = 4
    <2>1. Fitting(K, 0, a \o b, n) /\ Len(a \o b) = Len(a) + Len(b)
      BY <1>14, FitJoin
    <2> QED
      BY <1>12, <1>13, <2>1
  <1>16. t = a \o b
    BY <1>10, <1>11 DEF Map
  <1>17. Fitting(K, 0 + Len(t), <<c>>, n) /\ Len(<<c>>) = 1
    <2>1. OperandFits(K[4 + 1], c, n)
      BY <1>7, <1>8, <1>11, PushesFit
    <2>2. Fitting(K, 4, <<c>>, n) /\ Len(<<c>>) = 1
      BY <2>1, FitOne
    <2> QED
      BY <1>15, <1>16, <2>2
  <1>18. Fitting(K, 0, t \o <<c>>, n) /\ Len(t \o <<c>>) = 5
    <2>1. Fitting(K, 0, t \o <<c>>, n) /\ Len(t \o <<c>>) = Len(t) + Len(<<c>>)
      <3>1. PICK q : q = <<c>>
        OBVIOUS
      <3>2. Fitting(K, 0, t, n) /\ Fitting(K, 0 + Len(t), q, n) /\ 0 \in Nat
        BY <1>15, <1>16, <1>17, <3>1
      <3>3. Fitting(K, 0, t \o q, n) /\ Len(t \o q) = Len(t) + Len(q)
        BY <3>2, FitJoin
      <3> QED
        BY <3>1, <3>3
    <2> QED
      BY <1>15, <1>16, <1>17, <2>1
  <1>19. S = (t \o <<c>>) \o Arguments(mod, tys, inst)
    BY <1>1, <1>10, <1>11 DEF Operands
  <1>20. PICK p : p = t \o <<c>>
    OBVIOUS
  <1>21. Fitting(K, 0 + Len(p), Arguments(mod, tys, inst), n)
    BY <1>8, <1>18, <1>20
  <1>22. Fitting(K, 0, p \o Arguments(mod, tys, inst), n)
    BY <1>18, <1>20, <1>21, FitJoin
  <1> QED
    BY <1>1, <1>19, <1>20, <1>22 DEF Pushes

\* What is pushed for an instruction is what is read of its record.
LEMMA InstructionPushes ==
    ASSUME NEW mod, NEW tys, NEW inst, IsInstruction(mod, tys, inst),
           NEW args, inst.op \in Calls => ArgumentsFor(mod, inst.op, ParamsOf(mod, tys, inst), args)
    PROVE  Pushes(mod, tys, inst, args)
  <1>1. inst.op \in Opcodes
    BY OpsAre
  <1>2. CASE inst.op \in Calls
    BY <1>2, CallPushes, InvokePushes DEF Calls
  <1>3. CASE inst.op \in {"CAST", "BINOP", "BR", "SWITCH", "INDIRECTBR", "PHI", "LANDINGPAD"}
    BY <1>3, CastPushes, BinopPushes, BranchPushes, SwitchPushes, IndirectPushes, PhiPushes, LandingPushes
  <1>4. CASE inst.op \in {"GEP", "INBOUNDS_GEP", "EXTRACTVAL", "INSERTVAL", "RESUME", "RET"}
    BY <1>4, ListPushes
  <1>5. CASE inst.op \in {"EXTRACTELT", "INSERTELT", "SHUFFLEVEC", "CMP2"}
    BY <1>5, ValuesPush
  <1>6. CASE inst.op \in {"VSELECT", "VAARG"}
    BY <1>6, ThreePush
  <1>7. CASE inst.op \in {"LOAD", "STORE", "LOADATOMIC", "STOREATOMIC"}
    BY <1>7, AccessPushes
  <1>8. CASE inst.op \in {"CMPXCHG", "ATOMICRMW"}
    BY <1>8, ExchangePushes
  <1>9. CASE inst.op \in {"ALLOCA", "FENCE", "UNREACHABLE"}
    BY <1>9, PlainPushes
  <1> QED
    BY <1>1, <1>2, <1>3, <1>4, <1>5, <1>6, <1>7, <1>8, <1>9 DEF Opcodes, FunctionCodes, Calls

------------------------------------------------------------------------------
(* What is called is found.                                                 *)

LEMMA ParamsAre ==
    ASSUME NEW mod, mod.types \in Seq(TypeRecords), NEW tys, NEW inst, IsCall(mod, tys, inst)
    PROVE  IsSeq(ParamsOf(mod, tys, inst))
  <1>1. PICK ty, T : ty = TypeOf(tys, inst.ops[1]) /\ T = FunctionType(mod, tys, inst.ops[1])
    OBVIOUS
  <1>2. PointsToFunction(mod, ty)
    BY <1>1 DEF IsCall
  <1>3. T = PointedTo(mod, ty)
    BY <1>1 DEF FunctionType, PointedTo
  <1>4. Len(T.vals) >= 2 /\ mod.types[ty + 1].vals[1] + 1 \in DOMAIN mod.types
    BY <1>2, <1>3 DEF PointsToFunction
  <1>5. T \in TypeRecords
    BY <1>3, <1>4 DEF PointedTo
  <1>6. IsSeq(T.vals)
    BY <1>5, SeqIs DEF TypeRecords
  <1>7. IsSeq(ParamTypes(T))
    BY <1>4, <1>6, ParamTypesShape
  <1> QED
    BY <1>1, <1>7 DEF ParamsOf

\* The kinds of the arguments, of whatever knows the types.
KindsOfArguments(r, op, params) == [k \in DOMAIN params |-> TakenAs(r, op, params[k])]

LEMMA KindsOfArgumentsAre ==
    ASSUME NEW mod, NEW r, r.types = mod.types, NEW op, NEW params, IsSeq(params)
    PROVE  ArgumentsFor(mod, op, params, KindsOfArguments(r, op, params))
  <1>1. PICK t : t = KindsOfArguments(r, op, params)
    OBVIOUS
  <1>2. DOMAIN t = DOMAIN params /\ t = [k \in DOMAIN t |-> t[k]]
    BY <1>1 DEF KindsOfArguments
  <1>3. IsSeq(t) /\ Len(t) = Len(params) /\ DOMAIN params = 1..Len(params)
    BY <1>2, MapShape
  <1>4. \A ty : TakenAs(r, op, ty) = TakenAs(mod, op, ty)
    BY DEF TakenAs, isLabel
  <1>5. \A k \in 1..Len(t) : t[k] = TakenAs(mod, op, params[k])
    BY <1>1, <1>3, <1>4 DEF KindsOfArguments
  <1> QED
    BY <1>1, <1>3, <1>5 DEF ArgumentsFor

\* A record starts with the numbers that come before a value.
LEMMA AfterNumbers ==
    ASSUME NEW tys, NEW id, NEW S, IsSeq(S), NEW c \in Nat, c < Len(S), \A k \in 1..c : S[k].push = "push_back",
           NEW K, NEW n, Fitting(K, 0, S, n), NEW vals, vals = FlattenSeq(PushedOf(tys, id, S))
    PROVE  LiesAt(vals, c + 1, Push(tys, id, S[c + 1]))
  <1>1. PICK ss, m : ss = PushedOf(tys, id, S) /\ m = Len(S)
    OBVIOUS
  <1>2. m \in Nat /\ DOMAIN S = 1..m
    BY <1>1, SeqShape
  <1>3. vals = FlattenSeq(ss)
    BY <1>1
  <1>4. IsSeq(ss) /\ Len(ss) = m /\ \A k \in 1..m : ss[k] = Push(tys, id, S[k])
    <2>1. DOMAIN ss = DOMAIN S /\ ss = [k \in DOMAIN ss |-> ss[k]]
      BY <1>1 DEF PushedOf
    <2>2. IsSeq(ss) /\ Len(ss) = Len(S)
      BY <2>1, MapShape
    <2> QED
      BY <1>1, <1>2, <2>2 DEF PushedOf
  <1>5. \A k \in 1..m : IsSeq(ss[k])
    <2> TAKE k \in 1..m
    <2>1. OperandFits(K[0 + k], S[k], n)
      BY <1>1 DEF Fitting
    <2> QED
      BY <1>4, <2>1, PushIsSeq
  <1>6. PICK P : Joined(P, ss, m) /\ vals = P[m]
    BY <1>3, <1>4, <1>5, FlattenJoined
  <1>7. \A k \in 0..m : LiesEach(P, ss, k)
    BY <1>2, <1>5, <1>6, JoinedLies
  <1>8. LiesEach(P, ss, m)
    BY <1>2, <1>7
  <1> DEFINE A(k) == k <= c => Len(P[k]) = k
  <1>9. A(0)
    BY <1>6, NoneSeq DEF Joined
  <1>10. ASSUME NEW k \in Nat, A(k) PROVE A(k + 1)
    <2>1. SUFFICES ASSUME k + 1 <= c PROVE Len(P[k + 1]) = k + 1
      OBVIOUS
    <2>2. PICK h : h = k + 1
      OBVIOUS
    <2>3. h \in 1..m /\ h \in 1..c /\ h - 1 = k
      BY <1>1, <1>2, <2>1, <2>2
    <2>4. Len(P[h]) = Len(P[h - 1]) + Len(ss[h])
      BY <1>8, <2>3 DEF LiesEach
    <2>5. ss[h] = <<S[h].n>>
      BY <1>4, <2>3 DEF Push
    <2>6. Len(ss[h]) = 1
      BY <2>5, OneSeq
    <2>7. Len(P[k]) = k
      BY <1>10, <2>1
    <2> QED
      BY <2>2, <2>3, <2>4, <2>6, <2>7
  <1> HIDE DEF A
  <1>11. \A k \in Nat : A(k)
    <2> DEFINE T == {k \in Nat : A(k)}
    <2>1. 0 \in T /\ \A k \in Nat : k \in T => k + 1 \in T
      BY <1>9, <1>10
    <2> HIDE DEF T
    <2>2. Nat \subseteq T
      BY <2>1, NatSetInduction
    <2> QED
      BY <2>2 DEF T
  <1>12. Len(P[c]) = c
    BY <1>11 DEF A
  <1>13. PICK h : h = c + 1
    OBVIOUS
  <1>14. h \in 1..m /\ h - 1 = c
    BY <1>1, <1>2, <1>13
  <1>15. LiesAt(P[m], Len(P[h - 1]) + 1, ss[h])
    BY <1>8, <1>14 DEF LiesEach
  <1> QED
    BY <1>4, <1>6, <1>12, <1>13, <1>14, <1>15

\* The value that lies at a, with its type if the reader does not know it.
LEMMA TypedLies ==
    ASSUME NEW tys, NEW id \in Nat, NEW v \in Nat, NEW s, s = VT(v), NEW vals, NEW a, LiesAt(vals, a, Push(tys, id, s))
    PROVE  vals[a] = Relative(v, id, Width) /\ (v >= id => vals[a + 1] = TypeOf(tys, v))
  <1>1. PICK p, n, ty : p = Push(tys, id, s) /\ n = Relative(v, id, Width) /\ ty = TypeOf(tys, v)
    OBVIOUS
  <1>2. p = <<n>> \o One(Forward(v, id), ty)
    BY <1>1 DEF Push, VT
  <1>3. LiesAt(vals, a, p) /\ a \in Nat
    BY <1>1 DEF LiesAt
  <1>4. CASE v >= id
    <2>1. p = <<n>> \o <<ty>>
      BY <1>2, <1>4 DEF One, Forward
    <2>2. Len(p) = 2 /\ p[1] = n /\ p[2] = ty
      <3>1. <<n>> \o <<ty>> = <<n, ty>> /\ Len(<<n, ty>>) = 2 /\ <<n, ty>>[1] = n /\ <<n, ty>>[2] = ty
        BY TwoSeq
      <3> QED
        BY <2>1, <3>1, Zenon
    <2>3. vals[a + 1 - 1] = p[1] /\ vals[a + 2 - 1] = p[2]
      BY <1>3, <2>2 DEF LiesAt
    <2>4. a + 1 - 1 = a /\ a + 2 - 1 = a + 1
      BY <1>3
    <2> QED
      BY <1>1, <2>2, <2>3, <2>4
  <1>5. CASE ~(v >= id)
    <2>1. ~Forward(v, id)
      BY <1>5 DEF Forward
    <2>2. One(Forward(v, id), ty) = Empty
      BY <2>1 DEF One, Empty
    <2>3. p = <<n>> /\ Len(p) = 1 /\ p[1] = n
      BY <1>2, <2>2, OneSeq, NoneJoined
    <2>4. vals[a + 1 - 1] = p[1] /\ a + 1 - 1 = a
      BY <1>3, <2>3 DEF LiesAt
    <2> QED
      BY <1>1, <1>5, <2>3, <2>4
  <1> QED
    BY <1>4, <1>5

\* Where the callee is among the operands.
LEMMA CalleeFollows ==
    ASSUME NEW mod, NEW tys, NEW inst, IsInstruction(mod, tys, inst), inst.op \in Calls,
           NEW S, S = Operands(mod, tys, inst), NEW c, c = (IF inst.op = "CALL" THEN 2 ELSE 4), IsSeq(S)
    PROVE  c \in Nat /\ c < Len(S) /\ S[c + 1] = VT(inst.ops[1]) /\ \A k \in 1..c : S[k].push = "push_back"
  <1>1. PICK t, v : t = Arguments(mod, tys, inst) /\ v = VT(inst.ops[1])
    OBVIOUS
  <1>2. IsSeq(t)
    <2>1. IsCall(mod, tys, inst)
      BY DEF IsInstruction
    <2>2. PICK ops, m : ops = inst.ops /\ m = Len(ops) - 1
      OBVIOUS
    <2>3. IsSeq(ops) /\ ops # Empty
      BY <2>1, <2>2, OpsAre DEF IsCall, Empty
    <2>4. m \in Nat
      <3>1. Len(ops) \in Nat /\ (Len(ops) = 0 => ops = Empty)
        BY <2>3, SeqShape, NoneSeq, SameSeq
      <3> QED
        BY <2>2, <2>3, <3>1
    <2>5. DOMAIN t = 1..m /\ t = [k \in 1..m |-> t[k]]
      BY <1>1, <2>2 DEF Arguments
    <2> QED
      BY <2>4, <2>5, TabulatedSeq
  <1>3. CASE inst.op = "CALL"
    <2>1. PICK a, b, p : a = N(inst.lits[1]) /\ b = N(inst.lits[2] * 2 + inst.lits[3]) /\ p = <<a, b, v>>
      OBVIOUS
    <2>2. S = p \o t
      BY <1>1, <1>3, <2>1 DEF Operands
    <2>3. IsSeq(p) /\ Len(p) = 3 /\ p[1] = a /\ p[2] = b /\ p[3] = v
      BY <2>1, ThreeSeq
    <2>4. Len(S) = 3 + Len(t) /\ Len(t) \in Nat /\ \A k \in 1..3 : S[k] = p[k]
      <3>1. Len(p \o t) = Len(p) + Len(t) /\ \A k \in 1..Len(p) : (p \o t)[k] = p[k]
        BY <1>2, <2>3, JoinShape
      <3> QED
        BY <1>2, <2>2, <2>3, <3>1, SeqShape
    <2>5. a.push = "push_back" /\ b.push = "push_back"
      BY <2>1 DEF N
    <2>6. S[1] = a /\ S[2] = b /\ S[3] = v /\ c = 2
      BY <1>3, <2>3, <2>4
    <2>7. \A k \in 1..2 : S[k].push = "push_back"
      <3> TAKE k \in 1..2
      <3>1. k = 1 \/ k = 2
        OBVIOUS
      <3> QED
        BY <2>5, <2>6, <3>1
    <2> QED
      BY <1>1, <2>4, <2>6, <2>7
  <1>4. CASE inst.op = "INVOKE"
    <2>1. PICK lits, bs, a, b, u : /\ lits = inst.lits /\ bs = inst.blocks /\ a = [k \in DOMAIN lits |-> N(lits[k])]
                                   /\ b = [k \in DOMAIN bs |-> N(bs[k])] /\ u = <<v>>
      OBVIOUS
    <2>2. S = ((a \o b) \o u) \o t
      BY <1>1, <1>4, <2>1 DEF Operands, Map
    <2>3. IsSeq(lits) /\ IsSeq(bs) /\ Len(lits) = 2 /\ Len(bs) = 2
      BY <1>4, <2>1, OpsAre DEF IsInstruction
    <2>4. IsSeq(a) /\ Len(a) = 2 /\ DOMAIN lits = 1..2
      <3>1. DOMAIN a = DOMAIN lits /\ a = [k \in DOMAIN a |-> a[k]]
        BY <2>1
      <3> QED
        BY <2>3, <3>1, MapShape
    <2>5. IsSeq(b) /\ Len(b) = 2 /\ DOMAIN bs = 1..2
      <3>1. DOMAIN b = DOMAIN bs /\ b = [k \in DOMAIN b |-> b[k]]
        BY <2>1
      <3> QED
        BY <2>3, <3>1, MapShape
    <2>6. \A k \in 1..2 : a[k].push = "push_back" /\ b[k].push = "push_back"
      BY <2>1, <2>4, <2>5 DEF N
    <2>7. IsSeq(u) /\ Len(u) = 1 /\ u[1] = v
      BY <2>1, OneSeq
    <2>8. PICK p, q : p = a \o b /\ q = p \o u
      OBVIOUS
    <2>9. IsSeq(p) /\ Len(p) = 4 /\ (\A k \in 1..2 : p[k] = a[k]) /\ \A k \in 1..2 : p[2 + k] = b[k]
      <3>1. /\ IsSeq(a \o b) /\ Len(a \o b) = Len(a) + Len(b) /\ (\A k \in 1..Len(a) : (a \o b)[k] = a[k])
            /\ \A k \in 1..Len(b) : (a \o b)[Len(a) + k] = b[k]
        <4>1. IsSeq(a) /\ IsSeq(b)
          BY <2>4, <2>5
        <4> QED
          BY <4>1, JoinShape
      <3> QED
        BY <2>4, <2>5, <2>8, <3>1
    <2>10. IsSeq(q) /\ Len(q) = 5 /\ (\A k \in 1..4 : q[k] = p[k]) /\ q[5] = v
      <3>1. /\ IsSeq(p \o u) /\ Len(p \o u) = Len(p) + Len(u) /\ (\A k \in 1..Len(p) : (p \o u)[k] = p[k])
            /\ \A k \in 1..Len(u) : (p \o u)[Len(p) + k] = u[k]
        <4>1. IsSeq(p) /\ IsSeq(u)
          BY <2>7, <2>9
        <4> QED
          BY <4>1, JoinShape
      <3> QED
        BY <2>7, <2>8, <2>9, <3>1
    <2>11. Len(S) = 5 + Len(t) /\ Len(t) \in Nat /\ \A k \in 1..5 : S[k] = q[k]
      <3>1. Len(q \o t) = Len(q) + Len(t) /\ \A k \in 1..Len(q) : (q \o t)[k] = q[k]
        <4>1. IsSeq(q) /\ IsSeq(t)
          BY <1>2, <2>10
        <4> QED
          BY <4>1, JoinShape
      <3> QED
        BY <1>2, <2>2, <2>8, <2>10, <3>1, SeqShape
    <2>12. \A k \in 1..4 : S[k].push = "push_back"
      <3> TAKE k \in 1..4
      <3>1. S[k] = p[k]
        BY <2>10, <2>11
      <3>2. k \in 1..2 \/ \E j \in 1..2 : k = 2 + j
        <4>1. k = 1 \/ k = 2 \/ k = 2 + 1 \/ k = 2 + 2
          OBVIOUS
        <4> QED
          BY <4>1
      <3> QED
        BY <2>6, <2>9, <3>1, <3>2
    <2>13. c = 4 /\ S[5] = v
      BY <1>4, <2>10, <2>11
    <2> QED
      BY <1>1, <2>11, <2>12, <2>13
  <1> QED
    BY <1>3, <1>4 DEF Calls

\* What the reader knows of the types of the values it has, as far as calls go by it.
KnowsCallee(s, tys, id, v) == v < id => TypeOf(s.tys, v) = TypeOf(tys, v)
\* The record of an instruction.
Writes(x, mod, tys, id, inst) ==
  x.code = FunctionCodes[inst.op] /\ x.vals = FlattenSeq(PushedOf(tys, id, Operands(mod, tys, inst)))

LEMMA CallFits ==
    ASSUME NEW mod, mod.types \in Seq(TypeRecords), NEW tys, NEW inst, IsInstruction(mod, tys, inst), inst.op \in Calls,
           NEW S, S = Operands(mod, tys, inst)
    PROVE  IsSeq(S) /\ \E K : Fitting(K, 0, S, Len(tys))
  <1>1. PICK params : params = ParamsOf(mod, tys, inst)
    OBVIOUS
  <1>2. IsCall(mod, tys, inst)
    BY DEF IsInstruction
  <1>3. IsSeq(params)
    BY <1>1, <1>2, ParamsAre
  <1>4. PICK op, args : op = inst.op /\ args = KindsOfArguments(mod, op, params)
    OBVIOUS
  <1>5. ArgumentsFor(mod, op, params, args)
    BY <1>3, <1>4, KindsOfArgumentsAre
  <1>6. ArgumentsFor(mod, inst.op, ParamsOf(mod, tys, inst), args)
    BY <1>1, <1>4, <1>5
  <1>7. Pushes(mod, tys, inst, args)
    BY <1>6, InstructionPushes
  <1>8. Fitting(KindsFor(inst.op, args), 0, S, Len(tys))
    BY <1>7 DEF Pushes
  <1>9. IsSeq(S)
    BY <1>8 DEF Fitting
  <1> QED
    BY <1>8, <1>9

LEMMA InstructionWrites ==
    ASSUME NEW mod, NEW tys, NEW id, NEW inst, NEW x, x = WriteInstruction(mod, tys, id, inst)
    PROVE  Writes(x, mod, tys, id, inst) /\ x.item = "record"
  <1>1. PICK S, c, v : S = Operands(mod, tys, inst) /\ c = FunctionCodes[inst.op] /\ v = Flat(LAMBDA s : Push(tys, id, s), S)
    OBVIOUS
  <1>2. v = FlattenSeq(PushedOf(tys, id, S))
    BY <1>1, PushedIs
  <1>3. PICK a : x = Record(c, v, a)
    BY <1>1 DEF WriteInstruction
  <1>4. x.code = c /\ x.vals = v /\ x.item = "record"
    BY <1>3, RecordFields
  <1> QED
    BY <1>1, <1>2, <1>4 DEF Writes

\* The reader finds what is called.
LEMMA CalleeIs ==
    ASSUME NEW mod, mod.types \in Seq(TypeRecords), NEW tys, NEW inst, IsInstruction(mod, tys, inst), inst.op \in Calls,
           NEW s, NEW id, Numbering(s, tys, id), s.types = mod.types, KnowsCallee(s, tys, id, inst.ops[1]),
           NEW x, Writes(x, mod, tys, id, inst)
    PROVE  Callee(s, x) = FunctionType(mod, tys, inst.ops[1])
  <1>1. PICK S, c, v : S = Operands(mod, tys, inst) /\ c = (IF inst.op = "CALL" THEN 2 ELSE 4) /\ v = inst.ops[1]
    OBVIOUS
  <1>2. IsSeq(S) /\ \E K : Fitting(K, 0, S, Len(tys))
    BY <1>1, CallFits
  <1>3. PICK K : Fitting(K, 0, S, Len(tys))
    BY <1>2
  <1>4. c \in Nat /\ c < Len(S) /\ S[c + 1] = VT(v) /\ \A k \in 1..c : S[k].push = "push_back"
    BY <1>1, <1>2, CalleeFollows
  <1>5. PICK vals : vals = x.vals
    OBVIOUS
  <1>6. vals = FlattenSeq(PushedOf(tys, id, S))
    BY <1>1, <1>5 DEF Writes
  <1>7. LiesAt(vals, c + 1, Push(tys, id, S[c + 1]))
    BY <1>2, <1>3, <1>4, <1>6, AfterNumbers
  <1>8. v \in 0..(Len(tys) - 1)
    BY <1>1 DEF IsInstruction, IsCall
  <1>9. id \in Nat /\ v \in Nat /\ Len(s.tys) = id
    BY <1>8 DEF Numbering
  <1>10. PICK a : a = c + 1
    OBVIOUS
  <1>11. LiesAt(vals, a, Push(tys, id, VT(v)))
    BY <1>4, <1>7, <1>10
  <1>12. vals[a] = Relative(v, id, Width) /\ (v >= id => vals[a + 1] = TypeOf(tys, v))
    BY <1>9, <1>11, TypedLies
  <1>13. CalleeAt(x) = a
    <2>1. x.code = FunctionCodes[inst.op]
      BY DEF Writes
    <2>2. CASE inst.op = "CALL"
      BY <1>1, <1>10, <2>1, <2>2 DEF CalleeAt, FunctionCodes
    <2>3. CASE inst.op = "INVOKE"
      BY <1>1, <1>10, <2>1, <2>3 DEF CalleeAt, FunctionCodes
    <2> QED
      BY <2>2, <2>3 DEF Calls
  <1>14. Absolute(s, vals[a]) = v
    <2>1. Absolute(s, Relative(v, id, Width)) = v
      BY <1>8, RelativeReads
    <2> QED
      BY <1>12, <2>1
  <1>15. PICK ty : ty = IF v < Len(s.tys) THEN TypeOf(s.tys, v) ELSE vals[a + 1]
    OBVIOUS
  <1>16. ty = TypeOf(tys, v)
    <2>1. CASE v < id
      BY <1>1, <1>9, <1>15, <2>1 DEF KnowsCallee
    <2>2. CASE v >= id
      BY <1>9, <1>12, <1>15, <2>2
    <2> QED
      BY <1>9, <2>1, <2>2
  <1>17. Callee(s, x) = PointedTo(s, ty)
    BY <1>5, <1>13, <1>14, <1>15 DEF Callee
  <1>18. PointedTo(s, ty) = FunctionType(mod, tys, v)
    BY <1>16 DEF PointedTo, FunctionType
  <1> QED
    BY <1>1, <1>17, <1>18

\* The kinds of the arguments that the reader takes are the writer's.
LEMMA ArgumentKindsAre ==
    ASSUME NEW mod, mod.types \in Seq(TypeRecords), NEW tys, NEW inst, IsInstruction(mod, tys, inst), inst.op \in Calls,
           NEW s, s.types = mod.types,
           NEW x, x.code = FunctionCodes[inst.op], Callee(s, x) = FunctionType(mod, tys, inst.ops[1])
    PROVE  ArgumentsFor(mod, inst.op, ParamsOf(mod, tys, inst), ArgumentKinds(s, x))
  <1>1. PICK params, op : params = ParamsOf(mod, tys, inst) /\ op = inst.op
    OBVIOUS
  <1>2. IsCall(mod, tys, inst)
    BY DEF IsInstruction
  <1>3. IsSeq(params)
    BY <1>1, <1>2, ParamsAre
  <1>4. params = ParamTypes(Callee(s, x))
    BY <1>1 DEF ParamsOf
  <1>5. isCall(x) /\ (x.code = FunctionCodes.CALL <=> op = "CALL")
    <2>1. op = "CALL" \/ op = "INVOKE"
      BY <1>1 DEF Calls
    <2>2. x.code = FunctionCodes[op]
      BY <1>1
    <2>3. FunctionCodes["CALL"] = 34 /\ FunctionCodes["INVOKE"] = 13 /\ FunctionCodes.CALL = 34 /\ FunctionCodes.INVOKE = 13
      BY DEF FunctionCodes
    <2>4. CASE op = "CALL"
      BY <2>2, <2>3, <2>4 DEF isCall
    <2>5. CASE op = "INVOKE"
      BY <2>2, <2>3, <2>5 DEF isCall
    <2> QED
      BY <2>1, <2>4, <2>5
  <1>6. ArgumentKinds(s, x) = KindsOfArguments(s, op, params)
    BY <1>4, <1>5 DEF ArgumentKinds, KindsOfArguments, TakenAs, Map
  <1>7. ArgumentsFor(mod, op, params, KindsOfArguments(s, op, params))
    BY <1>3, KindsOfArgumentsAre
  <1> QED
    BY <1>1, <1>6, <1>7

\* The operands of an instruction are read.
LEMMA InstructionIsRead ==
    ASSUME NEW mod, mod.types \in Seq(TypeRecords), NEW tys, NEW inst, IsInstruction(mod, tys, inst),
           NEW q, NEW id, Numbering(q, tys, id), q.types = mod.types,
           inst.op \in Calls => KnowsCallee(q, tys, id, inst.ops[1]),
           NEW x, Writes(x, mod, tys, id, inst)
    PROVE  Gets(ReadOperands(q, x, ArgumentKinds(q, x)), Operands(mod, tys, inst), tys)
  <1>1. PICK args, S : args = ArgumentKinds(q, x) /\ S = Operands(mod, tys, inst)
    OBVIOUS
  <1>2. inst.op \in Calls => ArgumentsFor(mod, inst.op, ParamsOf(mod, tys, inst), args)
    <2>1. SUFFICES ASSUME inst.op \in Calls PROVE ArgumentsFor(mod, inst.op, ParamsOf(mod, tys, inst), args)
      OBVIOUS
    <2>2. Callee(q, x) = FunctionType(mod, tys, inst.ops[1])
      BY <2>1, CalleeIs
    <2>3. x.code = FunctionCodes[inst.op]
      BY DEF Writes
    <2> QED
      BY <1>1, <2>1, <2>2, <2>3, ArgumentKindsAre
  <1>3. Pushes(mod, tys, inst, args)
    BY <1>2, InstructionPushes
  <1>4. PICK head, loop : head = Leading(x.code, args) /\ loop = Repeated(x.code)
    OBVIOUS
  <1>5. Fitting(KindsOf(head, loop), 0, S, Len(tys))
    BY <1>1, <1>3, <1>4 DEF Pushes, KindsFor, Writes
  <1>6. IsSeq(S) /\ AllFit(head, loop, S, Len(tys))
    BY <1>5, FitsAll
  <1>7. x.vals = FlattenSeq(PushedOf(tys, id, S))
    BY <1>1 DEF Writes
  <1>8. Gets(ReadAs(q, x, head, loop), S, tys)
    <2>1. Numbering(q, tys, id) /\ IsSeq(S)
      BY <1>6
    <2>2. AllFit(head, loop, S, Len(tys))
      BY <1>6
    <2> QED
      BY <1>7, <2>1, <2>2, OperandsAreRead
  <1> QED
    BY <1>1, <1>4, <1>8 DEF ReadOperands

------------------------------------------------------------------------------
(* An instruction adds a value for the reader as it does for the writer.    *)

\* Where what is pushed for each operand lies.
EachLies(P, vals, tys, id, S) ==
  /\ IsSeq(vals) /\ vals = P[Len(S)] /\ Len(P[0]) = 0
  /\ \A k \in 1..Len(S) : LiesAt(vals, Len(P[k - 1]) + 1, Push(tys, id, S[k]))
                          /\ Len(P[k]) = Len(P[k - 1]) + Len(Push(tys, id, S[k]))

LEMMA PushedLie ==
    ASSUME NEW tys, NEW id, NEW S, IsSeq(S), NEW K, NEW n, Fitting(K, 0, S, n), NEW vals, vals = FlattenSeq(PushedOf(tys, id, S))
    PROVE  \E P : EachLies(P, vals, tys, id, S)
  <1>1. PICK ss, m : ss = PushedOf(tys, id, S) /\ m = Len(S)
    OBVIOUS
  <1>2. m \in Nat /\ DOMAIN S = 1..m
    BY <1>1, SeqShape
  <1>3. vals = FlattenSeq(ss)
    BY <1>1
  <1>4. IsSeq(ss) /\ Len(ss) = m /\ \A k \in 1..m : ss[k] = Push(tys, id, S[k])
    <2>1. DOMAIN ss = DOMAIN S /\ ss = [k \in DOMAIN ss |-> ss[k]]
      BY <1>1 DEF PushedOf
    <2>2. IsSeq(ss) /\ Len(ss) = Len(S)
      BY <2>1, MapShape
    <2> QED
      BY <1>1, <1>2, <2>2 DEF PushedOf
  <1>5. \A k \in 1..m : IsSeq(ss[k])
    <2> TAKE k \in 1..m
    <2>1. OperandFits(K[0 + k], S[k], n)
      BY <1>1 DEF Fitting
    <2> QED
      BY <1>4, <2>1, PushIsSeq
  <1>6. PICK P : Joined(P, ss, m) /\ vals = P[m]
    BY <1>3, <1>4, <1>5, FlattenJoined
  <1>7. \A k \in 0..m : LiesEach(P, ss, k)
    BY <1>2, <1>5, <1>6, JoinedLies
  <1>8. LiesEach(P, ss, m)
    BY <1>2, <1>7
  <1>9. Len(P[0]) = 0
    BY <1>6, NoneSeq DEF Joined
  <1>10. IsSeq(vals)
    BY <1>6, <1>8 DEF LiesEach
  <1>11. ASSUME NEW k \in 1..m
         PROVE  LiesAt(vals, Len(P[k - 1]) + 1, Push(tys, id, S[k])) /\ Len(P[k]) = Len(P[k - 1]) + Len(Push(tys, id, S[k]))
    <2>1. LiesAt(P[m], Len(P[k - 1]) + 1, ss[k]) /\ Len(P[k]) = Len(P[k - 1]) + Len(ss[k])
      BY <1>8, <1>11 DEF LiesEach
    <2>2. ss[k] = Push(tys, id, S[k])
      BY <1>4, <1>11
    <2> QED
      BY <1>6, <2>1, <2>2
  <1> QED
    BY <1>1, <1>6, <1>9, <1>10, <1>11 DEF EachLies

\* A number lies at the place it was pushed.
LEMMA NumberLies ==
    ASSUME NEW tys, NEW id, NEW s, s.push = "push_back", NEW vals, NEW a, LiesAt(vals, a, Push(tys, id, s))
    PROVE  vals[a] = s.n /\ Len(Push(tys, id, s)) = 1 /\ a \in Nat
  <1>1. PICK p, n : p = Push(tys, id, s) /\ n = s.n
    OBVIOUS
  <1>2. p = <<n>>
    BY <1>1 DEF Push
  <1>3. Len(p) = 1 /\ p[1] = n
    BY <1>2, OneSeq
  <1>4. a \in Nat /\ vals[a + 1 - 1] = p[1]
    BY <1>1, <1>3 DEF LiesAt
  <1>5. a + 1 - 1 = a
    BY <1>4
  <1> QED
    BY <1>1, <1>3, <1>4, <1>5

LEMMA FirstLies ==
    ASSUME NEW tys, NEW id, NEW S, NEW vals, NEW P, EachLies(P, vals, tys, id, S),
           Len(S) \in Nat \ {0}, NEW s, s = S[1], s.push = "push_back"
    PROVE  vals[1] = s.n
  <1>1. 1 \in 1..Len(S)
    OBVIOUS
  <1>2. LiesAt(vals, Len(P[1 - 1]) + 1, Push(tys, id, s)) /\ Len(P[0]) = 0
    BY <1>1 DEF EachLies
  <1>3. Len(P[1 - 1]) + 1 = 1
    BY <1>2
  <1>4. LiesAt(vals, 1, Push(tys, id, s))
    BY <1>2, <1>3
  <1> QED
    BY <1>4, NumberLies

LEMMA LastLies ==
    ASSUME NEW tys, NEW id, NEW S, NEW vals, NEW P, EachLies(P, vals, tys, id, S), Len(S) = 3,
           NEW s, s = S[3], s.push = "push_back", NEW t, t = S[2]
    PROVE  vals[Len(vals)] = s.n /\ (t.push = "push_back" => vals[Len(vals) - 1] = t.n) /\ Len(vals) \in Nat
  <1>1. 2 \in 1..Len(S) /\ 3 \in 1..Len(S)
    OBVIOUS
  <1>2. /\ LiesAt(vals, Len(P[3 - 1]) + 1, Push(tys, id, s)) /\ Len(P[3]) = Len(P[3 - 1]) + Len(Push(tys, id, s))
        /\ LiesAt(vals, Len(P[2 - 1]) + 1, Push(tys, id, t)) /\ Len(P[2]) = Len(P[2 - 1]) + Len(Push(tys, id, t))
    BY <1>1 DEF EachLies
  <1>3. vals = P[3] /\ IsSeq(vals)
    BY DEF EachLies
  <1>4. PICK a, b, c : a = Len(P[1]) + 1 /\ b = Len(P[2]) + 1 /\ c = Len(P[3])
    OBVIOUS
  <1>5. LiesAt(vals, b, Push(tys, id, s)) /\ LiesAt(vals, a, Push(tys, id, t))
    BY <1>2, <1>4
  <1>6. vals[b] = s.n /\ Len(Push(tys, id, s)) = 1
    BY <1>5, NumberLies
  <1>7. c = Len(P[2]) + 1 /\ c = Len(vals)
    BY <1>2, <1>3, <1>4, <1>6
  <1>8. c \in Nat
    BY <1>3, <1>7, SeqShape
  <1>9. t.push = "push_back" => vals[c - 1] = t.n
    <2>1. SUFFICES ASSUME t.push = "push_back" PROVE vals[c - 1] = t.n
      OBVIOUS
    <2>2. vals[a] = t.n /\ Len(Push(tys, id, t)) = 1 /\ a \in Nat
      BY <1>5, <2>1, NumberLies
    <2>3. Len(P[2]) = Len(P[1]) + 1
      BY <1>2, <2>2
    <2>4. c = a + 1
      BY <1>4, <1>7, <2>3
    <2> QED
      BY <2>2, <2>4
  <1> QED
    BY <1>4, <1>6, <1>7, <1>8, <1>9

\* A code is that of one opcode.
LEMMA CodeTells ==
    ASSUME NEW op \in Opcodes, NEW name \in Opcodes, FunctionCodes[op] = FunctionCodes[name]
    PROVE  op = name
  <1>1. (CHOOSE c \in DOMAIN FunctionCodes : FunctionCodes[c] = FunctionCodes[op]) = op
    BY CodeGivesOpcode
  <1>2. (CHOOSE c \in DOMAIN FunctionCodes : FunctionCodes[c] = FunctionCodes[name]) = name
    BY CodeGivesOpcode
  <1> QED
    BY <1>1, <1>2

GivenFirst == {"PHI", "ALLOCA", "LANDINGPAD"}
GivenLast == {"CAST", "VAARG"}

LEMMA NamesAreOpcodes == WithoutValue \cup Calls \cup GivenFirst \cup GivenLast \subseteq Opcodes
  BY DEF WithoutValue, Calls, GivenFirst, GivenLast, Opcodes, FunctionCodes

LEMMA CodeIsIn ==
    ASSUME NEW op \in Opcodes, NEW c, c = FunctionCodes[op]
    PROVE  /\ c \in {FunctionCodes.CALL, FunctionCodes.INVOKE} <=> op \in Calls
           /\ c \in {FunctionCodes.PHI, FunctionCodes.ALLOCA, FunctionCodes.LANDINGPAD} <=> op \in GivenFirst
           /\ c \in {FunctionCodes.CAST, FunctionCodes.VAARG} <=> op \in GivenLast
           /\ c = FunctionCodes.CAST <=> op = "CAST"
           /\ c \in {FunctionCodes.RET, FunctionCodes.BR, FunctionCodes.SWITCH, FunctionCodes.INDIRECTBR,
                     FunctionCodes.UNREACHABLE, FunctionCodes.RESUME, FunctionCodes.STORE,
                     FunctionCodes.STOREATOMIC, FunctionCodes.FENCE} <=> op \in WithoutValue
  <1>1. \A name \in Opcodes : c = FunctionCodes[name] <=> op = name
    BY CodeTells
  <1>2. /\ "CALL" \in Opcodes /\ "INVOKE" \in Opcodes /\ "PHI" \in Opcodes /\ "ALLOCA" \in Opcodes
        /\ "LANDINGPAD" \in Opcodes /\ "CAST" \in Opcodes /\ "VAARG" \in Opcodes
    BY NamesAreOpcodes DEF Calls, GivenFirst, GivenLast
  <1>3. /\ "RET" \in Opcodes /\ "BR" \in Opcodes /\ "SWITCH" \in Opcodes /\ "INDIRECTBR" \in Opcodes
        /\ "UNREACHABLE" \in Opcodes /\ "RESUME" \in Opcodes /\ "STORE" \in Opcodes
        /\ "STOREATOMIC" \in Opcodes /\ "FENCE" \in Opcodes
    BY NamesAreOpcodes DEF WithoutValue
  <1>4. c \in {FunctionCodes.CALL, FunctionCodes.INVOKE} <=> op \in Calls
    BY <1>1, <1>2 DEF Calls
  <1>5. c \in {FunctionCodes.PHI, FunctionCodes.ALLOCA, FunctionCodes.LANDINGPAD} <=> op \in GivenFirst
    BY <1>1, <1>2 DEF GivenFirst
  <1>6. /\ c \in {FunctionCodes.CAST, FunctionCodes.VAARG} <=> op \in GivenLast
        /\ c = FunctionCodes.CAST <=> op = "CAST"
    BY <1>1, <1>2 DEF GivenLast
  <1>7. c \in {FunctionCodes.RET, FunctionCodes.BR, FunctionCodes.SWITCH, FunctionCodes.INDIRECTBR,
               FunctionCodes.UNREACHABLE, FunctionCodes.RESUME, FunctionCodes.STORE,
               FunctionCodes.STOREATOMIC, FunctionCodes.FENCE} <=> op \in WithoutValue
    BY <1>1, <1>3 DEF WithoutValue
  <1> QED
    BY <1>4, <1>5, <1>6, <1>7

LEMMA ResultTypeIs ==
    ASSUME NEW op \in Opcodes, NEW x, x.code = FunctionCodes[op], NEW s
    PROVE  /\ op \in Calls => ResultType(s, x) = ReturnType(Callee(s, x))
           /\ op \in GivenFirst => ResultType(s, x) = x.vals[1]
           /\ op \in GivenLast => ResultType(s, x) = x.vals[Len(x.vals) - (IF op = "CAST" THEN 1 ELSE 0)]
           /\ op \in WithoutValue => ResultType(s, x) = NoType
           /\ op \notin Calls \cup GivenFirst \cup GivenLast \cup WithoutValue => ResultType(s, x) = Valued
  <1>1. PICK c : c = x.code
    OBVIOUS
  <1>2. /\ c \in {FunctionCodes.CALL, FunctionCodes.INVOKE} <=> op \in Calls
        /\ c \in {FunctionCodes.PHI, FunctionCodes.ALLOCA, FunctionCodes.LANDINGPAD} <=> op \in GivenFirst
        /\ c \in {FunctionCodes.CAST, FunctionCodes.VAARG} <=> op \in GivenLast
        /\ c = FunctionCodes.CAST <=> op = "CAST"
        /\ c \in {FunctionCodes.RET, FunctionCodes.BR, FunctionCodes.SWITCH, FunctionCodes.INDIRECTBR,
                  FunctionCodes.UNREACHABLE, FunctionCodes.RESUME, FunctionCodes.STORE,
                  FunctionCodes.STOREATOMIC, FunctionCodes.FENCE} <=> op \in WithoutValue
    BY <1>1, CodeIsIn
  <1>3. /\ op \in GivenFirst => op \notin Calls
        /\ op \in GivenLast => op \notin Calls \cup GivenFirst
        /\ op \in WithoutValue => op \notin Calls \cup GivenFirst \cup GivenLast
    BY DEF Calls, GivenFirst, GivenLast, WithoutValue
  <1>4. CASE op \in Calls
    BY <1>1, <1>2, <1>3, <1>4 DEF ResultType, isCall
  <1>5. CASE op \in GivenFirst
    BY <1>1, <1>2, <1>3, <1>5 DEF ResultType, isCall
  <1>6. CASE op \in GivenLast
    BY <1>1, <1>2, <1>3, <1>6 DEF ResultType, isCall
  <1>7. CASE op \in WithoutValue
    BY <1>1, <1>2, <1>3, <1>7 DEF ResultType, isCall
  <1>8. CASE op \notin Calls \cup GivenFirst \cup GivenLast \cup WithoutValue
    BY <1>1, <1>2, <1>3, <1>8 DEF ResultType, isCall
  <1> QED
    BY <1>4, <1>5, <1>6, <1>7, <1>8

LEMMA TypedValue ==
    ASSUME NEW mod, NEW s, s.types = mod.types, NEW ty \in Nat
    PROVE  HasValue(s, ty) <=> ~isVoid(mod, ty)
  <1>1. ty # -1 /\ ty >= 0
    OBVIOUS
  <1>2. isVoid(s, ty) <=> isVoid(mod, ty)
    BY DEF isVoid
  <1> QED
    BY <1>1, <1>2 DEF HasValue, NoType

LEMMA AllocaStarts ==
    ASSUME NEW mod, NEW tys, NEW inst, IsInstruction(mod, tys, inst), inst.op = "ALLOCA"
    PROVE  StartsTyped(Operands(mod, tys, inst), inst.ty)
  <1>1. PICK K, n, ops, lits, ty, S : /\ K = KindsFor("ALLOCA", Empty) /\ n = Len(tys) /\ ops = inst.ops
                                      /\ lits = inst.lits /\ ty = inst.ty /\ S = Operands(mod, tys, inst)
    OBVIOUS
  <1>2. Past(K, 0, "n")
    BY <1>1, KindsNumbers
  <1>3. Past(K, 3, "n") /\ K[1] = "n" /\ K[2] = "n" /\ K[3] = "n"
    BY <1>2, NumbersAt, PastFurther
  <1>4. PICK a, b, c, s, t : a = N(ty) /\ b = N(TypeOf(tys, ops[1])) /\ c = N(ops[1]) /\ s = <<a, b, c>> /\ t = AlignFirst(lits)
    OBVIOUS
  <1>5. S = s \o t
    BY <1>1, <1>4 DEF Operands
  <1>6. OperandFits(K[1], a, n) /\ OperandFits(K[2], b, n) /\ OperandFits(K[3], c, n)
    BY <1>3, <1>4, PushesFit
  <1>7. Fitting(K, 0, s, n) /\ Len(s) = 3
    BY <1>4, <1>6, FitThree
  <1>8. IsSeq(lits) /\ Len(lits) >= 1
    BY <1>1, OpsAre DEF IsInstruction
  <1>9. Fitting(K, 3, t, n)
    BY <1>3, <1>4, <1>8, AlignFits
  <1>10. Len(s) >= 1 /\ s[1] = N(ty)
    BY <1>4, <1>7
  <1> QED
    BY <1>1, <1>5, <1>7, <1>9, <1>10, StartsAs

LEMMA FirstStarts ==
    ASSUME NEW mod, NEW tys, NEW inst, IsInstruction(mod, tys, inst), inst.op \in GivenFirst
    PROVE  StartsTyped(Operands(mod, tys, inst), inst.ty)
  <1>1. inst.op = "PHI" \/ inst.op = "ALLOCA" \/ inst.op = "LANDINGPAD"
    BY DEF GivenFirst
  <1>2. PICK args : args = Empty
    OBVIOUS
  <1>3. CASE inst.op = "PHI"
    BY <1>3, PhiPushes
  <1>4. CASE inst.op = "ALLOCA"
    BY <1>4, AllocaStarts
  <1>5. CASE inst.op = "LANDINGPAD"
    BY <1>5, LandingPushes
  <1> QED
    BY <1>1, <1>3, <1>4, <1>5

\* Of these the type is the last of the numbers, or the one before the last.
LEMMA LastIsTyped ==
    ASSUME NEW mod, NEW tys, NEW inst, IsInstruction(mod, tys, inst), inst.op \in GivenLast,
           NEW S, S = Operands(mod, tys, inst)
    PROVE  /\ Len(S) = 3 /\ S[3].push = "push_back"
           /\ inst.op = "CAST" => S[2] = N(inst.ty)
           /\ inst.op = "VAARG" => S[3] = N(inst.ty)
  <1>1. PICK ops, ty : ops = inst.ops /\ ty = inst.ty
    OBVIOUS
  <1>2. CASE inst.op = "CAST"
    <2>1. PICK a, b, c : a = VT(ops[1]) /\ b = N(ty) /\ c = N(GetEncodedCastOpcode[inst.lits[1]])
      OBVIOUS
    <2>2. S = <<a, b, c>>
      BY <1>1, <1>2, <2>1 DEF Operands
    <2>3. Len(S) = 3 /\ S[2] = b /\ S[3] = c
      BY <2>2, ThreeSeq
    <2>4. c.push = "push_back"
      BY <2>1 DEF N
    <2> QED
      BY <1>1, <1>2, <2>1, <2>3, <2>4
  <1>3. CASE inst.op = "VAARG"
    <2>1. PICK a, b, c : a = N(TypeOf(tys, ops[1])) /\ b = V(ops[1]) /\ c = N(ty)
      OBVIOUS
    <2>2. S = <<a, b, c>>
      BY <1>1, <1>3, <2>1 DEF Operands
    <2>3. Len(S) = 3 /\ S[3] = c
      BY <2>2, ThreeSeq
    <2>4. c.push = "push_back"
      BY <2>1 DEF N
    <2> QED
      BY <1>1, <1>3, <2>1, <2>3, <2>4
  <1> QED
    BY <1>2, <1>3 DEF GivenLast

\* The type the record gives.
LEMMA GivenTypeIs ==
    ASSUME NEW mod, NEW tys, NEW inst, IsInstruction(mod, tys, inst), inst.op \in GivenFirst \cup GivenLast,
           NEW id, NEW x, Writes(x, mod, tys, id, inst), NEW s
    PROVE  ResultType(s, x) = inst.ty
  <1>1. PICK op, ty, S, vals, args : /\ op = inst.op /\ ty = inst.ty /\ S = Operands(mod, tys, inst) /\ vals = x.vals
                                     /\ args = Empty
    OBVIOUS
  <1>2. inst.op \notin Calls /\ op \in Opcodes /\ x.code = FunctionCodes[op]
    <2>1. inst.op \notin Calls
      BY DEF Calls, GivenFirst, GivenLast
    <2>2. op \in Opcodes
      BY <1>1 DEF IsInstruction
    <2> QED
      BY <1>1, <2>1, <2>2 DEF Writes
  <1>3. Pushes(mod, tys, inst, args)
    BY <1>2, InstructionPushes
  <1>4. PICK K, n : K = KindsFor(op, args) /\ n = Len(tys)
    OBVIOUS
  <1>5. Fitting(K, 0, S, n)
    BY <1>1, <1>3, <1>4 DEF Pushes
  <1>6. IsSeq(S) /\ vals = FlattenSeq(PushedOf(tys, id, S))
    BY <1>1, <1>5 DEF Fitting, Writes
  <1>7. PICK P : EachLies(P, vals, tys, id, S)
    BY <1>5, <1>6, PushedLie
  <1>8. N(ty).push = "push_back" /\ N(ty).n = ty
    BY DEF N
  <1>9. CASE op \in GivenFirst
    <2>1. StartsTyped(S, ty)
      BY <1>1, <1>9, FirstStarts
    <2>2. PICK a : a = S[1]
      OBVIOUS
    <2>3. Len(S) \in Nat \ {0} /\ a.push = "push_back" /\ a.n = ty
      BY <1>8, <2>1, <2>2 DEF StartsTyped
    <2>4. vals[1] = a.n
      BY <1>7, <2>2, <2>3, FirstLies
    <2>5. ResultType(s, x) = x.vals[1]
      BY <1>2, <1>9, ResultTypeIs
    <2> QED
      BY <1>1, <2>3, <2>4, <2>5
  <1>10. CASE op \in GivenLast
    <2>1. /\ Len(S) = 3 /\ S[3].push = "push_back" /\ (op = "CAST" => S[2] = N(ty)) /\ (op = "VAARG" => S[3] = N(ty))
      BY <1>1, <1>10, LastIsTyped
    <2>2. PICK a, b : a = S[3] /\ b = S[2]
      OBVIOUS
    <2>3. a.push = "push_back" /\ (op = "CAST" => b.push = "push_back" /\ b.n = ty) /\ (op = "VAARG" => a.n = ty)
      BY <1>8, <2>1, <2>2
    <2>4. vals[Len(vals)] = a.n /\ (b.push = "push_back" => vals[Len(vals) - 1] = b.n) /\ Len(vals) \in Nat
      BY <1>7, <2>1, <2>2, <2>3, LastLies
    <2>5. ResultType(s, x) = vals[Len(vals) - (IF op = "CAST" THEN 1 ELSE 0)]
      BY <1>1, <1>2, <1>10, ResultTypeIs
    <2>6. op = "CAST" \/ op = "VAARG"
      BY <1>10 DEF GivenLast
    <2>7. CASE op = "CAST"
      BY <1>1, <2>3, <2>4, <2>5, <2>7
    <2>8. CASE op = "VAARG"
      <3>1. ResultType(s, x) = vals[Len(vals) - 0]
        BY <2>5, <2>8
      <3>2. Len(vals) - 0 = Len(vals)
        BY <2>4
      <3> QED
        BY <1>1, <2>3, <2>4, <2>8, <3>1, <3>2
    <2> QED
      BY <2>6, <2>7, <2>8
  <1> QED
    BY <1>1, <1>9, <1>10

\* The reader has a value for an instruction if and only if the writer counts one.
LEMMA ValueIs ==
    ASSUME NEW mod, mod.types \in Seq(TypeRecords), NEW tys, NEW inst, IsInstruction(mod, tys, inst),
           NEW s, NEW id, Numbering(s, tys, id), s.types = mod.types,
           inst.op \in Calls => KnowsCallee(s, tys, id, inst.ops[1]),
           NEW x, Writes(x, mod, tys, id, inst)
    PROVE  HasValue(s, ResultType(s, x)) <=> ~isVoid(mod, inst.ty)
  <1>1. PICK op, ty : op = inst.op /\ ty = inst.ty
    OBVIOUS
  <1>2. op \in Opcodes
    BY <1>1 DEF IsInstruction
  <1>3. ty \in Nat
    BY <1>1 DEF IsInstruction
  <1>4. op \in WithoutValue => isVoid(mod, ty)
    BY <1>1 DEF IsInstruction
  <1>5. op \notin WithoutValue \cup Calls => ~isVoid(mod, ty)
    BY <1>1 DEF IsInstruction
  <1>6. x.code = FunctionCodes[op]
    BY <1>1 DEF Writes
  <1>7. HasValue(s, ty) <=> ~isVoid(mod, ty)
    BY <1>3, TypedValue
  <1>8. CASE op \in Calls
    <2>1. Callee(s, x) = FunctionType(mod, tys, inst.ops[1])
      BY <1>1, <1>8, CalleeIs
    <2>2. ResultType(s, x) = ReturnType(Callee(s, x))
      BY <1>2, <1>6, <1>8, ResultTypeIs
    <2>3. ty = ReturnType(PointedTo(mod, TypeOf(tys, inst.ops[1])))
      BY <1>1, <1>8 DEF IsInstruction, IsCall
    <2>4. ResultType(s, x) = ty
      BY <2>1, <2>2, <2>3 DEF PointedTo, FunctionType
    <2> QED
      BY <1>1, <1>7, <2>4
  <1>9. CASE op \in GivenFirst \cup GivenLast
    <2>1. ResultType(s, x) = ty
      BY <1>1, <1>9, GivenTypeIs
    <2> QED
      BY <1>1, <1>7, <2>1
  <1>10. CASE op \in WithoutValue
    <2>1. ResultType(s, x) = NoType
      BY <1>2, <1>6, <1>10, ResultTypeIs
    <2> QED
      BY <1>1, <1>4, <1>10, <2>1 DEF HasValue
  <1>11. CASE op \notin Calls \cup GivenFirst \cup GivenLast \cup WithoutValue
    <2>1. ResultType(s, x) = -2
      BY <1>2, <1>6, <1>11, ResultTypeIs DEF Valued
    <2> QED
      BY <1>1, <1>5, <1>11, <2>1 DEF HasValue, NoType
  <1> QED
    BY <1>8, <1>9, <1>10, <1>11

------------------------------------------------------------------------------
(* The reader numbers values as the writer does.                            *)

\* The reader's values when instruction i of function f is next, which the writer numbers id.
InSync(tys, mod, f, id, i) ==
  /\ IsSeq(tys) /\ Len(tys) = id
  /\ \A k \in 1..Len(FirstValues(mod, f)) : tys[k] = FirstValues(mod, f)[k]
  /\ id = Len(FirstValues(mod, f)) + Len(ValueOrder(mod, f)[i - 1])
\* What is known of the values of a function that is defined.
Ordered(mod, f, P, n) ==
  /\ n = Len(mod.bodies[f].insts) /\ n \in Nat /\ P = ValueOrder(mod, f)
  /\ KeptUpTo(P, Tys(mod.bodies[f].insts), ValuedAt(mod, f), n)
  /\ KeptFrom(P, Tys(mod.bodies[f].insts), ValuedAt(mod, f), n)

LEMMA OrderedIs ==
    ASSUME NEW mod, NEW f, IsSeq(mod.bodies[f].insts), NEW P, P = ValueOrder(mod, f), NEW n, n = Len(mod.bodies[f].insts)
    PROVE  Ordered(mod, f, P, n)
  <1>1. n \in Nat
    BY SeqShape
  <1>2. InValueOrder(P, mod, f)
    BY ValueOrderIs
  <1>3. PICK seq, T : seq = Tys(mod.bodies[f].insts) /\ T = ValuedAt(mod, f)
    OBVIOUS
  <1>4. KeptUpTo(P, seq, T, n)
    BY <1>2, <1>3 DEF InValueOrder
  <1>5. KeptFrom(P, seq, T, n)
    BY <1>1, <1>4, KeptShape
  <1> QED
    BY <1>1, <1>3, <1>4, <1>5 DEF Ordered

\* All the values of a function are the first ones and those of its instructions.
JoinedWith(tys, mod, f, d) == tys = FirstValues(mod, f) \o d

LEMMA TypesAreJoined ==
    ASSUME NEW mod, NEW f, IsSeq(mod.bodies[f].insts), NEW P, P = ValueOrder(mod, f), NEW n, n = Len(mod.bodies[f].insts),
           NEW tys, tys = FunctionValueTypes(mod, f), NEW d, d = P[n]
    PROVE  JoinedWith(tys, mod, f, d)
  <1>1. PICK body, a, c : body = mod.bodies[f] /\ a = ModuleTypes(mod) /\ c = Tys(body.consts)
    OBVIOUS
  <1>2. InValueOrder(P, mod, f)
    BY ValueOrderIs
  <1>3. Kept(LAMBDA ty : ~isVoid(mod, ty), Tys(mod.bodies[f].insts)) = d
    BY <1>2 DEF InValueOrder
  <1>4. tys = ((a \o body.args) \o c) \o Kept(LAMBDA ty : ~isVoid(mod, ty), Tys(mod.bodies[f].insts))
    BY <1>1 DEF FunctionValueTypes, Tys, TyOf
  <1>5. FirstValues(mod, f) = (a \o body.args) \o c
    BY <1>1 DEF FirstValues
  <1> QED
    BY <1>3, <1>4, <1>5 DEF JoinedWith

LEMMA SyncNumbers ==
    ASSUME NEW mod, IsModule(mod), NEW f \in 1..Len(mod.functions), mod.functions[f].isproto = 0,
           NEW i \in 1..(Len(mod.bodies[f].insts) + 1), NEW r, NEW id, InSync(r.tys, mod, f, id, i)
    PROVE  Numbering(r, FunctionValueTypes(mod, f), id)
  <1>1. PICK P, n, a, tys : P = ValueOrder(mod, f) /\ n = Len(mod.bodies[f].insts) /\ a = FirstValues(mod, f)
                            /\ tys = FunctionValueTypes(mod, f)
    OBVIOUS
  <1>2. /\ IsSeq(a) /\ IsSeq(P[n]) /\ tys = a \o P[n] /\ IsBody(mod, f)
    <2>1. IsSeq(FirstValues(mod, f)) /\ IsSeq(P[n]) /\ IsBody(mod, f)
      BY <1>1, FunctionTypesAre
    <2>2. tys = FirstValues(mod, f) \o P[n]
      <3>1. PICK d : d = P[n]
        OBVIOUS
      <3>2. IsSeq(mod.bodies[f].insts)
        BY <2>1 DEF IsBody
      <3>3. JoinedWith(tys, mod, f, d)
        BY <1>1, <3>1, <3>2, TypesAreJoined
      <3> QED
        BY <3>1, <3>3 DEF JoinedWith
    <2> QED
      BY <1>1, <2>1, <2>2
  <1>3. IsSeq(mod.bodies[f].insts) /\ Len(tys) < 2 ^ Width
    BY <1>1, <1>2 DEF IsBody
  <1>4. Ordered(mod, f, P, n)
    BY <1>1, <1>3, OrderedIs
  <1>5. n \in Nat /\ i - 1 \in 0..n /\ n \in 0..n
    BY <1>1, <1>4 DEF Ordered
  <1>6. Len(P[i - 1]) <= Len(P[n]) /\ IsSeq(P[i - 1])
    <2>1. \A j \in 0..n : Len(P[j]) <= Len(P[n])
      BY <1>4, <1>5 DEF Ordered, KeptFrom
    <2>2. \A j \in 0..n : IsSeq(P[j])
      BY <1>4 DEF Ordered, KeptUpTo
    <2> QED
      BY <1>5, <2>1, <2>2
  <1>7. Len(tys) = Len(a) + Len(P[n])
    BY <1>2, JoinShape
  <1>8. id = Len(a) + Len(P[i - 1]) /\ Len(r.tys) = id
    BY <1>1 DEF InSync
  <1>9. Len(a) \in Nat /\ Len(P[n]) \in Nat /\ Len(P[i - 1]) \in Nat
    BY <1>2, <1>6, SeqShape
  <1> QED
    BY <1>1, <1>3, <1>6, <1>7, <1>8, <1>9 DEF Numbering

LEMMA KeptAreCounted ==
    ASSUME NEW n \in Nat, NEW seq, NEW T, NEW P, KeptUpTo(P, seq, T, n), NEW m \in 0..n
    PROVE  Cardinality({j \in 1..m : j \in T}) = Len(P[m])
  <1> DEFINE S(k) == {j \in 1..k : j \in T}
             A(k) == k <= n => IsFiniteSet(S(k)) /\ Cardinality(S(k)) = Len(P[k])
  <1>1. A(0)
    <2>1. S(0) = {}
      OBVIOUS
    <2>2. P[0] = Empty
      BY DEF KeptUpTo
    <2>3. Len(P[0]) = 0
      BY <2>2, NoneSeq
    <2> QED
      BY <2>1, <2>3, FS_EmptySet
  <1>2. ASSUME NEW k \in Nat, A(k) PROVE A(k + 1)
    <2>1. SUFFICES ASSUME k + 1 <= n PROVE IsFiniteSet(S(k + 1)) /\ Cardinality(S(k + 1)) = Len(P[k + 1])
      OBVIOUS
    <2>2. PICK h : h = k + 1
      OBVIOUS
    <2>3. h \in 1..n /\ h - 1 = k /\ k \in 0..n /\ k <= n
      BY <2>1, <2>2
    <2>4. PICK c : c = S(k)
      OBVIOUS
    <2>5. IsFiniteSet(c) /\ Cardinality(c) = Len(P[k]) /\ h \notin c
      BY <1>2, <2>2, <2>3, <2>4
    <2>6. IsSeq(P[k])
      BY <2>3 DEF KeptUpTo
    <2>7. CASE h \in T
      <3>1. S(h) = c \cup {h}
        BY <2>2, <2>3, <2>4, <2>7
      <3>2. IsFiniteSet(c \cup {h}) /\ Cardinality(c \cup {h}) = Cardinality(c) + 1
        BY <2>5, FS_AddElement
      <3>3. P[h] = Append(P[k], seq[h])
        BY <2>3, <2>7 DEF KeptUpTo
      <3>4. Len(P[h]) = Len(P[k]) + 1
        BY <2>6, <3>3, AppendShape
      <3> QED
        BY <2>2, <2>5, <3>1, <3>2, <3>4
    <2>8. CASE h \notin T
      <3>1. S(h) = c
        BY <2>2, <2>3, <2>4, <2>8
      <3>2. P[h] = P[k]
        BY <2>3, <2>8 DEF KeptUpTo
      <3> QED
        BY <2>2, <2>5, <3>1, <3>2
    <2> QED
      BY <2>7, <2>8
  <1> HIDE DEF A
  <1>3. \A k \in Nat : A(k)
    <2> DEFINE U == {k \in Nat : A(k)}
    <2>1. 0 \in U /\ \A k \in Nat : k \in U => k + 1 \in U
      BY <1>1, <1>2
    <2> HIDE DEF U
    <2>2. Nat \subseteq U
      BY <2>1, NatSetInduction
    <2> QED
      BY <2>2 DEF U
  <1>4. A(m) /\ m <= n
    BY <1>3
  <1> QED
    BY <1>4 DEF A

\* What is called is known if it comes before: it is none of the values of the body.
LEMMA SyncCallee ==
    ASSUME NEW mod, IsModule(mod), NEW f \in 1..Len(mod.functions), mod.functions[f].isproto = 0,
           NEW i \in 1..Len(mod.bodies[f].insts), NEW r, NEW id, InSync(r.tys, mod, f, id, i),
           NEW inst, inst = mod.bodies[f].insts[i], inst.op \in Calls
    PROVE  KnowsCallee(r, FunctionValueTypes(mod, f), id, inst.ops[1])
  <1>1. PICK P, n, a, tys, v, insts :
          /\ P = ValueOrder(mod, f) /\ n = Len(mod.bodies[f].insts) /\ a = FirstValues(mod, f)
          /\ tys = FunctionValueTypes(mod, f) /\ v = inst.ops[1] /\ insts = mod.bodies[f].insts
    OBVIOUS
  <1>2. /\ IsSeq(a) /\ IsSeq(P[n]) /\ tys = a \o P[n] /\ IsBody(mod, f)
        /\ Len(a) = Len(ModuleTypes(mod)) + Len(mod.bodies[f].args) + Len(mod.bodies[f].consts)
    <2>1. IsSeq(FirstValues(mod, f)) /\ IsSeq(P[n]) /\ IsBody(mod, f)
      BY <1>1, FunctionTypesAre
    <2>2. tys = FirstValues(mod, f) \o P[n]
      <3>1. PICK d : d = P[n]
        OBVIOUS
      <3>2. IsSeq(mod.bodies[f].insts)
        BY <2>1 DEF IsBody
      <3>3. JoinedWith(tys, mod, f, d)
        BY <1>1, <3>1, <3>2, TypesAreJoined
      <3> QED
        BY <3>1, <3>3 DEF JoinedWith
    <2>3. Len(FirstValues(mod, f)) = Len(ModuleTypes(mod)) + Len(mod.bodies[f].args) + Len(mod.bodies[f].consts)
      BY <1>1, FunctionTypesAre
    <2> QED
      BY <1>1, <2>1, <2>2, <2>3
  <1>3. IsSeq(insts)
    BY <1>1, <1>2 DEF IsBody
  <1>4. Ordered(mod, f, P, n) /\ DOMAIN insts = 1..n
    BY <1>1, <1>3, OrderedIs, SeqShape
  <1>5. IsDirect(mod, f, i)
    BY <1>1, <1>2, <1>4 DEF IsBody
  <1>6. IsInstruction(mod, tys, inst)
    BY <1>1, <1>2, <1>4 DEF IsBody
  <1>7. v \in Nat
    <2>1. IsCall(mod, tys, inst)
      BY <1>6 DEF IsInstruction
    <2>2. v \in 0..(Len(tys) - 1)
      BY <1>1, <2>1 DEF IsCall
    <2> QED
      BY <2>2
  <1>8. n \in Nat /\ i - 1 \in 0..n
    BY <1>1, <1>4 DEF Ordered
  <1>9. PICK T, seq : T = ValuedAt(mod, f) /\ seq = Tys(insts)
    OBVIOUS
  <1>10. KeptUpTo(P, seq, T, n)
    BY <1>1, <1>4, <1>9 DEF Ordered
  <1>11. Cardinality({j \in 1..(i - 1) : j \in T}) = Len(P[i - 1])
    <2>1. PICK m : m = i - 1
      OBVIOUS
    <2>2. m \in 0..n
      BY <1>8, <2>1
    <2>3. n \in Nat
      BY <1>8
    <2>4. KeptUpTo(P, seq, T, n)
      BY <1>10
    <2>5. Cardinality({j \in 1..m : j \in T}) = Len(P[m])
      BY <2>2, <2>3, <2>4, KeptAreCounted
    <2> QED
      BY <2>1, <2>5
  <1>12. {j \in 1..(i - 1) : ~isVoid(mod, insts[j].ty)} = {j \in 1..(i - 1) : j \in T}
    BY <1>1, <1>8, <1>9 DEF ValuedAt
  <1>13. v < Len(a) \/ v >= Len(a) + Len(P[i - 1])
    BY <1>1, <1>2, <1>5, <1>11, <1>12 DEF IsDirect
  <1>14. id = Len(a) + Len(P[i - 1]) /\ \A k \in 1..Len(a) : r.tys[k] = a[k]
    BY <1>1 DEF InSync
  <1>15. Len(a) \in Nat
    BY <1>2, SeqShape
  <1>16. Len(P[i - 1]) \in Nat
    BY <1>8, <1>10, SeqShape DEF KeptUpTo
  <1>17. SUFFICES ASSUME v < id PROVE TypeOf(r.tys, v) = TypeOf(tys, v)
    BY <1>1 DEF KnowsCallee
  <1>18. v + 1 \in 1..Len(a)
    BY <1>7, <1>13, <1>14, <1>15, <1>16, <1>17
  <1>19. tys[v + 1] = a[v + 1]
    BY <1>2, <1>18, JoinShape
  <1> QED
    BY <1>14, <1>18, <1>19 DEF TypeOf

LEMMA SyncStarts ==
    ASSUME NEW mod, IsModule(mod), NEW f \in 1..Len(mod.functions), mod.functions[f].isproto = 0,
           NEW tys, tys = FirstValues(mod, f), NEW id,
           id = Len(ModuleTypes(mod)) + Len(mod.bodies[f].args) + Len(mod.bodies[f].consts)
    PROVE  InSync(tys, mod, f, id, 1)
  <1>1. PICK P, n : P = ValueOrder(mod, f) /\ n = Len(mod.bodies[f].insts)
    OBVIOUS
  <1>2. IsSeq(tys) /\ Len(tys) = id /\ IsBody(mod, f)
    BY <1>1, FunctionTypesAre
  <1>3. IsSeq(mod.bodies[f].insts)
    BY <1>2 DEF IsBody
  <1>4. Ordered(mod, f, P, n)
    BY <1>1, <1>3, OrderedIs
  <1>5. P[0] = Empty
    BY <1>4 DEF Ordered, KeptUpTo
  <1>6. Len(P[1 - 1]) = 0
    BY <1>5, NoneSeq
  <1>7. Len(tys) \in Nat
    BY <1>2, SeqShape
  <1> QED
    BY <1>1, <1>2, <1>6, <1>7 DEF InSync

LEMMA SyncStays ==
    ASSUME NEW mod, IsModule(mod), NEW f \in 1..Len(mod.functions), mod.functions[f].isproto = 0,
           NEW i \in 1..Len(mod.bodies[f].insts), NEW tys, NEW id, InSync(tys, mod, f, id, i),
           NEW ty, NEW valued, valued <=> ~isVoid(mod, mod.bodies[f].insts[i].ty),
           NEW next, next = (IF valued THEN Append(tys, ty) ELSE tys),
           NEW nextId, nextId = (IF valued THEN id + 1 ELSE id)
    PROVE  InSync(next, mod, f, nextId, i + 1)
  <1>1. PICK P, n, a, insts : /\ P = ValueOrder(mod, f) /\ n = Len(mod.bodies[f].insts) /\ a = FirstValues(mod, f)
                              /\ insts = mod.bodies[f].insts
    OBVIOUS
  <1>2. IsSeq(a) /\ IsBody(mod, f)
    BY <1>1, FunctionTypesAre
  <1>3. IsSeq(insts)
    BY <1>1, <1>2 DEF IsBody
  <1>4. Ordered(mod, f, P, n)
    BY <1>1, <1>3, OrderedIs
  <1>5. n \in Nat /\ i \in 1..n /\ i - 1 \in 0..n
    BY <1>1, <1>4 DEF Ordered
  <1>6. PICK T, seq : T = ValuedAt(mod, f) /\ seq = Tys(insts)
    OBVIOUS
  <1>7. KeptUpTo(P, seq, T, n)
    BY <1>1, <1>4, <1>6 DEF Ordered
  <1>8. i \in T <=> valued
    BY <1>1, <1>5, <1>6 DEF ValuedAt
  <1>9. IsSeq(tys) /\ Len(tys) = id /\ (\A k \in 1..Len(a) : tys[k] = a[k]) /\ id = Len(a) + Len(P[i - 1])
    BY <1>1 DEF InSync
  <1>10. IsSeq(P[i - 1]) /\ Len(a) \in Nat
    BY <1>2, <1>5, <1>7, SeqShape DEF KeptUpTo
  <1>11. Len(P[i - 1]) \in Nat
    BY <1>10, SeqShape
  <1>12. CASE valued
    <2>1. P[i] = Append(P[i - 1], seq[i])
      BY <1>5, <1>7, <1>8, <1>12 DEF KeptUpTo
    <2>2. Len(P[i]) = Len(P[i - 1]) + 1
      BY <1>10, <2>1, AppendShape
    <2>3. next = Append(tys, ty) /\ nextId = id + 1
      BY <1>12
    <2>4. IsSeq(next)
      BY <1>9, <2>3, AppendShape
    <2>5. Len(next) = id + 1
      BY <1>9, <2>3, AppendShape
    <2>6. \A k \in 1..Len(tys) : next[k] = tys[k]
      BY <1>9, <2>3, AppendShape
    <2>7. \A k \in 1..Len(a) : next[k] = a[k]
      <3> TAKE k \in 1..Len(a)
      <3>1. k \in 1..Len(tys)
        BY <1>9, <1>10, <1>11
      <3> QED
        BY <1>9, <2>6, <3>1
    <2>8. nextId = Len(a) + Len(P[i])
      BY <1>9, <1>10, <1>11, <2>2, <2>3
    <2>9. (i + 1) - 1 = i
      BY <1>5
    <2> QED
      BY <1>1, <2>3, <2>4, <2>5, <2>7, <2>8, <2>9 DEF InSync
  <1>13. CASE ~valued
    <2>1. P[i] = P[i - 1]
      BY <1>5, <1>7, <1>8, <1>13 DEF KeptUpTo
    <2>2. (i + 1) - 1 = i
      BY <1>5
    <2> QED
      BY <1>1, <1>9, <1>13, <2>1, <2>2 DEF InSync
  <1> QED
    BY <1>12, <1>13

\* A reader in the body, as any that is like it, has what the next instruction needs.
ReadsNext(s, mod, f, id, inst, x) ==
  /\ Gets(ReadOperands(s, x, ArgumentKinds(s, x)), Operands(mod, FunctionValueTypes(mod, f), inst), FunctionValueTypes(mod, f))
  /\ HasValue(s, ResultType(s, x)) <=> ~isVoid(mod, inst.ty)

LEMMA NextIsReadRight ==
    ASSUME NEW mod, IsModule(mod), NEW f \in 1..Len(mod.functions), mod.functions[f].isproto = 0,
           NEW i \in 1..Len(mod.bodies[f].insts), NEW s, s.types = mod.types, NEW id, InSync(s.tys, mod, f, id, i),
           NEW inst, inst = mod.bodies[f].insts[i], NEW x, Writes(x, mod, FunctionValueTypes(mod, f), id, inst)
    PROVE  ReadsNext(s, mod, f, id, inst, x)
  <1>1. PICK tys, insts : tys = FunctionValueTypes(mod, f) /\ insts = mod.bodies[f].insts
    OBVIOUS
  <1>2. IsBody(mod, f)
    <2>1. PICK P, n : P = ValueOrder(mod, f) /\ n = Len(mod.bodies[f].insts)
      OBVIOUS
    <2> QED
      BY <2>1, FunctionTypesAre
  <1>3. IsSeq(insts) /\ \A k \in DOMAIN insts : IsInstruction(mod, tys, insts[k])
    BY <1>1, <1>2 DEF IsBody
  <1>4. Len(insts) \in Nat /\ DOMAIN insts = 1..Len(insts)
    BY <1>3, SeqShape
  <1>5. IsInstruction(mod, tys, inst)
    BY <1>1, <1>3, <1>4
  <1>6. i \in 1..(Len(mod.bodies[f].insts) + 1)
    BY <1>1, <1>4
  <1>7. Numbering(s, tys, id)
    BY <1>1, <1>6, SyncNumbers
  <1>8. inst.op \in Calls => KnowsCallee(s, tys, id, inst.ops[1])
    BY <1>1, SyncCallee
  <1>9. mod.types \in Seq(TypeRecords) /\ Writes(x, mod, tys, id, inst)
    BY <1>1 DEF IsModule
  <1>10. Gets(ReadOperands(s, x, ArgumentKinds(s, x)), Operands(mod, tys, inst), tys)
    BY <1>5, <1>7, <1>8, <1>9, InstructionIsRead
  <1>11. HasValue(s, ResultType(s, x)) <=> ~isVoid(mod, inst.ty)
    BY <1>5, <1>7, <1>8, <1>9, ValueIs
  <1> QED
    BY <1>1, <1>10, <1>11 DEF ReadsNext

LEMMA BodyReadsRight ==
    ASSUME NEW mod, IsModule(mod), NEW f \in 1..Len(mod.functions), mod.functions[f].isproto = 0,
           NEW i \in 1..Len(mod.bodies[f].insts), NEW r, NEW last, BodyAt(r, mod, f, i, last),
           NEW id, InSync(r.tys, mod, f, id, i), NEW inst, inst = mod.bodies[f].insts[i],
           NEW x, Writes(x, mod, FunctionValueTypes(mod, f), id, inst)
    PROVE  /\ ReadsRight(Place(mod, f), r, x, inst)
           /\ \A s : Like(s, r) => ReadsNext(s, mod, f, id, inst, x)
  <1>1. r.types = mod.types
    <2>1. PICK past, t : InBody(r, mod, past, t)
      BY DEF BodyAt
    <2> QED
      BY <2>1, InBodyIs
  <1>2. ASSUME NEW s, Like(s, r) PROVE ReadsNext(s, mod, f, id, inst, x)
    <2>1. s.types = mod.types /\ s.tys = r.tys
      BY <1>1, <1>2, LikeFields
    <2>2. InSync(s.tys, mod, f, id, i)
      BY <2>1
    <2> QED
      BY <2>1, <2>2, NextIsReadRight
  <1>3. ASSUME NEW s, NEW e, Like(s, r), GotBy(s, x, e) PROVE Right(Place(mod, f), e, inst)
    <2>1. PICK got, S, tys : /\ got = ReadOperands(s, x, ArgumentKinds(s, x)) /\ tys = FunctionValueTypes(mod, f)
                             /\ S = Operands(mod, tys, inst)
      OBVIOUS
    <2>2. Gets(got, S, tys)
      BY <1>2, <1>3, <2>1 DEF ReadsNext
    <2>3. e.values = got.values /\ e.told = got.told
      BY <1>3, <2>1 DEF GotBy
    <2>4. PICK pl : pl = Place(mod, f)
      OBVIOUS
    <2>5. pl.mod = mod /\ pl.f = f
      BY <2>4 DEF Place
    <2> QED
      BY <2>1, <2>2, <2>3, <2>4, <2>5 DEF Right, Gets
  <1> QED
    BY <1>2, <1>3 DEF ReadsRight

------------------------------------------------------------------------------
(* What an instruction says besides its operands is read from its values.  *)

\* The values v of what is pushed.
ValuesAre(v, S) == IsSeq(v) /\ Len(v) = Len(S) /\ \A k \in 1..Len(S) : v[k] = S[k].n

LEMMA MappedValues ==
    ASSUME NEW S, IsSeq(S), NEW v, v = [k \in DOMAIN S |-> S[k].n]
    PROVE  ValuesAre(v, S)
  <1>1. DOMAIN v = DOMAIN S /\ v = [k \in DOMAIN v |-> v[k]]
    OBVIOUS
  <1>2. IsSeq(v) /\ Len(v) = Len(S) /\ DOMAIN S = 1..Len(S)
    BY <1>1, MapShape
  <1> QED
    BY <1>2 DEF ValuesAre

ValuesOfBoth(v, S, t) ==
  /\ IsSeq(v) /\ Len(v) = Len(S) + Len(t)
  /\ \A k \in 1..Len(S) : v[k] = S[k].n
  /\ \A k \in 1..Len(t) : v[Len(S) + k] = t[k].n

LEMMA JoinedValues ==
    ASSUME NEW S, NEW t, IsSeq(S), IsSeq(t), NEW v, ValuesAre(v, S \o t)
    PROVE  ValuesOfBoth(v, S, t)
  <1>1. Len(S \o t) = Len(S) + Len(t)
    BY JoinShape
  <1>2. \A k \in 1..Len(S) : (S \o t)[k] = S[k]
    BY JoinShape
  <1>3. \A k \in 1..Len(t) : (S \o t)[Len(S) + k] = t[k]
    BY JoinShape
  <1>4. Len(S) \in Nat /\ Len(t) \in Nat
    BY SeqShape
  <1>5. IsSeq(v) /\ Len(v) = Len(S) + Len(t)
    BY <1>1 DEF ValuesAre
  <1>6. \A k \in 1..(Len(S) + Len(t)) : v[k] = (S \o t)[k].n
    BY <1>1 DEF ValuesAre
  <1>7. ASSUME NEW k \in 1..Len(S) PROVE v[k] = S[k].n
    <2>1. k \in 1..(Len(S) + Len(t))
      BY <1>4
    <2> QED
      BY <1>2, <1>6, <2>1
  <1>8. ASSUME NEW k \in 1..Len(t) PROVE v[Len(S) + k] = t[k].n
    <2>1. Len(S) + k \in 1..(Len(S) + Len(t))
      BY <1>4
    <2> QED
      BY <1>3, <1>6, <2>1
  <1> QED
    BY <1>5, <1>7, <1>8 DEF ValuesOfBoth

LEMMA AlignValues ==
    ASSUME NEW lits, IsSeq(lits), Len(lits) = 2, NEW A, A = AlignFirst(lits)
    PROVE  IsSeq(A) /\ Len(A) = 2 /\ A[1].n = Log2_32(lits[1]) + 1 /\ A[2].n = lits[2]
  <1>1. PICK t : t = Tail(lits)
    OBVIOUS
  <1>2. IsSeq(t) /\ Len(t) = 1 /\ t[1] = lits[2]
    <2>0. Len(lits) >= 1
      OBVIOUS
    <2>1. IsSeq(t) /\ Len(t) = Len(lits) - 1 /\ \A k \in 1..Len(t) : t[k] = lits[k + 1]
      BY <1>1, <2>0, TailIs
    <2> QED
      BY <2>1
  <1>3. PICK s : s = [k \in DOMAIN t |-> N(t[k])]
    OBVIOUS
  <1>4. IsSeq(s) /\ Len(s) = 1 /\ s[1] = N(lits[2])
    <2>1. DOMAIN s = DOMAIN t /\ s = [k \in DOMAIN s |-> s[k]]
      BY <1>3
    <2>2. IsSeq(s) /\ Len(s) = Len(t) /\ DOMAIN t = 1..Len(t)
      BY <1>2, <2>1, MapShape
    <2> QED
      BY <1>2, <1>3, <2>2
  <1>5. PICK a : a = N(Log2_32(lits[1]) + 1)
    OBVIOUS
  <1>6. A = <<a>> \o s
    BY <1>1, <1>3, <1>5 DEF AlignFirst, Map
  <1>7. IsSeq(<<a>>) /\ Len(<<a>>) = 1 /\ <<a>>[1] = a
    BY OneSeq
  <1>8. IsSeq(A) /\ Len(A) = 2
    BY <1>4, <1>6, <1>7, JoinShape
  <1>9. A[1] = a
    BY <1>4, <1>6, <1>7, JoinShape
  <1>10. A[2] = s[1]
    <2>1. \A k \in 1..Len(s) : A[Len(<<a>>) + k] = s[k]
      BY <1>4, <1>6, <1>7, JoinShape
    <2> QED
      BY <1>4, <1>7, <2>1
  <1> QED
    BY <1>4, <1>5, <1>8, <1>9, <1>10 DEF N

LEMMA AtomicValues ==
    ASSUME NEW order, NEW scope, NEW A, A = Atomic(order, scope)
    PROVE  /\ IsSeq(A) /\ Len(A) = 2
           /\ A[1].n = GetEncodedOrdering[order] /\ A[2].n = GetEncodedSynchScope[scope]
  <1>1. PICK a, b : a = N(GetEncodedOrdering[order]) /\ b = N(GetEncodedSynchScope[scope])
    OBVIOUS
  <1>2. A = <<a, b>>
    BY <1>1 DEF Atomic
  <1>3. IsSeq(A) /\ Len(A) = 2 /\ A[1] = a /\ A[2] = b
    BY <1>2, PairSeq
  <1> QED
    BY <1>1, <1>3 DEF N

LEMMA OrderingReads ==
    ASSUME NEW c \in DOMAIN GetEncodedOrdering
    PROVE  Meaning(Orderings, GetEncodedOrdering[c]) = c
  <1>1. DOMAIN GetEncodedOrdering = {"NotAtomic", "Unordered", "Monotonic", "Acquire", "Release", "AcquireRelease", "SequentiallyConsistent"}
    BY DEF GetEncodedOrdering
  <1>2. /\ GetEncodedOrdering["NotAtomic"] = 0 /\ GetEncodedOrdering["Unordered"] = 1
        /\ GetEncodedOrdering["Monotonic"] = 2 /\ GetEncodedOrdering["Acquire"] = 3
        /\ GetEncodedOrdering["Release"] = 4 /\ GetEncodedOrdering["AcquireRelease"] = 5
        /\ GetEncodedOrdering["SequentiallyConsistent"] = 6
    BY DEF GetEncodedOrdering, AtomicOrderingCodes
  <1>3. /\ Len(Orderings) = 7 /\ Orderings[1] = "NotAtomic" /\ Orderings[2] = "Unordered"
        /\ Orderings[3] = "Monotonic" /\ Orderings[4] = "Acquire" /\ Orderings[5] = "Release"
        /\ Orderings[6] = "AcquireRelease" /\ Orderings[7] = "SequentiallyConsistent"
    BY DEF Orderings
  <1>4. \A n \in 0..6 : Meaning(Orderings, n) = Orderings[n + 1]
    BY <1>3 DEF Meaning, At
  <1> QED
    BY <1>1, <1>2, <1>3, <1>4

LEMMA ScopeReads ==
    ASSUME NEW c \in DOMAIN GetEncodedSynchScope
    PROVE  Meaning(Scopes, GetEncodedSynchScope[c]) = c
  <1>1. DOMAIN GetEncodedSynchScope = {"SingleThread", "CrossThread"}
    BY DEF GetEncodedSynchScope
  <1>2. /\ GetEncodedSynchScope["SingleThread"] = 0 /\ GetEncodedSynchScope["CrossThread"] = 1
    BY DEF GetEncodedSynchScope, AtomicSynchScopeCodes
  <1>3. /\ Len(Scopes) = 2 /\ Scopes[1] = "SingleThread" /\ Scopes[2] = "CrossThread"
    BY DEF Scopes
  <1>4. \A n \in 0..1 : Meaning(Scopes, n) = Scopes[n + 1]
    BY <1>3 DEF Meaning, At
  <1> QED
    BY <1>1, <1>2, <1>3, <1>4

LEMMA RMWReads ==
    ASSUME NEW c \in DOMAIN GetEncodedRMWOperation
    PROVE  Meaning(RMWs, GetEncodedRMWOperation[c]) = c
  <1>1. DOMAIN GetEncodedRMWOperation = {"Xchg", "Add", "Sub", "And", "Nand", "Or", "Xor", "Max", "Min", "UMax", "UMin"}
    BY DEF GetEncodedRMWOperation
  <1>2. /\ GetEncodedRMWOperation["Xchg"] = 0 /\ GetEncodedRMWOperation["Add"] = 1
        /\ GetEncodedRMWOperation["Sub"] = 2 /\ GetEncodedRMWOperation["And"] = 3
        /\ GetEncodedRMWOperation["Nand"] = 4 /\ GetEncodedRMWOperation["Or"] = 5
        /\ GetEncodedRMWOperation["Xor"] = 6 /\ GetEncodedRMWOperation["Max"] = 7
        /\ GetEncodedRMWOperation["Min"] = 8 /\ GetEncodedRMWOperation["UMax"] = 9
        /\ GetEncodedRMWOperation["UMin"] = 10
    BY DEF GetEncodedRMWOperation, RMWOperations
  <1>3. /\ Len(RMWs) = 11 /\ RMWs[1] = "Xchg" /\ RMWs[2] = "Add" /\ RMWs[3] = "Sub"
        /\ RMWs[4] = "And" /\ RMWs[5] = "Nand" /\ RMWs[6] = "Or" /\ RMWs[7] = "Xor"
        /\ RMWs[8] = "Max" /\ RMWs[9] = "Min" /\ RMWs[10] = "UMax" /\ RMWs[11] = "UMin"
    BY DEF RMWs
  <1>4. \A n \in 0..10 : Meaning(RMWs, n) = RMWs[n + 1]
    BY <1>3 DEF Meaning, At
  <1> QED
    BY <1>1, <1>2, <1>3, <1>4

\* The operands of the instruction, and what is said by values that are theirs.
Says(mod, tys, inst, v) == ValuesAre(v, Operands(mod, tys, inst)) => Said(mod, tys, inst.op, v) = Remains(inst)

\* A sequence of a length that is small, in full.
LEMMA ListOfOne ==
    ASSUME NEW s, IsSeq(s), Len(s) = 1
    PROVE  s = <<s[1]>>
  <1>1. PICK a : a = s[1]
    OBVIOUS
  <1>2. IsSeq(<<a>>) /\ Len(<<a>>) = 1 /\ <<a>>[1] = a
    BY OneSeq
  <1>3. PICK t : t = <<a>>
    OBVIOUS
  <1>4. \A k \in 1..Len(t) : t[k] = s[k]
    BY <1>1, <1>2, <1>3
  <1>5. t = s
    BY <1>2, <1>3, <1>4, SameSeq
  <1> QED
    BY <1>1, <1>3, <1>5

LEMMA ListOfTwo ==
    ASSUME NEW s, IsSeq(s), Len(s) = 2, NEW a, NEW b, a = s[1], b = s[2]
    PROVE  <<a, b>> = s
  <1>1. PICK t : t = <<a, b>>
    OBVIOUS
  <1>2. IsSeq(t) /\ Len(t) = 2 /\ t[1] = a /\ t[2] = b
    BY <1>1, PairSeq
  <1>3. \A k \in 1..Len(t) : t[k] = s[k]
    BY <1>2
  <1>4. t = s
    BY <1>2, <1>3, SameSeq
  <1> QED
    BY <1>1, <1>4

\* Two of them, one after the other.
LEMMA ListOfFour ==
    ASSUME NEW s, IsSeq(s), Len(s) = 4, NEW a, NEW b, NEW c, NEW d, a = s[1], b = s[2], c = s[3], d = s[4]
    PROVE  <<a, b>> \o <<c, d>> = s
  <1>1. PICK t, u : t = <<a, b>> /\ u = <<c, d>>
    OBVIOUS
  <1>2. IsSeq(t) /\ Len(t) = 2 /\ t[1] = a /\ t[2] = b
    BY <1>1, PairSeq
  <1>3. IsSeq(u) /\ Len(u) = 2 /\ u[1] = c /\ u[2] = d
    BY <1>1, PairSeq
  <1>4. PICK j : j = t \o u
    OBVIOUS
  <1>5. Joins(j, t, u)
    BY <1>2, <1>3, <1>4, JoinIs
  <1>6. IsSeq(j) /\ Len(j) = 4 /\ \A k \in 1..Len(t) : j[k] = t[k]
    BY <1>2, <1>3, <1>5 DEF Joins
  <1>7. \A k \in 1..Len(u) : j[Len(t) + k] = u[k]
    BY <1>5 DEF Joins
  <1>8. j[1] = a /\ j[2] = b
    BY <1>2, <1>6
  <1>9. j[3] = c /\ j[4] = d
    <2>1. j[2 + 1] = u[1] /\ j[2 + 2] = u[2]
      BY <1>2, <1>3, <1>7
    <2> QED
      BY <1>3, <2>1
  <1>10. \A k \in 1..Len(j) : j[k] = s[k]
    BY <1>6, <1>8, <1>9
  <1>11. j = s
    BY <1>6, <1>10, SameSeq
  <1> QED
    BY <1>1, <1>4, <1>11

\* One and then two.
LEMMA ListOfThree ==
    ASSUME NEW s, IsSeq(s), Len(s) = 3, NEW a, NEW b, NEW c, a = s[1], b = s[2], c = s[3]
    PROVE  <<a>> \o <<b, c>> = s
  <1>1. PICK t, u : t = <<a>> /\ u = <<b, c>>
    OBVIOUS
  <1>2. IsSeq(t) /\ Len(t) = 1 /\ t[1] = a
    BY <1>1, OneSeq
  <1>3. IsSeq(u) /\ Len(u) = 2 /\ u[1] = b /\ u[2] = c
    BY <1>1, PairSeq
  <1>4. PICK j : j = t \o u
    OBVIOUS
  <1>5. Joins(j, t, u)
    BY <1>2, <1>3, <1>4, JoinIs
  <1>6. IsSeq(j) /\ Len(j) = 3 /\ \A k \in 1..Len(t) : j[k] = t[k]
    BY <1>2, <1>3, <1>5 DEF Joins
  <1>7. \A k \in 1..Len(u) : j[Len(t) + k] = u[k]
    BY <1>5 DEF Joins
  <1>8. j[1] = a
    BY <1>2, <1>6
  <1>9. j[2] = b /\ j[3] = c
    <2>1. j[1 + 1] = u[1] /\ j[1 + 2] = u[2]
      BY <1>2, <1>3, <1>7
    <2> QED
      BY <1>3, <2>1
  <1>10. \A k \in 1..Len(j) : j[k] = s[k]
    BY <1>6, <1>8, <1>9
  <1>11. j = s
    BY <1>6, <1>10, SameSeq
  <1> QED
    BY <1>1, <1>4, <1>11

LEMMA SaidByCast ==
    ASSUME NEW mod, NEW tys, NEW inst, IsInstruction(mod, tys, inst), inst.op = "CAST", NEW v
    PROVE  Says(mod, tys, inst, v)
  <1>1. PICK l : l = inst.lits
    OBVIOUS
  <1>2. IsSeq(l)
    BY <1>1, OpsAre
  <1>3. Len(l) = 1 /\ l[1] \in DOMAIN GetEncodedCastOpcode
    BY <1>1 DEF IsInstruction
  <1>4. PICK a, b, c, S : a = VT(inst.ops[1]) /\ b = N(inst.ty) /\ c = N(GetEncodedCastOpcode[l[1]]) /\ S = <<a, b, c>>
    OBVIOUS
  <1>5. Operands(mod, tys, inst) = S
    BY <1>1, <1>4 DEF Operands
  <1>6. IsSeq(S) /\ Len(S) = 3 /\ S[3] = c
    BY <1>4, ThreeSeq
  <1>7. ASSUME ValuesAre(v, S) PROVE Said(mod, tys, inst.op, v) = Remains(inst)
    <2>1. v[3] = GetEncodedCastOpcode[l[1]]
      BY <1>4, <1>6, <1>7 DEF ValuesAre, N
    <2>2. Meaning(Casts, v[3]) = l[1]
      BY <1>3, <2>1, CastReads
    <2>3. Said(mod, tys, inst.op, v) = <<l[1]>>
      BY <2>2 DEF Said
    <2>4. Remains(inst) = l
      BY <1>1 DEF Remains
    <2> QED
      BY <1>2, <1>3, <2>3, <2>4, ListOfOne
  <1> QED
    BY <1>5, <1>7 DEF Says

LEMMA SaidByBinop ==
    ASSUME NEW mod, NEW tys, NEW inst, IsInstruction(mod, tys, inst), inst.op = "BINOP", NEW v
    PROVE  Says(mod, tys, inst, v)
  <1>1. PICK l, o : l = inst.lits /\ o = inst.ops[1]
    OBVIOUS
  <1>2. IsSeq(l)
    BY <1>1, OpsAre
  <1>3. Len(l) = 2 /\ Operation(mod, TypeOf(tys, o), l[1], l[2])
    BY <1>1 DEF IsInstruction
  <1>4. PICK a, b, c, S, f, t : /\ a = VT(o) /\ b = V(inst.ops[2]) /\ c = N(GetEncodedBinaryOpcode[l[1]])
                                /\ S = <<a, b, c>> /\ f = GetOptimizationFlags(l[1], l[2])
                                /\ t = One(f # 0, N(f))
    OBVIOUS
  <1>5. Operands(mod, tys, inst) = S \o t
    BY <1>1, <1>4 DEF Operands
  <1>6. IsSeq(S) /\ Len(S) = 3 /\ S[1] = a /\ S[3] = c
    BY <1>4, ThreeSeq
  <1>7. IsSeq(t) /\ (IF f # 0 THEN Len(t) = 1 /\ t[1] = N(f) ELSE Len(t) = 0)
    <2>1. CASE f # 0
      <3>1. t = <<N(f)>>
        BY <1>4, <2>1 DEF One
      <3> QED
        BY <2>1, <3>1, OneSeq
    <2>2. CASE f = 0
      <3>1. t = Empty
        BY <1>4, <2>2 DEF One, Empty
      <3> QED
        BY <2>2, <3>1, NoneSeq
    <2> QED
      BY <2>1, <2>2
  <1>8. ASSUME ValuesAre(v, S \o t) PROVE Said(mod, tys, inst.op, v) = Remains(inst)
    <2>1. ValuesOfBoth(v, S, t)
      BY <1>6, <1>7, <1>8, JoinedValues
    <2>2. Len(v) = 3 + Len(t) /\ \A k \in 1..3 : v[k] = S[k].n
      BY <1>6, <2>1 DEF ValuesOfBoth
    <2>3. \A k \in 1..Len(t) : v[3 + k] = t[k].n
      BY <1>6, <2>1 DEF ValuesOfBoth
    <2>4. v[1] = o /\ v[3] = GetEncodedBinaryOpcode[l[1]]
      BY <1>4, <1>6, <2>2 DEF VT, N
    <2>5. At(v, 4, 0) = f
      <3>1. CASE f # 0
        <4>1. Len(t) = 1 /\ t[1] = N(f)
          BY <1>7, <3>1
        <4>2. Len(v) = 4 /\ v[3 + 1] = t[1].n
          BY <2>2, <2>3, <4>1
        <4> QED
          BY <4>1, <4>2 DEF At, N
      <3>2. CASE f = 0
        <4>1. Len(v) = 3
          BY <1>7, <2>2, <3>2
        <4> QED
          BY <3>2, <4>1 DEF At
      <3> QED
        BY <3>1, <3>2
    <2>6. BinaryMeaning(mod, TypeOf(tys, o), GetEncodedBinaryOpcode[l[1]], f) = <<l[1], l[2]>>
      BY <1>3, <1>4, BinaryReads
    <2>7. Said(mod, tys, inst.op, v) = <<l[1], l[2]>>
      BY <2>4, <2>5, <2>6 DEF Said
    <2>8. <<l[1], l[2]>> = l
      BY <1>2, <1>3, ListOfTwo
    <2>9. Remains(inst) = l
      BY <1>1 DEF Remains
    <2> QED
      BY <2>7, <2>8, <2>9
  <1> QED
    BY <1>5, <1>8 DEF Says

\* The values of P are those of v after d others.
HoldsValues(v, d, P) == \A k \in 1..Len(P) : v[d + k] = P[k].n

LEMMA TwoHeld ==
    ASSUME NEW S, NEW t, IsSeq(S), IsSeq(t), NEW v, ValuesAre(v, S \o t)
    PROVE  Len(v) = Len(S) + Len(t) /\ HoldsValues(v, 0, S) /\ HoldsValues(v, Len(S), t)
  <1>1. ValuesOfBoth(v, S, t)
    BY JoinedValues
  <1>2. Len(S) \in Nat
    BY SeqShape
  <1> QED
    BY <1>1, <1>2 DEF ValuesOfBoth, HoldsValues

LEMMA ThreeHeld ==
    ASSUME NEW S, NEW t, NEW u, IsSeq(S), IsSeq(t), IsSeq(u), NEW v, ValuesAre(v, S \o t \o u)
    PROVE  /\ Len(v) = Len(S) + Len(t) + Len(u)
           /\ HoldsValues(v, 0, S) /\ HoldsValues(v, Len(S), t) /\ HoldsValues(v, Len(S) + Len(t), u)
  <1>1. PICK j : j = S \o t
    OBVIOUS
  <1>2. Joins(j, S, t)
    BY <1>1, JoinIs
  <1>3. IsSeq(j) /\ Len(j) = Len(S) + Len(t)
    BY <1>2 DEF Joins
  <1>4. ValuesAre(v, j \o u)
    BY <1>1
  <1>5. Len(v) = Len(j) + Len(u) /\ HoldsValues(v, 0, j) /\ HoldsValues(v, Len(j), u)
    BY <1>3, <1>4, TwoHeld
  <1>6. Len(S) \in Nat /\ Len(t) \in Nat
    BY SeqShape
  <1>7. HoldsValues(v, 0, S)
    <2>1. ASSUME NEW k \in 1..Len(S) PROVE v[0 + k] = S[k].n
      <3>1. k \in 1..Len(j) /\ j[k] = S[k]
        BY <1>2, <1>3, <1>6 DEF Joins
      <3> QED
        BY <1>5, <3>1 DEF HoldsValues
    <2> QED
      BY <2>1 DEF HoldsValues
  <1>8. HoldsValues(v, Len(S), t)
    <2>1. ASSUME NEW k \in 1..Len(t) PROVE v[Len(S) + k] = t[k].n
      <3>1. Len(S) + k \in 1..Len(j) /\ j[Len(S) + k] = t[k]
        BY <1>2, <1>3, <1>6 DEF Joins
      <3>2. v[0 + (Len(S) + k)] = j[Len(S) + k].n
        BY <1>5, <3>1 DEF HoldsValues
      <3>3. 0 + (Len(S) + k) = Len(S) + k
        BY <1>6
      <3> QED
        BY <3>1, <3>2, <3>3
    <2> QED
      BY <2>1 DEF HoldsValues
  <1> QED
    BY <1>3, <1>5, <1>7, <1>8

\* The alignment and whether the access is volatile.
LEMMA MemorySaid ==
    ASSUME NEW l, IsSeq(l), Len(l) = 2, l[1] \in Alignments, NEW A, A = AlignFirst(l),
           NEW v, NEW d \in Nat, HoldsValues(v, d, A)
    PROVE  Len(A) = 2 /\ Alignment(v[d + 1]) = l[1] /\ v[d + 2] = l[2]
  <1>1. IsSeq(A) /\ Len(A) = 2 /\ A[1].n = Log2_32(l[1]) + 1 /\ A[2].n = l[2]
    BY AlignValues
  <1>2. v[d + 1] = Log2_32(l[1]) + 1 /\ v[d + 2] = l[2]
    BY <1>1 DEF HoldsValues
  <1>3. Alignment(Log2_32(l[1]) + 1) = l[1]
    BY AlignmentReads
  <1> QED
    BY <1>1, <1>2, <1>3

\* The ordering and the scope.
LEMMA AtomicSaid ==
    ASSUME NEW o \in DOMAIN GetEncodedOrdering, NEW s \in DOMAIN GetEncodedSynchScope, NEW A, A = Atomic(o, s),
           NEW v, NEW d \in Nat, HoldsValues(v, d, A)
    PROVE  Len(A) = 2 /\ Meaning(Orderings, v[d + 1]) = o /\ Meaning(Scopes, v[d + 2]) = s
  <1>1. /\ IsSeq(A) /\ Len(A) = 2
        /\ A[1].n = GetEncodedOrdering[o] /\ A[2].n = GetEncodedSynchScope[s]
    BY AtomicValues
  <1>2. v[d + 1] = GetEncodedOrdering[o] /\ v[d + 2] = GetEncodedSynchScope[s]
    BY <1>1 DEF HoldsValues
  <1>3. Meaning(Orderings, GetEncodedOrdering[o]) = o
    BY OrderingReads
  <1>4. Meaning(Scopes, GetEncodedSynchScope[s]) = s
    BY ScopeReads
  <1> QED
    BY <1>1, <1>2, <1>3, <1>4

LEMMA SaidByLoad ==
    ASSUME NEW mod, NEW tys, NEW inst, IsInstruction(mod, tys, inst), inst.op = "LOAD", NEW v
    PROVE  Says(mod, tys, inst, v)
  <1>1. PICK l, A, S : l = inst.lits /\ A = AlignFirst(l) /\ S = <<VT(inst.ops[1])>>
    OBVIOUS
  <1>2. IsSeq(l)
    BY <1>1, OpsAre
  <1>3. Len(l) = 2 /\ l[1] \in Alignments
    BY <1>1 DEF IsInstruction
  <1>4. Operands(mod, tys, inst) = S \o A
    BY <1>1 DEF Operands
  <1>5. IsSeq(S) /\ Len(S) = 1
    BY <1>1, OneSeq
  <1>6. IsSeq(A)
    BY <1>1, <1>2, <1>3, AlignValues
  <1>7. ASSUME ValuesAre(v, S \o A) PROVE Said(mod, tys, inst.op, v) = Remains(inst)
    <2>1. HoldsValues(v, 1, A)
      BY <1>5, <1>6, <1>7, TwoHeld
    <2>2. Alignment(v[1 + 1]) = l[1] /\ v[1 + 2] = l[2]
      BY <1>1, <1>2, <1>3, <2>1, MemorySaid
    <2>3. Said(mod, tys, inst.op, v) = <<l[1], l[2]>>
      BY <2>2 DEF Said
    <2>4. <<l[1], l[2]>> = l
      BY <1>2, <1>3, ListOfTwo
    <2>5. Remains(inst) = l
      BY <1>1 DEF Remains
    <2> QED
      BY <2>3, <2>4, <2>5
  <1> QED
    BY <1>4, <1>7 DEF Says

LEMMA SaidByStore ==
    ASSUME NEW mod, NEW tys, NEW inst, IsInstruction(mod, tys, inst), inst.op = "STORE", NEW v
    PROVE  Says(mod, tys, inst, v)
  <1>1. PICK l, A, S : l = inst.lits /\ A = AlignFirst(l) /\ S = <<VT(inst.ops[2]), V(inst.ops[1])>>
    OBVIOUS
  <1>2. IsSeq(l)
    BY <1>1, OpsAre
  <1>3. Len(l) = 2 /\ l[1] \in Alignments
    BY <1>1 DEF IsInstruction
  <1>4. Operands(mod, tys, inst) = S \o A
    BY <1>1 DEF Operands
  <1>5. IsSeq(S) /\ Len(S) = 2
    BY <1>1, PairSeq
  <1>6. IsSeq(A)
    BY <1>1, <1>2, <1>3, AlignValues
  <1>7. ASSUME ValuesAre(v, S \o A) PROVE Said(mod, tys, inst.op, v) = Remains(inst)
    <2>1. HoldsValues(v, 2, A)
      BY <1>5, <1>6, <1>7, TwoHeld
    <2>2. Alignment(v[2 + 1]) = l[1] /\ v[2 + 2] = l[2]
      BY <1>1, <1>2, <1>3, <2>1, MemorySaid
    <2>3. Said(mod, tys, inst.op, v) = <<l[1], l[2]>>
      BY <2>2 DEF Said
    <2>4. <<l[1], l[2]>> = l
      BY <1>2, <1>3, ListOfTwo
    <2>5. Remains(inst) = l
      BY <1>1 DEF Remains
    <2> QED
      BY <2>3, <2>4, <2>5
  <1> QED
    BY <1>4, <1>7 DEF Says

LEMMA SaidByFence ==
    ASSUME NEW mod, NEW tys, NEW inst, IsInstruction(mod, tys, inst), inst.op = "FENCE", NEW v
    PROVE  Says(mod, tys, inst, v)
  <1>1. PICK l, A : l = inst.lits /\ A = Atomic(l[1], l[2])
    OBVIOUS
  <1>2. IsSeq(l)
    BY <1>1, OpsAre
  <1>3. Len(l) = 2 /\ l[1] \in DOMAIN GetEncodedOrdering /\ l[2] \in DOMAIN GetEncodedSynchScope
    BY <1>1 DEF IsInstruction
  <1>4. Operands(mod, tys, inst) = A
    BY <1>1 DEF Operands
  <1>5. Len(A) = 2
    BY <1>1, AtomicValues
  <1>6. ASSUME ValuesAre(v, A) PROVE Said(mod, tys, inst.op, v) = Remains(inst)
    <2>1. Len(v) = 2 /\ HoldsValues(v, 0, A)
      BY <1>5, <1>6 DEF ValuesAre, HoldsValues
    <2>2. Meaning(Orderings, v[0 + 1]) = l[1] /\ Meaning(Scopes, v[0 + 2]) = l[2]
      BY <1>1, <1>3, <2>1, AtomicSaid
    <2>3. Said(mod, tys, inst.op, v) = <<l[1], l[2]>>
      BY <2>1, <2>2 DEF Said
    <2>4. <<l[1], l[2]>> = l
      BY <1>2, <1>3, ListOfTwo
    <2>5. Remains(inst) = l
      BY <1>1 DEF Remains
    <2> QED
      BY <2>3, <2>4, <2>5
  <1> QED
    BY <1>4, <1>6 DEF Says

LEMMA FourSeq ==
    ASSUME NEW a, NEW b, NEW c, NEW d, NEW s, s = <<a, b, c, d>>
    PROVE  IsSeq(s) /\ Len(s) = 4 /\ s[1] = a /\ s[2] = b /\ s[3] = c /\ s[4] = d
  <1>1. DOMAIN s = 1..4 /\ s = [k \in 1..4 |-> s[k]]
    OBVIOUS
  <1>2. IsSeq(s) /\ Len(s) = 4
    BY <1>1, TabulatedSeq
  <1> QED
    BY <1>2

LEMMA SaidByLoadAtomic ==
    ASSUME NEW mod, NEW tys, NEW inst, IsInstruction(mod, tys, inst), inst.op = "LOADATOMIC", NEW v
    PROVE  Says(mod, tys, inst, v)
  <1>1. PICK l, h, A, S, T : /\ l = inst.lits /\ h = SubSeq(l, 1, 2) /\ A = AlignFirst(h)
                             /\ S = <<VT(inst.ops[1])>> /\ T = Atomic(l[3], l[4])
    OBVIOUS
  <1>2. IsSeq(l)
    BY <1>1, OpsAre
  <1>3. Len(l) = 4 /\ l[1] \in Alignments
    BY <1>1 DEF IsInstruction
  <1>4. l[3] \in DOMAIN GetEncodedOrdering /\ l[4] \in DOMAIN GetEncodedSynchScope
    BY <1>1 DEF IsInstruction
  <1>5. Operands(mod, tys, inst) = S \o A \o T
    BY <1>1 DEF Operands
  <1>6. IsSeq(S) /\ Len(S) = 1
    BY <1>1, OneSeq
  <1>7. IsSeq(h) /\ Len(h) = 2 /\ h[1] = l[1] /\ h[2] = l[2]
    <2>1. Len(l) >= 2
      BY <1>3
    <2> QED
      BY <1>1, <1>2, <2>1, FirstTwoIs
  <1>8. IsSeq(A) /\ Len(A) = 2
    BY <1>1, <1>7, AlignValues
  <1>9. IsSeq(T) /\ Len(T) = 2
    BY <1>1, AtomicValues
  <1>10. ASSUME ValuesAre(v, S \o A \o T) PROVE Said(mod, tys, inst.op, v) = Remains(inst)
    <2>1. /\ Len(v) = Len(S) + Len(A) + Len(T)
          /\ HoldsValues(v, 0, S) /\ HoldsValues(v, Len(S), A) /\ HoldsValues(v, Len(S) + Len(A), T)
      BY <1>6, <1>8, <1>9, <1>10, ThreeHeld
    <2>2. Len(v) = 5 /\ HoldsValues(v, 1, A) /\ HoldsValues(v, 3, T)
      BY <1>6, <1>8, <1>9, <2>1
    <2>3. IsSeq(h) /\ Len(h) = 2 /\ h[1] \in Alignments /\ A = AlignFirst(h)
      BY <1>1, <1>3, <1>7
    <2>4. Alignment(v[1 + 1]) = h[1] /\ v[1 + 2] = h[2]
      BY <2>2, <2>3, MemorySaid
    <2>5. Meaning(Orderings, v[3 + 1]) = l[3] /\ Meaning(Scopes, v[3 + 2]) = l[4]
      BY <1>1, <1>4, <2>2, AtomicSaid
    <2>6. Said(mod, tys, inst.op, v) = <<l[1], l[2]>> \o <<l[3], l[4]>>
      BY <1>7, <2>2, <2>4, <2>5 DEF Said
    <2>7. <<l[1], l[2]>> \o <<l[3], l[4]>> = l
      BY <1>2, <1>3, ListOfFour
    <2>8. Remains(inst) = l
      BY <1>1 DEF Remains
    <2> QED
      BY <2>6, <2>7, <2>8
  <1> QED
    BY <1>5, <1>10 DEF Says

LEMMA SaidByStoreAtomic ==
    ASSUME NEW mod, NEW tys, NEW inst, IsInstruction(mod, tys, inst), inst.op = "STOREATOMIC", NEW v
    PROVE  Says(mod, tys, inst, v)
  <1>1. PICK l, h, A, S, T : /\ l = inst.lits /\ h = SubSeq(l, 1, 2) /\ A = AlignFirst(h)
                             /\ S = <<VT(inst.ops[2]), V(inst.ops[1])>> /\ T = Atomic(l[3], l[4])
    OBVIOUS
  <1>2. IsSeq(l)
    BY <1>1, OpsAre
  <1>3. Len(l) = 4 /\ l[1] \in Alignments
    BY <1>1 DEF IsInstruction
  <1>4. l[3] \in DOMAIN GetEncodedOrdering /\ l[4] \in DOMAIN GetEncodedSynchScope
    BY <1>1 DEF IsInstruction
  <1>5. Operands(mod, tys, inst) = S \o A \o T
    BY <1>1 DEF Operands
  <1>6. IsSeq(S) /\ Len(S) = 2
    BY <1>1, PairSeq
  <1>7. IsSeq(h) /\ Len(h) = 2 /\ h[1] = l[1] /\ h[2] = l[2]
    <2>1. Len(l) >= 2
      BY <1>3
    <2> QED
      BY <1>1, <1>2, <2>1, FirstTwoIs
  <1>8. IsSeq(A) /\ Len(A) = 2
    BY <1>1, <1>7, AlignValues
  <1>9. IsSeq(T) /\ Len(T) = 2
    BY <1>1, AtomicValues
  <1>10. ASSUME ValuesAre(v, S \o A \o T) PROVE Said(mod, tys, inst.op, v) = Remains(inst)
    <2>1. /\ Len(v) = Len(S) + Len(A) + Len(T)
          /\ HoldsValues(v, 0, S) /\ HoldsValues(v, Len(S), A) /\ HoldsValues(v, Len(S) + Len(A), T)
      BY <1>6, <1>8, <1>9, <1>10, ThreeHeld
    <2>2. Len(v) = 6 /\ HoldsValues(v, 2, A) /\ HoldsValues(v, 4, T)
      BY <1>6, <1>8, <1>9, <2>1
    <2>3. IsSeq(h) /\ Len(h) = 2 /\ h[1] \in Alignments /\ A = AlignFirst(h)
      BY <1>1, <1>3, <1>7
    <2>4. Alignment(v[2 + 1]) = h[1] /\ v[2 + 2] = h[2]
      BY <2>2, <2>3, MemorySaid
    <2>5. Meaning(Orderings, v[4 + 1]) = l[3] /\ Meaning(Scopes, v[4 + 2]) = l[4]
      BY <1>1, <1>4, <2>2, AtomicSaid
    <2>6. Said(mod, tys, inst.op, v) = <<l[1], l[2]>> \o <<l[3], l[4]>>
      BY <1>7, <2>2, <2>4, <2>5 DEF Said
    <2>7. <<l[1], l[2]>> \o <<l[3], l[4]>> = l
      BY <1>2, <1>3, ListOfFour
    <2>8. Remains(inst) = l
      BY <1>1 DEF Remains
    <2> QED
      BY <2>6, <2>7, <2>8
  <1> QED
    BY <1>5, <1>10 DEF Says

LEMMA SaidByRMW ==
    ASSUME NEW mod, NEW tys, NEW inst, IsInstruction(mod, tys, inst), inst.op = "ATOMICRMW", NEW v
    PROVE  Says(mod, tys, inst, v)
  <1>1. PICK l, a, b, c, d, S, T : /\ l = inst.lits /\ a = VT(inst.ops[1]) /\ b = V(inst.ops[2])
                                   /\ c = N(GetEncodedRMWOperation[l[1]]) /\ d = N(l[2])
                                   /\ S = <<a, b, c, d>> /\ T = Atomic(l[3], l[4])
    OBVIOUS
  <1>2. IsSeq(l)
    BY <1>1, OpsAre
  <1>3. Len(l) = 4 /\ l[1] \in DOMAIN GetEncodedRMWOperation
    BY <1>1 DEF IsInstruction
  <1>4. l[3] \in DOMAIN GetEncodedOrdering /\ l[4] \in DOMAIN GetEncodedSynchScope
    BY <1>1 DEF IsInstruction
  <1>5. Operands(mod, tys, inst) = S \o T
    BY <1>1 DEF Operands
  <1>6. IsSeq(S) /\ Len(S) = 4 /\ S[3] = c /\ S[4] = d
    BY <1>1, FourSeq
  <1>7. IsSeq(T) /\ Len(T) = 2
    BY <1>1, AtomicValues
  <1>8. ASSUME ValuesAre(v, S \o T) PROVE Said(mod, tys, inst.op, v) = Remains(inst)
    <2>1. Len(v) = Len(S) + Len(T) /\ HoldsValues(v, 0, S) /\ HoldsValues(v, Len(S), T)
      BY <1>6, <1>7, <1>8, TwoHeld
    <2>2. Len(v) = 6 /\ HoldsValues(v, 4, T)
      BY <1>6, <1>7, <2>1
    <2>3. v[3] = GetEncodedRMWOperation[l[1]] /\ v[4] = l[2]
      <3>1. v[0 + 3] = c.n /\ v[0 + 4] = d.n
        BY <1>6, <2>1 DEF HoldsValues
      <3> QED
        BY <1>1, <3>1 DEF N
    <2>4. Meaning(RMWs, GetEncodedRMWOperation[l[1]]) = l[1]
      BY <1>3, RMWReads
    <2>5. Meaning(Orderings, v[4 + 1]) = l[3] /\ Meaning(Scopes, v[4 + 2]) = l[4]
      BY <1>1, <1>4, <2>2, AtomicSaid
    <2>6. Said(mod, tys, inst.op, v) = <<l[1], l[2]>> \o <<l[3], l[4]>>
      BY <2>2, <2>3, <2>4, <2>5 DEF Said
    <2>7. <<l[1], l[2]>> \o <<l[3], l[4]>> = l
      BY <1>2, <1>3, ListOfFour
    <2>8. Remains(inst) = l
      BY <1>1 DEF Remains
    <2> QED
      BY <2>6, <2>7, <2>8
  <1> QED
    BY <1>5, <1>8 DEF Says

\* The ordering of a failure is not written, and not read.
LEMMA SaidByCmpXchg ==
    ASSUME NEW mod, NEW tys, NEW inst, IsInstruction(mod, tys, inst), inst.op = "CMPXCHG", NEW v
    PROVE  Says(mod, tys, inst, v)
  <1>1. PICK l, a, b, c, d, S, T : /\ l = inst.lits /\ a = VT(inst.ops[1]) /\ b = V(inst.ops[2])
                                   /\ c = V(inst.ops[3]) /\ d = N(l[1])
                                   /\ S = <<a, b, c, d>> /\ T = Atomic(l[2], l[3])
    OBVIOUS
  <1>2. IsSeq(l)
    BY <1>1, OpsAre
  <1>3. Len(l) >= 3
    BY <1>1 DEF IsInstruction
  <1>4. l[2] \in DOMAIN GetEncodedOrdering /\ l[3] \in DOMAIN GetEncodedSynchScope
    BY <1>1 DEF IsInstruction
  <1>5. Operands(mod, tys, inst) = S \o T
    BY <1>1 DEF Operands
  <1>6. IsSeq(S) /\ Len(S) = 4 /\ S[4] = d
    BY <1>1, FourSeq
  <1>7. IsSeq(T) /\ Len(T) = 2
    BY <1>1, AtomicValues
  <1>8. PICK g : g = SubSeq(l, 1, 3)
    OBVIOUS
  <1>9. IsSeq(g) /\ Len(g) = 3 /\ g[1] = l[1] /\ g[2] = l[2] /\ g[3] = l[3]
    <2>1. 1 \in Nat /\ 3 \in Nat /\ 1 + 3 <= Len(l) + 1 /\ 1 + 3 - 1 = 3
      BY <1>2, <1>3, SeqShape
    <2>2. Slice(SubSeq(l, 1, 1 + 3 - 1), l, 1, 3)
      BY <1>2, <2>1, SliceIs
    <2>3. Slice(g, l, 1, 3)
      BY <1>8, <2>1, <2>2
    <2>4. IsSeq(g) /\ Len(g) = 3 /\ \A k \in 1..3 : g[k] = l[1 + k - 1]
      BY <2>3 DEF Slice
    <2> QED
      BY <2>4
  <1>10. ASSUME ValuesAre(v, S \o T) PROVE Said(mod, tys, inst.op, v) = Remains(inst)
    <2>1. Len(v) = Len(S) + Len(T) /\ HoldsValues(v, 0, S) /\ HoldsValues(v, Len(S), T)
      BY <1>6, <1>7, <1>10, TwoHeld
    <2>2. Len(v) = 6 /\ HoldsValues(v, 4, T)
      BY <1>6, <1>7, <2>1
    <2>3. v[4] = l[1]
      <3>1. v[0 + 4] = d.n
        BY <1>6, <2>1 DEF HoldsValues
      <3> QED
        BY <1>1, <3>1 DEF N
    <2>4. Meaning(Orderings, v[4 + 1]) = l[2] /\ Meaning(Scopes, v[4 + 2]) = l[3]
      BY <1>1, <1>4, <2>2, AtomicSaid
    <2>5. Said(mod, tys, inst.op, v) = <<l[1]>> \o <<l[2], l[3]>>
      BY <2>2, <2>3, <2>4 DEF Said
    <2>6. <<l[1]>> \o <<l[2], l[3]>> = g
      BY <1>9, ListOfThree
    <2>7. Remains(inst) = g
      BY <1>1, <1>8 DEF Remains
    <2> QED
      BY <2>5, <2>6, <2>7
  <1> QED
    BY <1>5, <1>10 DEF Says

LEMMA HashFolded ==
    ASSUME NEW cases, IsSeq(cases)
    PROVE  Hash(cases) = Folded("hash", 0, Len(cases) % 2 ^ 16, cases)
  <1>1. DOMAIN cases = 1..Len(cases)
    BY SeqShape
  <1> QED
    BY <1>1 DEF Hash, FoldLeft, MapThenFoldSet, IsFold, Folded, Step

\* The hash has 16 bits.
LEMMA HashSmall ==
    ASSUME NEW cases, IsSeq(cases)
    PROVE  Hash(cases) \in Nat /\ Hash(cases) < 2 ^ 16
  <1>1. PICK b, r, n : b = 2 ^ 16 /\ n = Len(cases) /\ r = n % b
    OBVIOUS
  <1>2. b \in Nat /\ b > 0
    <2>1. 16 \in Nat
      OBVIOUS
    <2> QED
      BY <1>1, <2>1, PowerNat
  <1>3. n \in Nat
    BY <1>1, SeqShape
  <1>4. PICK H : Runs("hash", 0, H, r, cases, n) /\ Folded("hash", 0, r, cases) = H[n]
    BY <1>1, FoldRuns
  <1>5. H[0] = r /\ \A k \in 1..n : H[k] = (2 * H[k - 1] + 1) % b
    BY <1>1, <1>4 DEF Runs, Step
  <1> DEFINE A(k) == k <= n => H[k] \in Nat /\ H[k] < b
  <1>6. A(0)
    BY <1>1, <1>2, <1>3, <1>5
  <1>7. ASSUME NEW k \in Nat, A(k) PROVE A(k + 1)
    <2>1. SUFFICES ASSUME k + 1 <= n PROVE H[k + 1] \in Nat /\ H[k + 1] < b
      OBVIOUS
    <2>2. PICK h : h = H[k]
      OBVIOUS
    <2>3. h \in Nat
      BY <1>3, <1>7, <2>1, <2>2
    <2>4. H[k + 1] = (2 * h + 1) % b
      <3>1. k + 1 \in 1..n /\ (k + 1) - 1 = k
        BY <1>3, <2>1
      <3> QED
        BY <1>5, <2>2, <3>1
    <2>5. PICK g : g = 2 * h + 1
      OBVIOUS
    <2>6. g % b \in Nat /\ g % b < b
      BY <1>2, <2>3, <2>5
    <2> QED
      BY <2>4, <2>5, <2>6
  <1> HIDE DEF A
  <1>8. \A k \in Nat : A(k)
    <2> DEFINE T == {k \in Nat : A(k)}
    <2>1. 0 \in T /\ \A k \in Nat : k \in T => k + 1 \in T
      BY <1>6, <1>7
    <2> HIDE DEF T
    <2>2. Nat \subseteq T
      BY <2>1, NatSetInduction
    <2> QED
      BY <2>2 DEF T
  <1>9. H[n] \in Nat /\ H[n] < b
    BY <1>3, <1>8 DEF A
  <1>10. Hash(cases) = H[n]
    BY <1>1, <1>4, HashFolded
  <1> QED
    BY <1>1, <1>9, <1>10

\* The magic is in the high half.
LEMMA HeaderTells ==
    ASSUME NEW cases, IsSeq(cases)
    PROVE  SwitchRecordHeader(cases) \div 2 ^ 16 = 1205
  <1>1. PICK b, h : b = 2 ^ 16 /\ h = Hash(cases)
    OBVIOUS
  <1>2. b \in Nat \ {0}
    <2>1. 16 \in Nat
      OBVIOUS
    <2> QED
      BY <1>1, <2>1, PowerNat
  <1>3. h \in Nat /\ h < b
    BY <1>1, HashSmall
  <1>4. 1205 \in Nat
    OBVIOUS
  <1>5. (1205 * b + h) \div b = 1205
    BY <1>2, <1>3, <1>4, DivModIs
  <1>6. SwitchRecordHeader(cases) = h + 1205 * b
    BY <1>1 DEF SwitchRecordHeader, SWITCH_INST_MAGIC
  <1>7. h + 1205 * b = 1205 * b + h
    BY <1>2, <1>3
  <1> QED
    BY <1>1, <1>5, <1>6, <1>7

\* The third of each four.
ThirdOfFours(p, ss, n) == IsSeq(p) /\ Len(p) = 4 * n /\ \A j \in 1..n : p[4 * j - 1] = ss[j][3]

LEMMA FoursJoined ==
    ASSUME NEW ss, IsSeq(ss), \A k \in 1..Len(ss) : IsSeq(ss[k]) /\ Len(ss[k]) = 4
    PROVE  ThirdOfFours(FlattenSeq(ss), ss, Len(ss))
  <1>1. PICK c : c = Len(ss)
    OBVIOUS
  <1>2. c \in Nat
    BY <1>1, SeqShape
  <1>3. PICK P : Joined(P, ss, c) /\ FlattenSeq(ss) = P[c]
    BY <1>1, FlattenJoined
  <1> DEFINE A(k) == k <= c => ThirdOfFours(P[k], ss, k)
  <1>4. A(0)
    <2>1. P[0] = Empty
      BY <1>3 DEF Joined
    <2> QED
      BY <2>1, NoneSeq DEF ThirdOfFours
  <1>5. ASSUME NEW k \in Nat, A(k) PROVE A(k + 1)
    <2>1. SUFFICES ASSUME k + 1 <= c PROVE ThirdOfFours(P[k + 1], ss, k + 1)
      OBVIOUS
    <2>2. PICK h, p, s, q : h = k + 1 /\ p = P[k] /\ s = ss[h] /\ q = P[h]
      OBVIOUS
    <2>3. h \in 1..c /\ h - 1 = k
      BY <1>2, <2>1, <2>2
    <2>4. q = p \o s
      BY <1>3, <2>2, <2>3 DEF Joined
    <2>5. ThirdOfFours(p, ss, k)
      BY <1>2, <1>5, <2>1, <2>2
    <2>6. IsSeq(s) /\ Len(s) = 4
      BY <1>1, <2>2, <2>3
    <2>7. IsSeq(p) /\ Len(p) = 4 * k
      BY <2>5 DEF ThirdOfFours
    <2>8. Joins(q, p, s)
      BY <2>4, <2>6, <2>7, JoinIs
    <2>9. IsSeq(q) /\ Len(q) = 4 * h
      BY <2>2, <2>6, <2>7, <2>8 DEF Joins
    <2>10. ASSUME NEW j \in 1..h PROVE q[4 * j - 1] = ss[j][3]
      <3>1. CASE j = h
        <4>1. q[Len(p) + 3] = s[3]
          BY <2>6, <2>8 DEF Joins
        <4>2. Len(p) + 3 = 4 * j - 1
          BY <2>2, <2>7, <3>1
        <4> QED
          BY <2>2, <3>1, <4>1, <4>2
      <3>2. CASE j # h
        <4>1. j \in 1..k
          BY <2>2, <2>10, <3>2
        <4>2. p[4 * j - 1] = ss[j][3]
          BY <2>5, <4>1 DEF ThirdOfFours
        <4>3. 4 * j - 1 \in 1..Len(p)
          BY <2>7, <4>1
        <4>4. q[4 * j - 1] = p[4 * j - 1]
          BY <2>8, <4>3 DEF Joins
        <4> QED
          BY <4>2, <4>4
      <3> QED
        BY <3>1, <3>2
    <2>11. ThirdOfFours(q, ss, h)
      BY <2>9, <2>10 DEF ThirdOfFours
    <2> QED
      BY <2>2, <2>11
  <1> HIDE DEF A
  <1>6. \A k \in Nat : A(k)
    <2> DEFINE T == {k \in Nat : A(k)}
    <2>1. 0 \in T /\ \A k \in Nat : k \in T => k + 1 \in T
      BY <1>4, <1>5
    <2> HIDE DEF T
    <2>2. Nat \subseteq T
      BY <2>1, NatSetInduction
    <2> QED
      BY <2>2 DEF T
  <1>7. ThirdOfFours(P[c], ss, c)
    BY <1>2, <1>6 DEF A
  <1> QED
    BY <1>1, <1>3, <1>7

LEMMA SaidBySwitch ==
    ASSUME NEW mod, NEW tys, NEW inst, IsInstruction(mod, tys, inst), inst.op = "SWITCH", NEW v
    PROVE  Says(mod, tys, inst, v)
  <1>1. PICK S, l, bs, n : S = Operands(mod, tys, inst) /\ l = inst.lits /\ bs = inst.blocks /\ n = Len(l)
    OBVIOUS
  <1>2. IsSeq(l)
    BY <1>1, OpsAre
  <1>3. n \in Nat /\ DOMAIN l = 1..n
    BY <1>1, <1>2, SeqShape
  <1>4. \A k \in 1..n : l[k] \in Integers64
    <2>1. l \in Seq(Integers64)
      BY <1>1 DEF IsInstruction
    <2> QED
      BY <1>1, <2>1
  <1>5. PICK a, b, c, e, f, t : /\ a = N(SwitchRecordHeader(l)) /\ b = N(TypeOf(tys, inst.ops[1])) /\ c = V64(inst.ops[1])
                                /\ e = N(bs[1]) /\ f = N(n) /\ t = <<a, b, c, e, f>>
    OBVIOUS
  <1>6. PICK ss : ss = [k \in DOMAIN l |-> <<N(1), N(1), N(emitSignedInt64(l[k])), N(bs[k + 1])>>]
    OBVIOUS
  <1>7. Flat(LAMBDA k : <<N(1), N(1), N(emitSignedInt64(inst.lits[k])), N(inst.blocks[k + 1])>>, [k \in DOMAIN inst.lits |-> k])
          = FlattenSeq(ss)
    <2>1. PICK idx : idx = [k \in DOMAIN inst.lits |-> k]
      OBVIOUS
    <2>2. [k \in DOMAIN idx |-> <<N(1), N(1), N(emitSignedInt64(inst.lits[idx[k]])), N(inst.blocks[idx[k] + 1])>>] = ss
      BY <1>1, <1>6, <2>1
    <2> QED
      BY <2>1, <2>2 DEF Flat, Map
  <1>8. S = t \o FlattenSeq(ss)
    <2>1. Operands(mod, tys, inst)
            = <<N(SwitchRecordHeader(inst.lits)), N(TypeOf(tys, inst.ops[1])), V64(inst.ops[1]), N(inst.blocks[1]), N(Len(inst.lits))>>
                \o Flat(LAMBDA k : <<N(1), N(1), N(emitSignedInt64(inst.lits[k])), N(inst.blocks[k + 1])>>,
                        [k \in DOMAIN inst.lits |-> k])
      BY DEF Operands
    <2> QED
      BY <1>1, <1>5, <1>7, <2>1
  <1>9. IsSeq(ss) /\ Len(ss) = n
    <2>1. DOMAIN ss = DOMAIN l /\ ss = [k \in DOMAIN ss |-> ss[k]]
      BY <1>6
    <2> QED
      BY <1>1, <1>2, <2>1, MapShape
  <1>10. \A k \in 1..Len(ss) : IsSeq(ss[k]) /\ Len(ss[k]) = 4 /\ ss[k][3] = N(emitSignedInt64(l[k]))
    <2>1. ASSUME NEW k \in 1..n PROVE IsSeq(ss[k]) /\ Len(ss[k]) = 4 /\ ss[k][3] = N(emitSignedInt64(l[k]))
      <3>1. PICK h, i, j, q : h = N(1) /\ i = N(emitSignedInt64(l[k])) /\ j = N(bs[k + 1]) /\ q = <<h, h, i, j>>
        OBVIOUS
      <3>2. ss[k] = q
        BY <1>3, <1>6, <3>1
      <3>3. IsSeq(q) /\ Len(q) = 4 /\ q[3] = i
        BY <3>1, FourSeq
      <3> QED
        BY <3>1, <3>2, <3>3
    <2> QED
      BY <1>9, <2>1
  <1>11. PICK z : z = FlattenSeq(ss)
    OBVIOUS
  <1>12. ThirdOfFours(z, ss, n)
    BY <1>9, <1>10, <1>11, FoursJoined
  <1>13. IsSeq(z) /\ Len(z) = 4 * n /\ \A k \in 1..n : z[4 * k - 1] = N(emitSignedInt64(l[k]))
    BY <1>9, <1>10, <1>12 DEF ThirdOfFours
  <1>14. IsSeq(t) /\ Len(t) = 5 /\ t[1] = a /\ t[5] = f
    BY <1>5 DEF IsSeq
  <1>15. ASSUME ValuesAre(v, S) PROVE Said(mod, tys, inst.op, v) = Remains(inst)
    <2>1. ValuesAre(v, t \o z)
      BY <1>8, <1>11, <1>15
    <2>2. Len(v) = Len(t) + Len(z) /\ HoldsValues(v, 0, t) /\ HoldsValues(v, Len(t), z)
      BY <1>13, <1>14, <2>1, TwoHeld
    <2>3. v[1] = SwitchRecordHeader(l) /\ v[5] = n
      <3>1. v[0 + 1] = a.n /\ v[0 + 5] = f.n
        BY <1>14, <2>2 DEF HoldsValues
      <3> QED
        BY <1>5, <3>1 DEF N
    <2>4. ASSUME NEW k \in 1..n PROVE FromSigned(v[4 * k + 4]) = l[k]
      <3>1. 4 * k - 1 \in 1..Len(z) /\ 5 + (4 * k - 1) = 4 * k + 4
        BY <1>3, <1>13
      <3>2. v[5 + (4 * k - 1)] = z[4 * k - 1].n
        BY <1>14, <2>2, <3>1 DEF HoldsValues
      <3>3. v[4 * k + 4] = emitSignedInt64(l[k])
        <4>1. z[4 * k - 1] = N(emitSignedInt64(l[k]))
          BY <1>13
        <4>2. z[4 * k - 1].n = emitSignedInt64(l[k])
          BY <4>1 DEF N
        <4> QED
          BY <3>1, <3>2, <4>2
      <3>4. l[k] \in Integers64
        BY <1>4
      <3> QED
        BY <3>3, <3>4, SignedReads
    <2>5. PICK x : x = [k \in 1..n |-> FromSigned(v[4 * k + 4])]
      OBVIOUS
    <2>6. IsSeq(x) /\ Len(x) = n
      <3>1. DOMAIN x = 1..n /\ x = [k \in 1..n |-> x[k]]
        BY <2>5
      <3> QED
        BY <1>3, <3>1, TabulatedSeq
    <2>7. \A k \in 1..Len(x) : x[k] = l[k]
      BY <2>4, <2>5, <2>6
    <2>8. x = l
      BY <1>1, <1>2, <2>6, <2>7, SameSeq
    <2>9. v[1] \div 2 ^ 16 = 1205
      BY <1>2, <2>3, HeaderTells
    <2>10. Said(mod, tys, inst.op, v) = x
      BY <2>3, <2>5, <2>9 DEF Said
    <2>11. Remains(inst) = l
      BY <1>1 DEF Remains
    <2> QED
      BY <2>8, <2>10, <2>11
  <1> QED
    BY <1>1, <1>15 DEF Says

\* What an instruction of any kind says is read from its values.
LEMMA InstructionIsSaid ==
    ASSUME NEW mod, NEW tys, NEW inst, IsInstruction(mod, tys, inst), inst.op \in Saying,
           NEW v, v = [k \in DOMAIN Operands(mod, tys, inst) |-> Operands(mod, tys, inst)[k].n]
    PROVE  Said(mod, tys, inst.op, v) = Remains(inst)
  <1>1. ValuesAre(v, Operands(mod, tys, inst))
    <2>1. PICK S, args : S = Operands(mod, tys, inst) /\ args = Empty
      OBVIOUS
    <2>2. inst.op \notin Calls
      BY DEF Saying, Calls
    <2>3. Pushes(mod, tys, inst, args)
      BY <2>2, InstructionPushes
    <2>4. IsSeq(S)
      BY <2>1, <2>3 DEF Pushes, Fitting
    <2>5. v = [k \in DOMAIN S |-> S[k].n]
      BY <2>1
    <2> QED
      BY <2>1, <2>4, <2>5, MappedValues
  <1>2. Says(mod, tys, inst, v)
    <2>1. PICK o : o = inst.op
      OBVIOUS
    <2>2. o \in {"CAST", "BINOP", "LOAD", "STORE", "LOADATOMIC", "STOREATOMIC", "CMPXCHG", "ATOMICRMW", "FENCE", "SWITCH"}
      BY <2>1 DEF Saying
    <2> QED
      BY <2>1, <2>2, SaidByCast, SaidByBinop, SaidByLoad, SaidByStore, SaidByLoadAtomic, SaidByStoreAtomic,
         SaidByCmpXchg, SaidByRMW, SaidByFence, SaidBySwitch
  <1> QED
    BY <1>1, <1>2 DEF Says

------------------------------------------------------------------------------
(* The reader follows the writer.                                           *)

MetadataSoFar(needs, insts, i) == ~needs => \A k \in 1..(i - 1) : insts[k].mds = Empty
ReaderFollows ==
  /\ IsSeq(sent)
  /\ at # "insts" => Follows(R, at, M)
  /\ at \notin {"function", "insts"} \cup AfterModule => R.bodies = Empty
  /\ at = "function" => BodiesDone(R.bodies, M, F)
  /\ at \in AfterModule => BodiesDone(R.bodies, M, Len(M.functions) + 1)
  /\ at = "insts" => /\ BodyAt(R, M, F, I, LastDL) /\ MetadataSoFar(NeedsMetadataAttachment, Insts, I)
                     /\ InSync(R.tys, M, F, InstID, I)

LEMMA NothingFollows == ASSUME NEW mod PROVE Follows(Nothing, "file", mod) /\ Nothing.bodies = Empty
  <1>1. IsReader(Nothing)
    BY DEF IsReader, IsRecord, Fields, Nothing
  <1>2. /\ Nothing.open = Empty /\ Nothing.infos = Empty /\ Nothing.tys = Empty /\ Nothing.told = {}
        /\ Nothing.sections = Empty /\ Nothing.gcs = Empty /\ Nothing.tname = Empty /\ Nothing.bodies = Empty
    BY DEF Nothing, Empty
  <1>3. OpenAt(Nothing, "file")
    BY <1>1, <1>2 DEF OpenAt, AfterModule
  <1>4. Knows(Nothing, mod, DoneAt("file"))
    <2>1. \A f \in ModuleFields : Nothing[f] = Empty
      BY DEF ModuleFields, Nothing, Empty
    <2>2. DoneAt("file") = {}
      BY DEF DoneAt
    <2> QED
      BY <2>1, <2>2 DEF Knows
  <1>5. ToldRight({}, ModuleTypes(mod))
    BY DEF ToldRight
  <1>6. ValuesAt(Nothing, "file", mod)
    BY <1>2, <1>5 DEF ValuesAt, BeforeInfo, AfterConstants
  <1> QED
    BY <1>2, <1>3, <1>4, <1>6 DEF Follows

LEMMA WriteDebugLocIs == ASSUME NEW dl PROVE WriteDebugLoc(dl) = Locating(dl, LastDL)
  BY FunctionCodesAre DEF WriteDebugLoc, Locating

\* A step that sends items about the module as a whole.
LEMMA ModuleStep ==
    ASSUME NEW here, NEW next, NEW items, at = here, at' = next, sent' = items, M' = M,
           here \notin {"insts"}, next # "insts",
           Follows(R, here, M), Stage(R, items, here, next, M), Next_R(R, items, R')
    PROVE  Follows(R', at', M') /\ (R').bodies = R.bodies /\ IsSeq(items)
  <1>1. PICK z, q, mod : z = R' /\ q = R /\ mod = M
    OBVIOUS
  <1>2. Next_R(q, items, z) /\ Follows(q, here, mod) /\ Stage(q, items, here, next, mod)
    BY <1>1
  <1>3. Follows(z, next, mod) /\ z.bodies = q.bodies /\ IsSeq(items)
    BY <1>2, StageRead
  <1> QED
    BY <1>1, <1>3

\* The function whose body is written is defined.
LEMMA InFunctionIs ==
    ASSUME WriterInv, F <= Len(M.functions), at \in {"function", "insts"}
    PROVE  /\ IsModule(M) /\ F \in 1..Len(M.functions) /\ M.functions[F].isproto = 0 /\ IsSeq(M.functions)
           /\ IsBody(M, F) /\ Insts = M.bodies[F].insts /\ IsSeq(Insts) /\ DOMAIN Insts = 1..Len(Insts)
           /\ Len(Insts) \in Nat
  <1>1. IsModule(M) /\ IsSeq(M.functions)
    BY ModuleIs, SeqIs DEF WriterInv, IsModule
  <1>2. Len(M.functions) \in Nat /\ DOMAIN M.functions = 1..Len(M.functions)
    BY <1>1, SeqShape
  <1>3. F \in 1..Len(M.functions)
    BY <1>2 DEF WriterInv
  <1>4. M.functions[F].isproto = 0
    <2>1. M.functions[F] \in Functions(M)
      BY <1>1, <1>2, <1>3 DEF IsModule
    <2>2. M.functions[F].isproto \in {0, 1}
      BY <2>1 DEF Functions
    <2> QED
      BY <2>2 DEF WriterInv, isDeclaration
  <1>5. IsBody(M, F) /\ Insts = M.bodies[F].insts
    BY <1>1, <1>3, <1>4, FunctionTypesAre DEF Insts, Body
  <1>6. IsSeq(Insts)
    BY <1>5 DEF IsBody
  <1>7. DOMAIN Insts = 1..Len(Insts) /\ Len(Insts) \in Nat
    BY <1>6, SeqShape
  <1> QED
    BY <1>1, <1>3, <1>4, <1>5, <1>6, <1>7

LEMMA ReaderStarts == RInit => ReaderFollows
  <1>1. SUFFICES ASSUME RInit PROVE ReaderFollows
    OBVIOUS
  <1>2. at = "file" /\ R = Nothing /\ sent = Empty
    BY <1>1 DEF RInit, Init, Empty
  <1>3. IsSeq(sent)
    BY <1>2, NoneSeq
  <1> QED
    BY <1>2, <1>3, NothingFollows DEF ReaderFollows, AfterModule

\* From the one function that is defined to the next.
LEMMA BodiesToNext ==
    ASSUME NEW mod, IsModule(mod), M = mod, NEW f \in 1..(Len(mod.functions) + 1), NEW list, BodiesDone(list, mod, f)
    PROVE  BodiesDone(list, mod, NextBody(f))
  <1>1. IsSeq(mod.functions)
    BY SeqIs DEF IsModule
  <1>2. Len(mod.functions) \in Nat
    BY <1>1, SeqShape
  <1>3. PICK g : g = NextBody(f)
    OBVIOUS
  <1>4. f \in Nat \ {0} /\ f <= Len(M.functions) + 1 /\ IsSeq(M.functions)
    BY <1>1, <1>2
  <1>5. g \in f..(Len(mod.functions) + 1) /\ \A h \in f..(g - 1) : isDeclaration(h)
    BY <1>3, <1>4, NextBodyIs
  <1>6. \A h \in f..(g - 1) : mod.functions[h].isproto # 0
    BY <1>5 DEF isDeclaration
  <1>7. BodiesDone(list, mod, g)
    BY <1>1, <1>5, <1>6, BodiesSkip
  <1> QED
    BY <1>3, <1>7

LEMMA BeginFunctionReads ==
    ASSUME WriterInv, ReaderFollows, BeginFunction, Next_R(R, sent', R')
    PROVE  BodyAt(R', M', F', I', LastDL') /\ MetadataSoFar(NeedsMetadataAttachment', Insts', I')
           /\ InSync((R').tys, M', F', InstID', I') /\ IsSeq(sent')
  <1>1. /\ at = "function" /\ F <= Len(M.functions) /\ M' = M /\ F' = F /\ I' = 1 /\ LastDL' = Unknown
        /\ sent' = Beginning(M, Body, Types, CstEnd) /\ InstID' = CstEnd
    BY DEF BeginFunction, Write, Move, NoLocation, Beginning, FirstInstID
  <1>2. IsModule(M) /\ F \in 1..Len(M.functions) /\ M.functions[F].isproto = 0
    BY <1>1, InFunctionIs
  <1>3. Follows(R, "function", M) /\ BodiesDone(R.bodies, M, F)
    BY <1>1 DEF ReaderFollows
  <1>4. PICK z, items, last, mod, f, q : z = R' /\ items = sent' /\ last = CstEnd /\ mod = M /\ f = F /\ q = R
    OBVIOUS
  <1>5. BeginsBody(items, mod, f, last) /\ Next_R(q, items, z)
    BY <1>1, <1>4 DEF Body, Types, BeginsBody
  <1>6. StartedBody(z, mod, f) /\ IsSeq(items)
    BY <1>2, <1>3, <1>4, <1>5, BodyBegun
  <1>7. MetadataSoFar(NeedsMetadataAttachment', Insts', I')
    BY <1>1 DEF MetadataSoFar
  <1>8. InSync((R').tys, M', F', InstID', I')
    <2>1. PICK tys, id : tys = z.tys /\ id = last
      OBVIOUS
    <2>2. tys = FirstValues(mod, f) /\ id = Len(ModuleTypes(mod)) + Len(mod.bodies[f].args) + Len(mod.bodies[f].consts)
      BY <1>4, <1>6, <2>1 DEF StartedBody, CstEnd, Body
    <2>3. IsModule(mod) /\ f \in 1..Len(mod.functions) /\ mod.functions[f].isproto = 0
      BY <1>2, <1>4
    <2>4. InSync(tys, mod, f, id, 1)
      BY <2>2, <2>3, SyncStarts
    <2> QED
      BY <1>1, <1>4, <2>1, <2>4
  <1> QED
    BY <1>1, <1>4, <1>6, <1>7, <1>8 DEF StartedBody

\* What the step of the loop does to the reader.
LEMMA NextInstructionReads ==
    ASSUME WriterInv, ReaderFollows, WriteNextInstruction, Next_R(R, sent', R')
    PROVE  /\ BodyAt(R', M', F', I', LastDL') /\ MetadataSoFar(NeedsMetadataAttachment', Insts', I')
           /\ InSync((R').tys, M', F', InstID', I') /\ IsSeq(sent')
  <1>1. PICK inst, x, loc : inst = Insts[I] /\ x = WriteInstruction(M, Types, InstID, inst) /\ loc = WriteDebugLoc(inst.dl)
    OBVIOUS
  <1>2. /\ at = "insts" /\ I \in DOMAIN Insts /\ M' = M /\ F' = F /\ I' = I + 1
        /\ LastDL' = (IF inst.dl = Unknown THEN LastDL ELSE inst.dl)
        /\ NeedsMetadataAttachment' = (NeedsMetadataAttachment \/ inst.mds # <<>>)
        /\ sent' = <<x>> \o loc
        /\ InstID' = IF ~isVoid(M, inst.ty) THEN InstID + 1 ELSE InstID
    BY <1>1 DEF WriteNextInstruction, Write, Move, CountsValue
  <1>3. F <= Len(M.functions)
    BY <1>2 DEF WriterInv
  <1>4. /\ IsModule(M) /\ F \in 1..Len(M.functions) /\ M.functions[F].isproto = 0
        /\ IsBody(M, F) /\ Insts = M.bodies[F].insts /\ DOMAIN Insts = 1..Len(Insts) /\ Len(Insts) \in Nat
    BY <1>2, <1>3, InFunctionIs
  <1>5. IsInstruction(M, FunctionValueTypes(M, F), inst)
    BY <1>1, <1>2, <1>4 DEF IsBody
  <1>6. inst.op \in Opcodes /\ IsLocation(inst.dl)
    BY <1>5 DEF IsInstruction, IsLocation
  <1>7. x.item = "record" /\ x.code = FunctionCodes[inst.op]
    BY <1>1, RecordFields DEF WriteInstruction
  <1>8. loc = Locating(inst.dl, LastDL)
    BY <1>1, WriteDebugLocIs
  <1>9. PICK z, items, last, now, i : /\ z = R' /\ items = sent' /\ last = LastDL /\ now = LastDL' /\ i = I
    OBVIOUS
  <1>10. BodyAt(R, M, F, i, last) /\ MetadataSoFar(NeedsMetadataAttachment, Insts, i)
    BY <1>2, <1>9 DEF ReaderFollows
  <1>11. i \in Nat \ {0} /\ inst = M.bodies[F].insts[i] /\ i \in 1..Len(Insts)
    <2>1. i \in 1..Len(Insts)
      BY <1>2, <1>4, <1>9
    <2>2. inst = M.bodies[F].insts[i]
      BY <1>1, <1>4, <1>9
    <2> QED
      BY <1>4, <2>1, <2>2
  <1>12. /\ loc = Locating(inst.dl, last) /\ items = <<x>> \o loc /\ Next_R(R, items, z)
         /\ now = (IF inst.dl = Unknown THEN last ELSE inst.dl)
    BY <1>2, <1>8, <1>9
  <1>121. PICK mod, f, r, id, next : mod = M /\ f = F /\ r = R /\ id = InstID /\ next = InstID'
    OBVIOUS
  <1>122. InSync(r.tys, mod, f, id, i)
    BY <1>2, <1>9, <1>121 DEF ReaderFollows
  <1>123. /\ IsModule(mod) /\ f \in 1..Len(mod.functions) /\ mod.functions[f].isproto = 0
          /\ i \in 1..Len(mod.bodies[f].insts) /\ BodyAt(r, mod, f, i, last) /\ inst = mod.bodies[f].insts[i]
    BY <1>4, <1>10, <1>11, <1>121
  <1>124. Writes(x, mod, FunctionValueTypes(mod, f), id, inst)
    BY <1>1, <1>121, InstructionWrites DEF Types
  <1>125. ReadsRight(Place(mod, f), r, x, inst) /\ \A s : Like(s, r) => ReadsNext(s, mod, f, id, inst, x)
    BY <1>122, <1>123, <1>124, BodyReadsRight
  <1>126. Next_R(r, items, z)
    BY <1>12, <1>121
  <1>13. BodyAt(z, mod, f, i + 1, now) /\ IsSeq(items) /\ \E s : Like(s, r) /\ Grew(s, x, z)
    BY <1>6, <1>7, <1>11, <1>12, <1>123, <1>125, <1>126, BodyGoesOn
  <1>131. InSync(z.tys, mod, f, next, i + 1)
    <2>1. PICK s : Like(s, r) /\ Grew(s, x, z)
      BY <1>13
    <2>2. PICK ty, valued, tys, more : ty = ResultType(s, x) /\ valued = HasValue(s, ty) /\ tys = r.tys /\ more = z.tys
      OBVIOUS
    <2>3. s.tys = tys
      BY <2>1, <2>2, LikeFields
    <2>4. more = IF valued THEN Append(tys, ty) ELSE tys
      BY <2>1, <2>2, <2>3 DEF Grew
    <2>5. valued <=> ~isVoid(mod, inst.ty)
      BY <1>125, <2>1, <2>2 DEF ReadsNext
    <2>6. next = IF valued THEN id + 1 ELSE id
      BY <1>2, <1>121, <2>5
    <2>7. InSync(tys, mod, f, id, i)
      BY <1>122, <2>2
    <2>8. valued <=> ~isVoid(mod, mod.bodies[f].insts[i].ty)
      BY <1>123, <2>5
    <2>9. InSync(more, mod, f, next, i + 1)
      BY <1>123, <2>4, <2>6, <2>7, <2>8, SyncStays
    <2> QED
      BY <2>2, <2>9
  <1>14. MetadataSoFar(NeedsMetadataAttachment', Insts, i + 1)
    <2>1. SUFFICES ASSUME ~NeedsMetadataAttachment', NEW k \in 1..((i + 1) - 1) PROVE Insts[k].mds = Empty
      BY DEF MetadataSoFar
    <2>2. ~NeedsMetadataAttachment /\ inst.mds = Empty
      BY <1>2, <2>1 DEF Empty
    <2>3. k = i \/ k \in 1..(i - 1)
      BY <1>11
    <2> QED
      BY <1>1, <1>9, <1>10, <2>2, <2>3 DEF MetadataSoFar
  <1>15. Insts' = Insts
    BY <1>2 DEF Insts, Body
  <1> QED
    BY <1>1, <1>2, <1>9, <1>121, <1>13, <1>131, <1>14, <1>15

LEMMA WriteMetadataAttachmentIs ==
    ASSUME IsSeq(Insts)
    PROVE  WriteMetadataAttachment = AttachmentBlock(InstructionIDs, Insts)
  <1> DEFINE attachment(k) ==
               One(Insts[k].mds # <<>>,
                   Record(MetadataCodes.ATTACHMENT, <<InstructionIDs[k]>> \o FlattenSeq(Insts[k].mds), 0))
             list == [k \in DOMAIN Insts |-> k]
  <1>1. \A k : attachment(k) = AttachmentOf(k, InstructionIDs, Insts[k].mds)
    BY DEF AttachmentOf, AttachmentRecord, MetadataCodes
  <1>2. Flat(attachment, list) = FlattenSeq([k \in DOMAIN list |-> attachment(list[k])])
    BY DEF Flat, Map
  <1>3. [k \in DOMAIN list |-> attachment(list[k])] = AttachmentList(InstructionIDs, Insts)
    BY <1>1 DEF AttachmentList
  <1>4. WriteMetadataAttachment = <<Enter(BlockIDs.METADATA_ATTACHMENT, 3)>> \o Flat(attachment, list) \o <<Exit>>
    BY DEF WriteMetadataAttachment
  <1>5. BlockIDs.METADATA_ATTACHMENT = 16
    BY DEF BlockIDs
  <1> HIDE DEF attachment, list
  <1> QED
    BY <1>2, <1>3, <1>4, <1>5 DEF AttachmentBlock

LEMMA EndFunctionReads ==
    ASSUME WriterInv, ReaderFollows, EndFunction, Next_R(R, sent', R')
    PROVE  Follows(R', "function", M') /\ BodiesDone((R').bodies, M', F') /\ IsSeq(sent')
  <1>1. /\ at = "insts" /\ I > Len(Insts) /\ M' = M /\ F' = NextBody(F + 1)
        /\ sent' = WriteValueSymbolTable(Body.names)
                     \o (IF NeedsMetadataAttachment THEN WriteMetadataAttachment ELSE <<>>) \o <<Exit>>
    BY DEF EndFunction, Write, Move
  <1>2. F <= Len(M.functions) /\ I \in 1..(Len(Insts) + 1) /\ InstructionIDs = [k \in 1..(I - 1) |-> k - 1]
    BY <1>1 DEF WriterInv
  <1>3. /\ IsModule(M) /\ F \in 1..Len(M.functions) /\ M.functions[F].isproto = 0 /\ IsSeq(M.functions)
        /\ IsBody(M, F) /\ Insts = M.bodies[F].insts /\ IsSeq(Insts) /\ Len(Insts) \in Nat
    BY <1>1, <1>2, InFunctionIs
  <1>4. I = Len(Insts) + 1
    BY <1>1, <1>2, <1>3
  <1>5. PICK z, items, last, orig, names, ids, needs :
          /\ z = R' /\ items = sent' /\ last = LastDL /\ orig = Insts /\ names = Body.names
          /\ ids = InstructionIDs /\ needs = NeedsMetadataAttachment
    OBVIOUS
  <1>6. items = Ending(names, needs, ids, orig) /\ Next_R(R, items, z)
    <2>1. (IF NeedsMetadataAttachment THEN WriteMetadataAttachment ELSE <<>>)
            = Attached(NeedsMetadataAttachment, InstructionIDs, Insts)
      BY <1>3, WriteMetadataAttachmentIs DEF Attached
    <2> QED
      BY <1>1, <1>5, <2>1 DEF Ending
  <1>7. Numbered(ids, Len(orig))
    BY <1>2, <1>3, <1>4, <1>5 DEF Numbered
  <1>8. BodyAt(R, M, F, Len(orig) + 1, last) /\ MetadataSoFar(needs, orig, Len(orig) + 1)
    BY <1>1, <1>4, <1>5 DEF ReaderFollows
  <1>9. NoneUnless(needs, orig)
    <2>1. (Len(orig) + 1) - 1 = Len(orig)
      BY <1>3, <1>5
    <2> QED
      BY <1>8, <2>1 DEF NoneUnless, MetadataSoFar
  <1>10. orig = M.bodies[F].insts /\ names = M.bodies[F].names
    BY <1>3, <1>5 DEF Body
  <1>11. Follows(z, "function", M) /\ BodiesDone(z.bodies, M, F + 1) /\ IsSeq(items)
    BY <1>3, <1>6, <1>7, <1>8, <1>9, <1>10, BodyFinished
  <1>12. PICK f, list : f = F + 1 /\ list = z.bodies
    OBVIOUS
  <1>13. f \in 1..(Len(M.functions) + 1)
    <2>1. Len(M.functions) \in Nat
      BY <1>3, SeqShape
    <2> QED
      BY <1>3, <1>12, <2>1
  <1>14. BodiesDone(list, M, NextBody(f))
    BY <1>3, <1>11, <1>12, <1>13, BodiesToNext
  <1> QED
    BY <1>1, <1>5, <1>11, <1>12, <1>14

LEMMA EndFileReads ==
    ASSUME NEW mod, NEW q, Follows(q, "trailer", mod)
    PROVE  Stage(q, Empty, "trailer", "done", mod)
  <1>1. Reads(q, Empty, q)
    BY ReadsNone
  <1>2. IsReader(q) /\ Knows(q, mod, DoneAt("trailer")) /\ OpenAt(q, "trailer") /\ ValuesAt(q, "trailer", mod)
    BY FollowsIs
  <1>3. Knows(q, mod, DoneAt("done"))
    BY <1>2 DEF DoneAt
  <1>4. OpenAt(q, "done")
    BY <1>2 DEF OpenAt, AfterModule
  <1>5. ValuesAt(q, "done", mod)
    BY <1>2 DEF ValuesAt, BeforeInfo, AfterConstants
  <1> QED
    BY <1>1, <1>2, <1>3, <1>4, <1>5 DEF Stage, Follows

LEMMA ReaderStays == WriterInv /\ ReaderFollows /\ [RNext]_<<vars, R>> => ReaderFollows'
  <1> SUFFICES ASSUME WriterInv, ReaderFollows, [RNext]_<<vars, R>> PROVE ReaderFollows'
    OBVIOUS
  <1>m. IsModule(M)
    BY ModuleIs DEF WriterInv
  <1>1. CASE UNCHANGED <<vars, R>>
    BY <1>1 DEF vars, writer, ReaderFollows, Insts, Body
  <1> SUFFICES ASSUME RNext PROVE ReaderFollows'
    BY <1>1
  <1>2. Next_R(R, sent', R')
    BY DEF RNext, Next_R
  \* What is written of the module as a whole.
  <1>3. ASSUME NEW here, NEW next, Move(here, next, sent'), here # "insts", next \notin {"function", "insts"},
               here \in {"function"} \cup AfterModule <=> next \in AfterModule,
               here = "function" => F > Len(M.functions),
               Stage(R, sent', here, next, M)
        PROVE  ReaderFollows'
    <2>1. at = here /\ at' = next /\ M' = M
      BY <1>3 DEF Move
    <2>2. Follows(R, here, M)
      BY <1>3, <2>1 DEF ReaderFollows
    <2>3. Follows(R', at', M') /\ (R').bodies = R.bodies /\ IsSeq(sent')
      BY <1>2, <1>3, <2>1, <2>2, ModuleStep
    <2>4. at' \notin AfterModule => R.bodies = Empty
      BY <1>3, <2>1 DEF ReaderFollows
    <2>5. at' \in AfterModule => BodiesDone(R.bodies, M, Len(M.functions) + 1)
      <3>1. CASE here \in AfterModule
        BY <2>1, <3>1 DEF ReaderFollows, AfterModule
      <3>2. CASE here = "function"
        <4>1. BodiesDone(R.bodies, M, F)
          BY <2>1, <3>2 DEF ReaderFollows
        <4>2. F = Len(M.functions) + 1
          <5>1. IsSeq(M.functions)
            BY <1>m, SeqIs DEF IsModule
          <5>2. Len(M.functions) \in Nat
            BY <5>1, SeqShape
          <5> QED
            BY <1>3, <3>2, <5>2 DEF WriterInv
        <4> QED
          BY <4>1, <4>2
      <3> QED
        BY <1>3, <2>1, <3>1, <3>2
    <2> QED
      BY <1>3, <2>1, <2>3, <2>4, <2>5 DEF ReaderFollows
  <1>4. ASSUME NEW here, at = here, here # "insts" PROVE Follows(R, here, M)
    BY <1>4 DEF ReaderFollows
  <1>5. CASE BeginFile
    <2>1. Move("file", "module", sent') /\ sent' = <<Magic>> /\ at = "file"
      BY <1>5 DEF BeginFile, Move
    <2>2. Stage(R, sent', "file", "module", M)
      BY <1>4, <2>1, BeginFileReads
    <2> QED
      BY <1>3, <2>1, <2>2 DEF AfterModule
  <1>6. CASE BeginModule
    <2>1. /\ Move("module", "blockinfo", sent') /\ at = "module"
          /\ sent' = <<Enter(BlockIDs.MODULE_BLOCK, 3), Record(ModuleCodes.VERSION, <<1>>, 0)>>
      BY <1>6 DEF BeginModule, Write, Move
    <2>2. Stage(R, sent', "module", "blockinfo", M)
      BY <1>4, <2>1, BeginModuleReads
    <2> QED
      BY <1>3, <2>1, <2>2 DEF AfterModule
  <1>7. CASE WriteStandardAbbrevs
    <2>1. Move("blockinfo", "attributes", sent') /\ sent' = WriteBlockInfo(M) /\ at = "blockinfo"
      BY <1>7 DEF WriteStandardAbbrevs, Write, Move
    <2>2. Stage(R, sent', "blockinfo", "attributes", M)
      BY <1>4, <2>1, StandardAbbrevsRead
    <2> QED
      BY <1>3, <2>1, <2>2 DEF AfterModule
  <1>8. CASE WriteAttributes
    <2>1. Move("attributes", "types", sent') /\ sent' = WriteAttributeTable(M) /\ at = "attributes"
      BY <1>8 DEF WriteAttributes, Write, Move
    <2>2. Stage(R, sent', "attributes", "types", M)
      BY <1>m, <1>4, <2>1, AttributesStage
    <2> QED
      BY <1>3, <2>1, <2>2 DEF AfterModule
  <1>9. CASE WriteTypes
    <2>1. Move("types", "info", sent') /\ sent' = WriteTypeTable(M) /\ at = "types"
      BY <1>9 DEF WriteTypes, Write, Move
    <2>2. Stage(R, sent', "types", "info", M)
      BY <1>m, <1>4, <2>1, TypesStage
    <2> QED
      BY <1>3, <2>1, <2>2 DEF AfterModule
  <1>10. CASE WriteInfo
    <2>1. Move("info", "constants", sent') /\ sent' = WriteModuleInfo(M) /\ at = "info"
      BY <1>10 DEF WriteInfo, Write, Move
    <2>2. Stage(R, sent', "info", "constants", M)
      BY <1>m, <1>4, <2>1, InfoStage
    <2> QED
      BY <1>3, <2>1, <2>2 DEF AfterModule
  <1>11. CASE WriteGlobalConstants
    <2>1. Move("constants", "metadata", sent') /\ sent' = WriteModuleConstants(M) /\ at = "constants"
      BY <1>11 DEF WriteGlobalConstants, Write, Move
    <2>2. Stage(R, sent', "constants", "metadata", M)
      BY <1>m, <1>4, <2>1, ConstantsStage
    <2> QED
      BY <1>3, <2>1, <2>2 DEF AfterModule
  <1>12. CASE WriteMetadata
    <2>1. Move("metadata", "kinds", sent') /\ sent' = WriteModuleMetadata(M) /\ at = "metadata"
      BY <1>12 DEF WriteMetadata, Write, Move
    <2>2. Stage(R, sent', "metadata", "kinds", M)
      BY <1>m, <1>4, <2>1, MetadataStage
    <2> QED
      BY <1>3, <2>1, <2>2 DEF AfterModule
  <1>13. CASE WriteMetadataKinds
    <2>1. Move("kinds", "names", sent') /\ sent' = WriteModuleMetadataStore(M) /\ at = "kinds"
      BY <1>13 DEF WriteMetadataKinds, Write, Move
    <2>2. Stage(R, sent', "kinds", "names", M)
      BY <1>m, <1>4, <2>1, KindsStage
    <2> QED
      BY <1>3, <2>1, <2>2 DEF AfterModule
  <1>14. CASE WriteGlobalNames
    <2>1. Move("names", "uselists", sent') /\ sent' = WriteValueSymbolTable(M.names) /\ at = "names"
      BY <1>14 DEF WriteGlobalNames, Write, Move
    <2>2. Stage(R, sent', "names", "uselists", M)
      BY <1>m, <1>4, <2>1, NamesStage
    <2> QED
      BY <1>3, <2>1, <2>2 DEF AfterModule
  <1>15. CASE WriteUseLists
    <2>1. /\ at = "uselists" /\ at' = "function" /\ M' = M /\ F' = NextBody(1)
          /\ sent' = WriteModuleUseLists(M)
      BY <1>15 DEF WriteUseLists, Write, Move
    <2>2. Stage(R, sent', "uselists", "function", M)
      BY <1>m, <1>4, <2>1, UseListsStage
    <2>3. Follows(R', at', M') /\ (R').bodies = R.bodies /\ IsSeq(sent')
      BY <1>2, <1>4, <2>1, <2>2, ModuleStep
    <2>4. PICK list, f : list = R.bodies /\ f = 1
      OBVIOUS
    <2>5. list = Empty
      BY <2>1, <2>4 DEF ReaderFollows, AfterModule
    <2>6. IsSeq(M.functions)
      BY <1>m, SeqIs DEF IsModule
    <2>7. f \in 1..(Len(M.functions) + 1)
      <3>1. Len(M.functions) \in Nat
        BY <2>6, SeqShape
      <3> QED
        BY <2>4, <3>1
    <2>8. BodiesDone(list, M, f)
      BY <2>4, <2>5, <2>6, NoBodies
    <2>9. BodiesDone(list, M, NextBody(f))
      BY <1>m, <2>7, <2>8, BodiesToNext
    <2> QED
      BY <2>1, <2>3, <2>4, <2>9 DEF ReaderFollows, AfterModule
  <1>16. CASE BeginFunction
    <2>1. at' = "insts" /\ M' = M
      BY <1>16 DEF BeginFunction, Write, Move
    <2>2. /\ BodyAt(R', M', F', I', LastDL') /\ MetadataSoFar(NeedsMetadataAttachment', Insts', I')
          /\ InSync((R').tys, M', F', InstID', I') /\ IsSeq(sent')
      BY <1>2, <1>16, BeginFunctionReads
    <2> QED
      BY <2>1, <2>2 DEF ReaderFollows, AfterModule
  <1>17. CASE WriteNextInstruction
    <2>1. at' = "insts" /\ M' = M
      BY <1>17 DEF WriteNextInstruction, Write, Move
    <2>2. /\ BodyAt(R', M', F', I', LastDL') /\ MetadataSoFar(NeedsMetadataAttachment', Insts', I')
          /\ InSync((R').tys, M', F', InstID', I') /\ IsSeq(sent')
      BY <1>2, <1>17, NextInstructionReads
    <2> QED
      BY <2>1, <2>2 DEF ReaderFollows, AfterModule
  <1>18. CASE EndFunction
    <2>1. at' = "function" /\ M' = M
      BY <1>18 DEF EndFunction, Write, Move
    <2>2. Follows(R', "function", M') /\ BodiesDone((R').bodies, M', F') /\ IsSeq(sent')
      BY <1>2, <1>18, EndFunctionReads
    <2> QED
      BY <2>1, <2>2 DEF ReaderFollows, AfterModule
  <1>19. CASE EndModule
    <2>1. Move("function", "trailer", sent') /\ sent' = <<Exit>> /\ at = "function" /\ F > Len(M.functions)
      BY <1>19 DEF EndModule, Write, Move
    <2>2. Stage(R, sent', "function", "trailer", M)
      BY <1>m, <1>4, <2>1, EndModuleReads
    <2> QED
      BY <1>3, <2>1, <2>2 DEF AfterModule
  <1>20. CASE EndFile
    <2>1. Move("trailer", "done", sent') /\ sent' = <<>> /\ at = "trailer"
      BY <1>20 DEF EndFile, Move
    <2>2. Stage(R, sent', "trailer", "done", M)
      BY <1>4, <2>1, EndFileReads DEF Empty
    <2> QED
      BY <1>3, <2>1, <2>2 DEF AfterModule
  <1> QED
    BY <1>5, <1>6, <1>7, <1>8, <1>9, <1>10, <1>11, <1>12, <1>13, <1>14, <1>15, <1>16, <1>17, <1>18, <1>19, <1>20
      DEF RNext, Next

(* The inductive invariant: after every call, the reader of what was sent  *)
(* knows the part of the module the calls so far have written              *)
(* (WriteModule, SpirBitcodeWriter.cpp:1812-1859, and WriteFunction,       *)
(* 1490-1559).                                                             *)
THEOREM ReaderFollowsWriter == RSpec => [](WriterInv /\ ReaderFollows)
  BY WriterStarts, WriterStays, ReaderStarts, ReaderStays, PTL DEF RSpec

(* The writer's number for the next value is the reader's, which is the    *)
(* number of the values it has: both count an instruction if and only if   *)
(* it has a value, the reader by the type the record or the callee gives   *)
(* (SpirBitcodeWriter.cpp:1513-1541).                                      *)
THEOREM NumbersInLockstep == RSpec => []Lockstep
  <1>1. WriterInv /\ ReaderFollows => Lockstep
    BY DEF ReaderFollows, InSync, Lockstep
  <1> QED
    BY <1>1, ReaderFollowsWriter, PTL

(* What is written outside of the bodies is read back: the tables of       *)
(* attributes and types, globals, functions and aliases with their         *)
(* sections, collectors and alignments, constants, metadata and names, and *)
(* no operand of a constant is told a type that is not its own             *)
(* (SpirBitcodeWriter.cpp:84-127, 180-571, 591-674, 729-1047, 1432-1487).  *)
THEOREM ModuleIsReadBack == RSpec => []ModuleReadBack
  <1>1. WriterInv /\ ReaderFollows => ModuleReadBack
    <2> SUFFICES ASSUME ReaderFollows, Readable PROVE ModuleReadBack
      BY DEF ModuleReadBack
    <2>1. Follows(R, "done", M)
      BY DEF Readable, ReaderFollows
    <2>2. \A f \in ModuleFields : R[f] = PartOf(M, f)
      <3>1. Knows(R, M, DoneAt("done")) /\ DoneAt("done") = ModuleFields
        BY <2>1, FollowsIs DEF DoneAt
      <3> QED
        BY <3>1 DEF Knows
    <2>3. R.attrs = Map(LAMBDA A : Map(LAMBDA a : [a EXCEPT !.align = @ % 2 ^ Half], A), M.attrs)
      <3>1. R.attrs = Map(AttributesRead, M.attrs)
        BY <2>2 DEF ModuleFields, PartOf
      <3> QED
        BY <3>1, Zenon DEF AttributesRead, AttributeRead, Map
    <2>4. ASSUME NEW part \in {"types", "triple", "asm", "globals", "functions", "aliases", "consts", "mds",
                               "named", "names"}
          PROVE  R[part] = M[part]
      BY <2>2, <2>4 DEF ModuleFields, PartOf
    <2>5. R.layout = IF M.layout = <<>> THEN <<>> ELSE DataLayoutOf(M)
      BY <2>2 DEF ModuleFields, PartOf, Text, Empty
    <2>6. R.kinds = [k \in DOMAIN M.kinds |-> <<k - 1, M.kinds[k]>>]
      BY <2>2 DEF ModuleFields, PartOf, KindsRead
    <2>7. ToldRight(R.told, ModuleTypes(M))
      <3>1. ValuesAt(R, "done", M)
        BY <2>1 DEF Follows
      <3> QED
        BY <3>1 DEF ValuesAt
    <2> QED
      BY <2>3, <2>4, <2>5, <2>6, <2>7 DEF ModuleReadBack
  <1> QED
    BY <1>1, ReaderFollowsWriter, PTL

LEMMA KeptAlike ==
    ASSUME NEW n \in Nat, NEW T, NEW a, NEW c, NEW P, NEW Q, KeptUpTo(P, a, T, n), KeptUpTo(Q, c, T, n)
    PROVE  \A k \in 0..n : Len(P[k]) = Len(Q[k])
  <1> DEFINE A(k) == k <= n => Len(P[k]) = Len(Q[k])
  <1>1. A(0)
    BY DEF KeptUpTo
  <1>2. ASSUME NEW k \in Nat, A(k) PROVE A(k + 1)
    <2>1. SUFFICES ASSUME k + 1 <= n PROVE Len(P[k + 1]) = Len(Q[k + 1])
      OBVIOUS
    <2>2. PICK h : h = k + 1
      OBVIOUS
    <2>3. h \in 1..n /\ h - 1 = k /\ k \in 0..n /\ Len(P[k]) = Len(Q[k])
      BY <1>2, <2>1, <2>2
    <2>4. IsSeq(P[k]) /\ IsSeq(Q[k])
      BY <2>3 DEF KeptUpTo
    <2>5. CASE h \in T
      <3>1. P[h] = Append(P[k], a[h]) /\ Q[h] = Append(Q[k], c[h])
        BY <2>3, <2>5 DEF KeptUpTo
      <3>2. Len(Append(P[k], a[h])) = Len(P[k]) + 1 /\ Len(Append(Q[k], c[h])) = Len(Q[k]) + 1
        BY <2>4, AppendShape
      <3> QED
        BY <2>2, <2>3, <3>1, <3>2
    <2>6. CASE h \notin T
      <3>1. P[h] = P[k] /\ Q[h] = Q[k]
        BY <2>3, <2>6 DEF KeptUpTo
      <3> QED
        BY <2>2, <2>3, <3>1
    <2> QED
      BY <2>5, <2>6
  <1> HIDE DEF A
  <1>3. \A k \in Nat : A(k)
    <2> DEFINE S == {k \in Nat : A(k)}
    <2>1. 0 \in S /\ \A k \in Nat : k \in S => k + 1 \in S
      BY <1>1, <1>2
    <2> HIDE DEF S
    <2>2. Nat \subseteq S
      BY <2>1, NatSetInduction
    <2> QED
      BY <2>2 DEF S
  <1> QED
    BY <1>3 DEF A

\* The functions that have a body, in their order.
LEMMA DefinedInOrder ==
    ASSUME NEW mod, mod = M, IsModule(mod), NEW fs, fs = mod.functions, NEW n, n = Len(fs),
           NEW list, list = [f \in DOMAIN fs |-> f]
    PROVE  \E Q : KeptUpTo(Q, list, DefinedAt(fs), n) /\ Defined = Q[n]
  <1>1. PICK T : T = DefinedAt(fs)
    OBVIOUS
  <1>2. IsSeq(fs) /\ fs \in Seq(Functions(mod))
    BY <1>1, SeqIs DEF IsModule
  <1>3. DOMAIN fs = 1..n /\ n \in Nat
    BY <1>1, <1>2, SeqShape
  <1>6. \A k \in 1..n : list[k] = k
    BY <1>3
  <1> DEFINE ss == [k \in DOMAIN list |-> IF ~isDeclaration(list[k]) THEN <<list[k]>> ELSE Empty]
  <1>4. DOMAIN ss = 1..n /\ ss = [k \in DOMAIN ss |-> ss[k]]
    BY <1>3
  <1>5. ASSUME NEW k \in 1..n PROVE ss[k] = IF k \in T THEN <<list[k]>> ELSE Empty
    <2>1. fs[k] \in Functions(mod)
      BY <1>2, <1>3
    <2>2. fs[k].isproto \in {0, 1}
      BY <2>1 DEF Functions
    <2>3. ~isDeclaration(k) <=> k \in T
      BY <1>1, <1>3, <2>2 DEF isDeclaration, DefinedAt
    <2> QED
      BY <1>3, <1>6, <2>3
  <1>7. Defined = FlattenSeq(ss)
    BY DEF Defined, Kept, Flat, Map, One, Empty
  <1> HIDE DEF ss
  <1>8. IsSeq(ss) /\ Len(ss) = n
    BY <1>3, <1>4, TabulatedSeq
  <1>9. PICK seq, zs : seq = list /\ zs = ss
    OBVIOUS
  <1>10. IsSeq(zs) /\ Len(zs) = n
    BY <1>8, <1>9
  <1>11. \A k \in 1..Len(zs) : zs[k] = (IF k \in T THEN <<seq[k]>> ELSE Empty)
    BY <1>5, <1>9, <1>10
  <1>12. \E Q : KeptUpTo(Q, seq, T, Len(zs)) /\ FlattenSeq(zs) = Q[Len(zs)]
    BY <1>10, <1>11, KeptJoined
  <1> QED
    BY <1>1, <1>7, <1>9, <1>10, <1>12

\* There are as many bodies as the records of the functions make one expect.
LEMMA DefinedCount ==
    ASSUME NEW mod, mod = M, IsModule(mod), NEW fs, fs = mod.functions, NEW n, n = Len(fs)
    PROVE  IsSeq(Defined) /\ Len(Defined) = BodiesBefore(fs, n + 1)
  <1>1. PICK T, P, list : T = DefinedAt(fs) /\ P = Order(fs) /\ list = [f \in DOMAIN fs |-> f]
    OBVIOUS
  <1>2. IsSeq(fs)
    BY SeqIs DEF IsModule
  <1>3. n \in Nat
    BY <1>2, SeqShape
  <1>4. PICK Q : KeptUpTo(Q, list, T, n) /\ Defined = Q[n]
    BY <1>1, DefinedInOrder
  <1>5. KeptUpTo(P, fs, T, n)
    BY <1>1, <1>2, OrderIs DEF InOrder
  <1>6. \A k \in 0..n : Len(Q[k]) = Len(P[k])
    BY <1>3, <1>4, <1>5, KeptAlike
  <1>7. n \in 0..n /\ (n + 1) - 1 = n
    BY <1>3
  <1> QED
    BY <1>1, <1>4, <1>6, <1>7 DEF KeptUpTo, BodiesBefore

\* The function of every body, and its place among the functions.
LEMMA DefinedIs ==
    ASSUME NEW mod, mod = M, IsModule(mod), NEW b \in DOMAIN Defined
    PROVE  \E g \in 1..Len(mod.functions) :
             mod.functions[g].isproto = 0 /\ Defined[b] = g /\ b = BodiesBefore(mod.functions, g) + 1
  <1>1. PICK fs, n, T, P, list : /\ fs = mod.functions /\ n = Len(fs) /\ T = DefinedAt(fs) /\ P = Order(fs)
                                 /\ list = [f \in DOMAIN fs |-> f]
    OBVIOUS
  <1>2. IsSeq(fs)
    BY <1>1, SeqIs DEF IsModule
  <1>3. DOMAIN fs = 1..n /\ n \in Nat
    BY <1>1, <1>2, SeqShape
  <1>6. \A k \in 1..n : list[k] = k
    BY <1>1, <1>3
  <1>10. PICK Q : KeptUpTo(Q, list, T, n) /\ Defined = Q[n]
    BY <1>1, DefinedInOrder
  <1>11. KeptFrom(Q, list, T, n)
    BY <1>3, <1>10, KeptShape
  <1>12. KeptUpTo(P, fs, T, n)
    BY <1>1, <1>2, OrderIs DEF InOrder
  <1>13. \A k \in 0..n : Len(Q[k]) = Len(P[k])
    BY <1>3, <1>10, <1>12, KeptAlike
  <1>14. b \in 1..Len(Q[n])
    <2>1. IsSeq(Q[n])
      BY <1>3, <1>10 DEF KeptUpTo
    <2>2. DOMAIN Q[n] = 1..Len(Q[n])
      BY <2>1, SeqShape
    <2> QED
      BY <1>10, <2>2
  <1>15. PICK g \in 1..n : g \in T /\ b = Len(Q[g - 1]) + 1
    BY <1>3, <1>11, <1>14 DEF KeptFrom
  <1>16. Q[n][b] = list[g]
    BY <1>3, <1>11, <1>15 DEF KeptFrom
  <1>17. g - 1 \in 0..n
    BY <1>3
  <1>18. b = BodiesBefore(fs, g) + 1
    BY <1>1, <1>13, <1>15, <1>17 DEF BodiesBefore
  <1>19. fs[g].isproto = 0
    BY <1>1, <1>15 DEF DefinedAt
  <1> QED
    BY <1>1, <1>6, <1>10, <1>16, <1>18, <1>19

(* Each instruction of each body is given the debug location and the       *)
(* metadata it had: "the same location again" is never that of another     *)
(* function, and an attachment never names another instruction             *)
(* (SpirBitcodeWriter.cpp:696-727, 1513-1556).                             *)
THEOREM LocationsAreReadBack == RSpec => []LocationsReadBack
  <1>1. WriterInv /\ ReaderFollows => LocationsReadBack
    <2> SUFFICES ASSUME WriterInv, ReaderFollows, Readable, NEW b \in DOMAIN Defined,
                        NEW k \in DOMAIN M.bodies[Defined[b]].insts
                 PROVE  /\ R.bodies[b].insts[k].dl = M.bodies[Defined[b]].insts[k].dl
                        /\ R.bodies[b].insts[k].mds = M.bodies[Defined[b]].insts[k].mds
      BY DEF LocationsReadBack
    <2>1. PICK mod, n : mod = M /\ n = Len(mod.functions)
      OBVIOUS
    <2>2. IsModule(mod) /\ IsSeq(mod.functions)
      BY <2>1, ModuleIs, SeqIs DEF WriterInv, IsModule
    <2>3. n \in Nat
      BY <2>1, <2>2, SeqShape
    <2>4. BodiesDone(R.bodies, mod, n + 1)
      BY <2>1 DEF Readable, ReaderFollows, AfterModule
    <2>5. PICK g \in 1..n : mod.functions[g].isproto = 0 /\ Defined[b] = g /\ b = BodiesBefore(mod.functions, g) + 1
      BY <2>1, <2>2, DefinedIs
    <2>6. g \in 1..((n + 1) - 1)
      BY <2>3
    <2>7. BodyIs(R.bodies[b], mod, g)
      BY <2>4, <2>5, <2>6 DEF BodiesDone
    <2>8. PICK body, orig, u : body = mod.bodies[g] /\ orig = body.insts /\ u = R.bodies[b]
      OBVIOUS
    <2>9. InstsDone(Place(mod, g), u.insts, orig)
      BY <2>7, <2>8 DEF BodyIs, BodyDone
    <2>10. IsSeq(orig)
      BY <2>1, <2>2, <2>5, <2>8, FunctionTypesAre DEF IsBody
    <2>11. k \in 1..Len(orig)
      BY <2>1, <2>5, <2>8, <2>10, SeqShape
    <2>12. InstIs(Place(mod, g), u.insts[k], orig[k], orig[k].mds)
      BY <2>9, <2>11 DEF InstsDone
    <2> QED
      BY <2>1, <2>5, <2>8, <2>12 DEF InstIs
  <1> QED
    BY <1>1, ReaderFollowsWriter, PTL

(* Every body is read back: its arguments, blocks, constants, local        *)
(* metadata and names, and each instruction with the operands it had,      *)
(* found from relative numbers, and its opcode, flags, alignment, ordering *)
(* and cases; a type told with an operand is the operand's                 *)
(* (SpirBitcodeWriter.cpp:84-165, 573-589, 1057-1092, 1095-1429,           *)
(* 1490-1559).                                                             *)
THEOREM BodiesAreReadBack == RSpec => []BodiesReadBack
  <1>1. WriterInv /\ ReaderFollows => BodiesReadBack
    <2> SUFFICES ASSUME WriterInv, ReaderFollows, Readable PROVE BodiesReadBack
      BY DEF BodiesReadBack
    <2>1. PICK mod, n : mod = M /\ n = Len(mod.functions)
      OBVIOUS
    <2>2. IsModule(mod) /\ IsSeq(mod.functions)
      BY <2>1, ModuleIs, SeqIs DEF WriterInv, IsModule
    <2>3. n \in Nat
      BY <2>1, <2>2, SeqShape
    <2>4. BodiesDone(R.bodies, mod, n + 1)
      BY <2>1 DEF Readable, ReaderFollows, AfterModule
    <2>5. Len(R.bodies) = Len(Defined)
      <3>1. IsSeq(Defined) /\ Len(Defined) = BodiesBefore(mod.functions, n + 1)
        BY <2>1, <2>2, DefinedCount
      <3> QED
        BY <2>4, <3>1 DEF BodiesDone
    <2>6. ASSUME NEW b \in DOMAIN Defined, NEW body, body = M.bodies[Defined[b]], NEW u, u = R.bodies[b],
                 NEW tys, tys = FunctionValueTypes(M, Defined[b])
          PROVE  /\ \A part \in {"args", "blocks", "consts", "local", "names"} : u[part] = body[part]
                 /\ ToldRight(u.told, tys)
                 /\ Len(u.insts) = Len(body.insts)
                 /\ \A k \in DOMAIN body.insts :
                      LET inst == body.insts[k]
                      IN /\ u.insts[k].is = inst.op
                         /\ inst.op \in Saying => Said(M, tys, inst.op, u.insts[k].values) = Remains(inst)
                         /\ u.insts[k].values = Map(LAMBDA s : s.n, Operands(M, tys, inst))
                         /\ ToldRight(u.insts[k].told, tys)
      <3>1. PICK g \in 1..n : mod.functions[g].isproto = 0 /\ Defined[b] = g /\ b = BodiesBefore(mod.functions, g) + 1
        BY <2>1, <2>2, DefinedIs
      <3>2. g \in 1..((n + 1) - 1)
        BY <2>3
      <3>3. BodyIs(R.bodies[b], mod, g)
        BY <2>4, <3>1, <3>2 DEF BodiesDone
      <3>4. body = mod.bodies[g] /\ tys = FunctionValueTypes(mod, g)
        BY <2>1, <2>6, <3>1
      <3>5. BodyDone(Place(mod, g), u, body) /\ ToldRight(u.told, tys)
        BY <2>6, <3>3, <3>4 DEF BodyIs
      <3>6. BodyStart(u, body) /\ u.names = body.names /\ InstsDone(Place(mod, g), u.insts, body.insts)
        BY <3>5 DEF BodyDone
      <3>7. \A part \in {"args", "blocks", "consts", "local", "names"} : u[part] = body[part]
        BY <3>6 DEF BodyStart
      <3>8. IsBody(mod, g)
        BY <2>1, <2>2, <3>1, FunctionTypesAre
      <3>9. IsSeq(body.insts) /\ \A k \in DOMAIN body.insts : IsInstruction(mod, tys, body.insts[k])
        BY <3>4, <3>8 DEF IsBody
      <3>10. Len(u.insts) = Len(body.insts) /\ DOMAIN body.insts = 1..Len(body.insts)
        BY <3>6, <3>9, SeqShape DEF InstsDone
      <3>11. ASSUME NEW k \in DOMAIN body.insts, NEW inst, inst = body.insts[k], NEW e, e = u.insts[k]
             PROVE  /\ e.is = inst.op
                    /\ inst.op \in Saying => Said(M, tys, inst.op, e.values) = Remains(inst)
                    /\ e.values = Map(LAMBDA s : s.n, Operands(M, tys, inst))
                    /\ ToldRight(e.told, tys)
        <4>1. InstIs(Place(mod, g), e, inst, inst.mds)
          BY <3>6, <3>10, <3>11 DEF InstsDone
        <4>2. e.is = inst.op /\ Right(Place(mod, g), e, inst)
          BY <4>1 DEF InstIs
        <4>3. Place(mod, g).mod = mod /\ Place(mod, g).f = g
          BY DEF Place
        <4>4. e.values = Map(LAMBDA s : s.n, Operands(mod, tys, inst)) /\ ToldRight(e.told, tys)
          BY <3>4, <4>2, <4>3 DEF Right
        <4>5. ASSUME inst.op \in Saying PROVE Said(mod, tys, inst.op, e.values) = Remains(inst)
          <5>1. IsInstruction(mod, tys, inst)
            BY <3>9, <3>11
          <5>2. PICK v : v = e.values
            OBVIOUS
          <5>3. v = [k1 \in DOMAIN Operands(mod, tys, inst) |-> Operands(mod, tys, inst)[k1].n]
            BY <4>4, <5>2 DEF Map
          <5>4. Said(mod, tys, inst.op, v) = Remains(inst)
            BY <4>5, <5>1, <5>3, InstructionIsSaid
          <5> QED
            BY <5>2, <5>4
        <4> QED
          BY <2>1, <4>2, <4>4, <4>5
      <3> QED
        BY <3>5, <3>7, <3>10, <3>11
    <2> QED
      BY <2>5, <2>6 DEF BodiesReadBack
  <1> QED
    BY <1>1, ReaderFollowsWriter, PTL

------------------------------------------------------------------------------
(* The file around the stream.                                              *)

LEMMA EightMore == ASSUME NEW n \in Nat PROVE 2 ^ (n + 8) = 256 * 2 ^ n
  <1>1. 2 ^ n \in Nat
    BY PowerNat
  <1>2. 2 ^ (n + 1) = 2 * 2 ^ n
    BY PowerStep
  <1>3. 2 ^ (n + 2) = 4 * 2 ^ n
    <2>1. n + 1 \in Nat /\ (n + 1) + 1 = n + 2
      OBVIOUS
    <2>2. 2 ^ ((n + 1) + 1) = 2 * 2 ^ (n + 1)
      BY <2>1, PowerStep
    <2> QED
      BY <1>1, <1>2, <2>1, <2>2
  <1>4. 2 ^ (n + 4) = 16 * 2 ^ n
    <2>1. n + 2 \in Nat /\ n + 3 \in Nat /\ (n + 2) + 1 = n + 3 /\ (n + 3) + 1 = n + 4
      OBVIOUS
    <2>2. 2 ^ ((n + 2) + 1) = 2 * 2 ^ (n + 2)
      BY <2>1, PowerStep
    <2>3. 2 ^ ((n + 3) + 1) = 2 * 2 ^ (n + 3)
      BY <2>1, PowerStep
    <2> QED
      BY <1>1, <1>3, <2>1, <2>2, <2>3
  <1>5. 2 ^ (n + 6) = 64 * 2 ^ n
    <2>1. n + 4 \in Nat /\ n + 5 \in Nat /\ (n + 4) + 1 = n + 5 /\ (n + 5) + 1 = n + 6
      OBVIOUS
    <2>2. 2 ^ ((n + 4) + 1) = 2 * 2 ^ (n + 4)
      BY <2>1, PowerStep
    <2>3. 2 ^ ((n + 5) + 1) = 2 * 2 ^ (n + 5)
      BY <2>1, PowerStep
    <2> QED
      BY <1>1, <1>4, <2>1, <2>2, <2>3
  <1> QED
    <2>1. n + 6 \in Nat /\ n + 7 \in Nat /\ (n + 6) + 1 = n + 7 /\ (n + 7) + 1 = n + 8
      OBVIOUS
    <2>2. 2 ^ ((n + 6) + 1) = 2 * 2 ^ (n + 6)
      BY <2>1, PowerStep
    <2>3. 2 ^ ((n + 7) + 1) = 2 * 2 ^ (n + 7)
      BY <2>1, PowerStep
    <2> QED
      BY <1>1, <1>5, <2>1, <2>2, <2>3

LEMMA BytePowers == 2 ^ 0 = 1 /\ 2 ^ 8 = 256 /\ 2 ^ 16 = 65536 /\ 2 ^ 24 = 16777216 /\ 2 ^ 32 = 4294967296
  <1>1. 2 ^ 0 = 1
    BY PowersAre
  <1>2. 2 ^ (0 + 8) = 256 * 2 ^ 0
    BY EightMore
  <1>3. 2 ^ (8 + 8) = 256 * 2 ^ 8
    BY EightMore
  <1>4. 2 ^ (16 + 8) = 256 * 2 ^ 16
    BY EightMore
  <1>5. 2 ^ (24 + 8) = 256 * 2 ^ 24
    BY EightMore
  <1> QED
    BY <1>1, <1>2, <1>3, <1>4, <1>5

\* A number that fits a field of the header is read back from its bytes.
LEMMA FieldsHold ==
    ASSUME NEW v \in Nat, v < 2 ^ 32
    PROVE  Value(Int32(v)) = v
  <1>1. v < 4294967296
    BY BytePowers
  <1>2. PICK w : w = Int32(v)
    OBVIOUS
  <1>3. \A k \in 1..4 : w[k] = (v \div 2 ^ (8 * (k - 1))) % 256
    BY <1>2 DEF Int32, WordBytes
  <1>4. w[1] = (v \div 1) % 256
    <2>1. w[1] = (v \div 2 ^ (8 * (1 - 1))) % 256 /\ 8 * (1 - 1) = 0
      BY <1>3
    <2> QED
      BY <2>1, BytePowers
  <1>5. w[2] = (v \div 256) % 256
    <2>1. w[2] = (v \div 2 ^ (8 * (2 - 1))) % 256 /\ 8 * (2 - 1) = 8
      BY <1>3
    <2> QED
      BY <2>1, BytePowers
  <1>6. w[3] = (v \div 65536) % 256
    <2>1. w[3] = (v \div 2 ^ (8 * (3 - 1))) % 256 /\ 8 * (3 - 1) = 16
      BY <1>3
    <2> QED
      BY <2>1, BytePowers
  <1>7. w[4] = (v \div 16777216) % 256
    <2>1. w[4] = (v \div 2 ^ (8 * (4 - 1))) % 256 /\ 8 * (4 - 1) = 24
      BY <1>3
    <2> QED
      BY <2>1, BytePowers
  <1>8. w[1] + 256 * (w[2] + 256 * (w[3] + 256 * w[4])) = v
    BY <1>1, <1>4, <1>5, <1>6, <1>7
  <1> QED
    BY <1>2, <1>8 DEF Value

\* The bytes of what is sent are counted.
LEMMA BytesCounted ==
    ASSUME ReaderFollows', RNext
    PROVE  Len(sent') \in Nat /\ (R').bytes = R.bytes + 4 * Len(sent')
  <1>1. PICK items, z : items = sent' /\ z = R'
    OBVIOUS
  <1>2. IsSeq(items)
    BY <1>1 DEF ReaderFollows
  <1>3. IsReader(z)
    <2>1. CASE at' = "insts"
      <3>1. BodyAt(R', M', F', I', LastDL')
        BY <2>1 DEF ReaderFollows
      <3>2. PICK mod, f, i, last : BodyAt(z, mod, f, i, last)
        BY <1>1, <3>1
      <3>3. PICK past, t : InBody(z, mod, past, t)
        BY <3>2 DEF BodyAt
      <3> QED
        BY <3>3, InBodyIs
    <2>2. CASE at' # "insts"
      <3>1. Follows(R', at', M')
        BY <2>2 DEF ReaderFollows
      <3>2. PICK here, mod : Follows(z, here, mod)
        BY <1>1, <3>1
      <3> QED
        BY <3>2, FollowsIs
    <2> QED
      BY <2>1, <2>2
  <1>4. PICK y, n : y = FoldLeft(Read, R, items) /\ n = R.bytes + Streamed(items)
    OBVIOUS
  <1>5. z = [y EXCEPT !.bytes = n]
    BY <1>1, <1>4 DEF RNext
  <1>6. "bytes" \in DOMAIN z
    <2>1. "bytes" \in Fields
      BY FieldsAre
    <2>2. DOMAIN z = Fields
      BY <1>3 DEF IsReader, IsRecord
    <2> QED
      BY <2>1, <2>2
  <1>7. z.bytes = n
    BY <1>5, <1>6
  <1> QED
    BY <1>1, <1>2, <1>4, <1>7, SeqShape DEF Streamed, WordBytes

HeaderBytes == IF M.darwin THEN 20 ELSE 0
HeaderOf(size) == <<Int32(WrapperMagic), Int32(0), Int32(20), Int32(size), Int32(CPUType(M.arch))>>
\* The stream behind the space for the header, and the finished file.
StreamInFile == \E h : Buffer = [header |-> h, size |-> R.bytes + HeaderBytes] /\ (M.darwin \/ h = Empty)
WrappedFile ==
  /\ M.darwin => Buffer = [header |-> HeaderOf(R.bytes), size |-> Padded(R.bytes + 20)]
  /\ ~M.darwin => Buffer = [header |-> Empty, size |-> R.bytes]
FileSoFar ==
  /\ R.bytes \in Nat
  /\ at = "file" => R.bytes = 0
  /\ at \notin {"file", "done"} => StreamInFile
  /\ at = "done" => WrappedFile

LEMMA FileStarts == RInit => FileSoFar
  <1> SUFFICES ASSUME RInit PROVE FileSoFar
    OBVIOUS
  <1>1. at = "file" /\ R = Nothing
    BY DEF RInit, Init
  <1>2. R.bytes = 0
    BY <1>1 DEF Nothing
  <1> QED
    BY <1>1, <1>2 DEF FileSoFar

LEMMA FileGrows ==
    ASSUME FileSoFar, NEW here, NEW next, Write(here, next, sent'), here \notin {"file", "done"}, next \notin {"file", "done"},
           Len(sent') \in Nat, (R').bytes = R.bytes + 4 * Len(sent')
    PROVE  FileSoFar'
  <1>1. at = here /\ at' = next /\ M' = M /\ Buffer' = [Buffer EXCEPT !.size = @ + Streamed(sent')]
    BY DEF Write, Move
  <1>2. StreamInFile /\ R.bytes \in Nat
    BY <1>1 DEF FileSoFar
  <1>3. PICK h : Buffer = [header |-> h, size |-> R.bytes + HeaderBytes] /\ (M.darwin \/ h = Empty)
    BY <1>2 DEF StreamInFile
  <1>4. PICK n, m : n = R.bytes + HeaderBytes /\ m = Streamed(sent')
    OBVIOUS
  <1>5. Buffer' = [header |-> h, size |-> n + m]
    BY <1>1, <1>3, <1>4
  <1>6. n + m = (R').bytes + HeaderBytes
    BY <1>2, <1>4 DEF Streamed, WordBytes, HeaderBytes
  <1>7. HeaderBytes' = HeaderBytes
    BY <1>1 DEF HeaderBytes
  <1>8. StreamInFile'
    BY <1>1, <1>3, <1>5, <1>6, <1>7 DEF StreamInFile
  <1> QED
    BY <1>1, <1>2, <1>8 DEF FileSoFar

LEMMA FileBegins ==
    ASSUME FileSoFar, BeginFile, Len(sent') \in Nat, (R').bytes = R.bytes + 4 * Len(sent')
    PROVE  FileSoFar'
  <1>1. /\ at = "file" /\ at' = "module" /\ M' = M /\ sent' = <<Magic>>
        /\ Buffer' = IF M.darwin
                     THEN [header |-> [k \in 1..5 |-> <<0, 0, 0, 0>>], size |-> DarwinBCHeaderSize + Streamed(<<Magic>>)]
                     ELSE [header |-> <<>>, size |-> Streamed(<<Magic>>)]
    BY DEF BeginFile, Move
  <1>2. R.bytes = 0 /\ Len(sent') = 1
    BY <1>1, OneSeq DEF FileSoFar
  <1>3. (R').bytes = 4 /\ Streamed(<<Magic>>) = 4 /\ DarwinBCHeaderSize = 20
    BY <1>1, <1>2 DEF Streamed, WordBytes, DarwinBCHeaderSize
  <1>4. PICK h : h = IF M.darwin THEN [k \in 1..5 |-> <<0, 0, 0, 0>>] ELSE Empty
    OBVIOUS
  <1>5. HeaderBytes' = IF M.darwin THEN 20 ELSE 0
    BY <1>1 DEF HeaderBytes
  <1>6. Buffer' = [header |-> h, size |-> (R').bytes + HeaderBytes']
    <2>1. CASE M.darwin
      <3>1. Buffer' = [header |-> h, size |-> 24]
        BY <1>1, <1>3, <1>4, <2>1
      <3>2. (R').bytes + HeaderBytes' = 24
        BY <1>3, <1>5, <2>1
      <3> QED
        BY <3>1, <3>2
    <2>2. CASE ~M.darwin
      <3>1. Buffer' = [header |-> h, size |-> 4]
        BY <1>1, <1>3, <1>4, <2>2 DEF Empty
      <3>2. (R').bytes + HeaderBytes' = 4
        BY <1>3, <1>5, <2>2
      <3> QED
        BY <3>1, <3>2
    <2> QED
      BY <2>1, <2>2
  <1>7. StreamInFile'
    BY <1>1, <1>4, <1>6 DEF StreamInFile
  <1> QED
    BY <1>1, <1>3, <1>7 DEF FileSoFar

LEMMA FileEnds ==
    ASSUME FileSoFar, EndFile, Len(sent') \in Nat, (R').bytes = R.bytes + 4 * Len(sent')
    PROVE  FileSoFar'
  <1>1. /\ at = "trailer" /\ at' = "done" /\ M' = M /\ sent' = Empty
        /\ Buffer' = IF M.darwin
                     THEN [header |-> <<Int32(WrapperMagic), Int32(0), Int32(DarwinBCHeaderSize),
                                        Int32(BCSize(Buffer.size)), Int32(CPUType(M.arch))>>,
                           size |-> Padded(Buffer.size)]
                     ELSE Buffer
    BY DEF EndFile, Move, Empty
  <1>2. StreamInFile /\ R.bytes \in Nat
    BY <1>1 DEF FileSoFar
  <1>3. PICK h : Buffer = [header |-> h, size |-> R.bytes + HeaderBytes] /\ (M.darwin \/ h = Empty)
    BY <1>2 DEF StreamInFile
  <1>4. (R').bytes = R.bytes
    BY <1>1, <1>2, NoneSeq
  <1>5. DarwinBCHeaderSize = 20
    BY DEF DarwinBCHeaderSize, WordBytes
  <1>6. CASE M.darwin
    <2>1. Buffer.size = R.bytes + 20
      BY <1>3, <1>6 DEF HeaderBytes
    <2>2. BCSize(Buffer.size) = R.bytes
      BY <1>2, <1>5, <2>1 DEF BCSize
    <2>3. Buffer' = [header |-> HeaderOf(R.bytes), size |-> Padded(R.bytes + 20)]
      BY <1>1, <1>5, <1>6, <2>1, <2>2 DEF HeaderOf
    <2>4. HeaderOf(R.bytes)' = HeaderOf(R.bytes)
      BY <1>1, <1>4 DEF HeaderOf
    <2>5. WrappedFile'
      BY <1>1, <1>4, <1>6, <2>3, <2>4 DEF WrappedFile
    <2> QED
      BY <1>1, <1>2, <1>4, <2>5 DEF FileSoFar
  <1>7. CASE ~M.darwin
    <2>1. HeaderBytes = 0 /\ h = Empty
      BY <1>3, <1>7 DEF HeaderBytes
    <2>2. R.bytes + HeaderBytes = R.bytes
      BY <1>2, <2>1
    <2>3. Buffer' = [header |-> Empty, size |-> (R').bytes]
      BY <1>1, <1>3, <1>4, <1>7, <2>1, <2>2
    <2>4. WrappedFile'
      BY <1>1, <1>7, <2>3 DEF WrappedFile
    <2> QED
      BY <1>1, <1>2, <1>4, <2>4 DEF FileSoFar
  <1> QED
    BY <1>6, <1>7

LEMMA FileStays == FileSoFar /\ ReaderFollows' /\ [RNext]_<<vars, R>> => FileSoFar'
  <1> SUFFICES ASSUME FileSoFar, ReaderFollows', [RNext]_<<vars, R>> PROVE FileSoFar'
    OBVIOUS
  <1>1. CASE UNCHANGED <<vars, R>>
    BY <1>1 DEF vars, writer, FileSoFar, StreamInFile, WrappedFile, HeaderBytes, HeaderOf
  <1> SUFFICES ASSUME RNext PROVE FileSoFar'
    BY <1>1
  <1>2. Len(sent') \in Nat /\ (R').bytes = R.bytes + 4 * Len(sent')
    BY BytesCounted
  <1>3. CASE BeginFile
    BY <1>2, <1>3, FileBegins
  <1>4. CASE EndFile
    BY <1>2, <1>4, FileEnds
  <1>5. ASSUME NEW here, NEW next, NEW items, Write(here, next, items), here \notin {"file", "done"}, next \notin {"file", "done"}
        PROVE  FileSoFar'
    <2>1. Write(here, next, sent')
      BY <1>5 DEF Write, Move
    <2> QED
      BY <1>2, <1>5, <2>1, FileGrows
  <1>6. CASE BeginModule \/ WriteStandardAbbrevs \/ WriteAttributes \/ WriteTypes \/ WriteInfo \/ WriteGlobalConstants
    BY <1>5, <1>6 DEF BeginModule, WriteStandardAbbrevs, WriteAttributes, WriteTypes, WriteInfo, WriteGlobalConstants
  <1>7. CASE WriteMetadata \/ WriteMetadataKinds \/ WriteGlobalNames \/ WriteUseLists
    BY <1>5, <1>7 DEF WriteMetadata, WriteMetadataKinds, WriteGlobalNames, WriteUseLists
  <1>8. CASE BeginFunction \/ EndFunction \/ EndModule
    <2>1. \/ \E items : Write("function", "insts", items)
          \/ \E items : Write("insts", "function", items)
          \/ \E items : Write("function", "trailer", items)
      BY <1>8 DEF BeginFunction, EndFunction, EndModule
    <2> QED
      BY <1>5, <2>1
  <1>9. CASE WriteNextInstruction
    <2>1. \E items : Write("insts", "insts", items)
      BY <1>9 DEF WriteNextInstruction
    <2> QED
      BY <1>5, <2>1
  <1> QED
    BY <1>3, <1>4, <1>6, <1>7, <1>8, <1>9 DEF RNext, Next

(* A file shorter than its 32 bits can say is, at the end, the stream and  *)
(* nothing else, or what the Darwin header names by an offset and a size   *)
(* that leave out the padding, in a file of a multiple of 16 bytes         *)
(* (SpirBitcodeWriter.cpp:1861-1970).                                      *)
THEOREM StreamIsFound == RSpec => [](Buffer.size < 2 ^ 32 => FileUnwraps)
  <1>1. FileSoFar => (Buffer.size < 2 ^ 32 => FileUnwraps)
    <2> SUFFICES ASSUME FileSoFar, Buffer.size < 2 ^ 32, at = "done" PROVE FileUnwraps
      BY DEF FileUnwraps
    <2>1. R.bytes \in Nat /\ WrappedFile
      BY DEF FileSoFar
    <2>2. CASE ~M.darwin
      <3>1. Buffer = [header |-> Empty, size |-> R.bytes]
        BY <2>1, <2>2 DEF WrappedFile
      <3> QED
        BY <2>2, <3>1 DEF FileUnwraps, Empty
    <2>3. CASE M.darwin
      <3>1. PICK n, size : n = R.bytes /\ size = Padded(n + 20)
        OBVIOUS
      <3>2. Buffer = [header |-> HeaderOf(n), size |-> size]
        BY <2>1, <2>3, <3>1 DEF WrappedFile
      <3>3. size % 16 = 0 /\ n + 20 <= size /\ size - (20 + n) < 16
        BY <2>1, <3>1 DEF Padded
      <3>4. n \in Nat /\ n < 2 ^ 32 /\ 20 \in Nat /\ 20 < 2 ^ 32 /\ WrapperMagic \in Nat /\ WrapperMagic < 2 ^ 32
        <4>1. size < 4294967296
          BY <3>2, BytePowers
        <4>2. size \in Nat
          BY <2>1, <3>1 DEF Padded
        <4>3. n < 4294967296
          BY <2>1, <3>1, <3>3, <4>1, <4>2
        <4> QED
          BY <2>1, <3>1, <4>3, BytePowers DEF WrapperMagic
      <3>5. Value(Int32(n)) = n /\ Value(Int32(20)) = 20 /\ Value(Int32(WrapperMagic)) = WrapperMagic
        BY <3>4, FieldsHold
      <3>6. PICK w : w = HeaderOf(n)
        OBVIOUS
      <3>7. w[1] = Int32(WrapperMagic) /\ w[3] = Int32(20) /\ w[4] = Int32(n) /\ Len(w) = 5
        BY <3>6 DEF HeaderOf
      <3>8. Buffer.header = w /\ Buffer.size = size
        BY <3>2, <3>6
      <3>9. /\ Value(w[1]) = WrapperMagic /\ Value(w[3]) = 20 /\ Value(w[4]) = n
            /\ 20 = WordBytes * Len(w)
        BY <3>5, <3>7 DEF WordBytes
      <3>10. 20 + n <= size
        BY <2>1, <3>1, <3>3
      <3> QED
        BY <2>3, <3>1, <3>3, <3>8, <3>9, <3>10 DEF FileUnwraps
    <2> QED
      BY <2>2, <2>3
  <1> QED
    BY <1>1, FileStarts, FileStays, ReaderFollowsWriter, PTL DEF RSpec
==============================================================================
