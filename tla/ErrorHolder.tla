------------------------------ MODULE ErrorHolder ------------------------------
(***************************************************************************)
(* The report ErrorHolder::print makes of a list of errors.  An error has  *)
(* a type t and a message x.  addError appends, the same error as often as *)
(* it is found; print leaves the repetitions out, and numbers the          *)
(* information the errors refer to.                                        *)
(***************************************************************************)
EXTENDS Naturals, Sequences, SequencesExt

\* g_ErrorData: the information an error type refers the reader to.
InfoList ==
  [ERR_INVALID_TRIPLE |-> <<"INFO_TRIPLE">>,
   ERR_INVALID_DATA_LAYOUT |-> <<"INFO_DATA_LAYOUT">>,
   ERR_MISMATCH_TRIPLE_AND_DATA_LAYOUT |-> <<"INFO_TRIPLE", "INFO_DATA_LAYOUT">>,
   ERR_INVALID_OCL_TYPE |-> <<"INFO_OCL_TYPE", "INFO_CORE_FEATURE_METADATA", "INFO_KHR_EXT_METADATA">>,
   ERR_INVALID_LLVM_TYPE |-> <<"INFO_LLVM_TYPE", "INFO_CORE_FEATURE_METADATA", "INFO_KHR_EXT_METADATA">>,
   ERR_INVALID_KERNEL_RETURN_TYPE |-> <<"INFO_KERNEL_RETURN_TYPE">>,
   ERR_KERNEL_ARG_PTRPTR |-> <<>>,
   ERR_KERNEL_ARG_AS0 |-> <<"INFO_KERNEL_ARG_ADDRESS_SPACE">>,
   ERR_MISMATCH_OCL_AND_LLVM_TYPES |-> <<"INFO_OCL_TO_LLVM_TYPE">>,
   ERR_INVALID_GLOBAL_AS3_VAR |-> <<"INFO_GLOBAL_AS3_VAR">>,
   ERR_INVALID_GLOBAL_VAR_ADDRESS_SPACE |-> <<"INFO_GLOBAL_VAR_ADDRES_SPACES">>,
   ERR_INVALID_INTRINSIC |-> <<"INFO_INTRINSIC">>,
   ERR_INVALID_ADDR_SPACE |-> <<"INFO_ADDRESS_SPACE">>,
   ERR_INVALID_ADDR_SPACE_CAST |-> <<"INFO_ADDRESS_SPACE">>,
   ERR_INVALID_INDIRECT_CALL |-> <<"INFO_INDIRECT_CALL">>,
   ERR_INVALID_MEM_FENCE |-> <<"INFO_MEM_FENCE">>,
   ERR_INVALID_CALLING_CONVENTION |-> <<"INFO_CALLING_CONVENTION">>,
   ERR_INVALID_LINKAGE_TYPE |-> <<"INFO_LINKAGE_TYPE">>,
   ERR_INVALID_CORE_FEATURE |-> <<"INFO_CORE_FEATURE_METADATA">>,
   ERR_INVALID_KHR_EXT |-> <<"INFO_KHR_EXT_METADATA">>,
   ERR_INVALID_COMPILER_OPTION |-> <<"INFO_COMPILER_OPTION_METADATA">>,
   ERR_MISSING_NAMED_METADATA |-> <<"INFO_NAMED_METADATA">>,
   ERR_INVALID_METADATA_KERNEL |-> <<>>,
   ERR_INVALID_METADATA_KERNEL_INFO |-> <<"INFO_METADATA_KERNEL_ARG_INFO">>,
   ERR_MISSING_METADATA_KERNEL_INFO |-> <<"INFO_METADATA_KERNEL_ARG_INFO">>,
   ERR_INVALID_METADATA_VERSION |-> <<"INFO_METADATA_VERSION">>,
   ERR_MISMATCH_METADATA_ADDR_SPACE |-> <<>>]

\* g_InfoData, without INFO_NONE.
InfoData ==
  <<"INFO_TRIPLE", "INFO_DATA_LAYOUT", "INFO_OCL_TYPE", "INFO_LLVM_TYPE", "INFO_KERNEL_RETURN_TYPE",
    "INFO_KERNEL_ARG_ADDRESS_SPACE", "INFO_GLOBAL_AS3_VAR", "INFO_GLOBAL_VAR_ADDRES_SPACES",
    "INFO_OCL_TO_LLVM_TYPE", "INFO_CORE_FEATURE_METADATA", "INFO_KHR_EXT_METADATA",
    "INFO_COMPILER_OPTION_METADATA", "INFO_INTRINSIC", "INFO_ADDRESS_SPACE",
    "INFO_CALLING_CONVENTION", "INFO_LINKAGE_TYPE", "INFO_INDIRECT_CALL", "INFO_NAMED_METADATA",
    "INFO_METADATA_KERNEL_ARG_INFO", "INFO_METADATA_VERSION", "INFO_MEM_FENCE">>

AddUnique(UEL, e) == IF \E k \in DOMAIN UEL : UEL[k] = e THEN UEL ELSE Append(UEL, e)
UniqueErrors(list) ==
    LET UEL[n \in 0..Len(list)] == IF n = 0 THEN <<>> ELSE AddUnique(UEL[n - 1], list[n])
    IN  UEL[Len(list)]

InsertInfos_First(UEL) ==      \* fault: only the head of each InfoList
    {InfoList[UEL[k].t][1] : k \in {n \in DOMAIN UEL : InfoList[UEL[n].t] # <<>>}}

\* The keys of ITmap: every information a unique error refers to.
InsertInfos(UEL) == UNION {ToSet(InfoList[UEL[k].t]) : k \in DOMAIN UEL}

\* One turn of the second loop: an information in ITmap gets the next number and its
\* paragraph.
NumberInfo(s, x) ==
    IF x \notin DOMAIN s.ITmap THEN s
    ELSE [ITmap |-> [s.ITmap EXCEPT ![x] = Len(s.infos) + 1], infos |-> Append(s.infos, x)]

Numbered(keys) ==
    LET loop[n \in 0..Len(InfoData)] ==
          IF n = 0 THEN [ITmap |-> [x \in keys |-> 0], infos |-> <<>>]
          ELSE NumberInfo(loop[n - 1], InfoData[n])
    IN  loop[Len(InfoData)]

\* operator[] makes it 0 for a key never inserted.
InfoNumber(ITmap, x) == IF x \in DOMAIN ITmap THEN ITmap[x] ELSE 0

\* What print writes: the errors, each with the numbers it cites, and the numbered list.
print(list, LITMode) ==
    LET UEL == UniqueErrors(list)
        N == Numbered(InsertInfos(UEL))
        cites(e) == [k \in DOMAIN InfoList[e.t] |-> InfoNumber(N.ITmap, InfoList[e.t][k])]
    IN  [errors |-> UEL,
         cites  |-> [k \in DOMAIN UEL |-> IF LITMode THEN <<>> ELSE cites(UEL[k])],
         infos  |-> IF LITMode THEN <<>> ELSE N.infos]
=============================================================================
