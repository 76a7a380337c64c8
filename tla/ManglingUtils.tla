---------------------------- MODULE ManglingUtils -----------------------------
(***************************************************************************)
(* The tables of spir_name_mangler/ManglingUtils.cpp: a primitive type, a  *)
(* qualifier and an address space as toString writes it and as the mangler *)
(* does.  A type or an attribute is its place in its table, as the enums   *)
(* of ParameterType.h number them.                                         *)
(***************************************************************************)
EXTENDS Naturals, Sequences

PrimitiveNames ==
    <<"bool", "uchar", "char", "ushort", "short", "uint", "int", "ulong", "long",
      "half", "float", "double", "void", "...",
      "image1d_t", "image1d_array_t", "image1d_buffer_t", "image2d_t", "image2d_array_t",
      "image3d_t", "image2d_msaa_t", "image2d_array_msaa_t", "image2d_msaa_depth_t",
      "image2d_array_msaa_depth_t", "image2d_depth_t", "image2d_array_depth_t",
      "event_t", "pipe_t", "reserve_id_t", "queue_t", "ndrange_t", "clk_event_t", "sampler_t">>

\* fault: the rows of two image types swapped, one of them written twice
mangledTypes_Copied ==
    <<"b", "h", "c", "t", "s", "j", "i", "m", "l", "Dh", "f", "d", "v", "z",
      "11ocl_image1d", "16ocl_image1darray", "17ocl_image1dbuffer", "11ocl_image2d",
      "16ocl_image2darray", "11ocl_image3d", "15ocl_image2dmsaa", "20ocl_image2darraymsaa",
      "20ocl_image2dmsaadepth", "25ocl_image2darraymsaadepth", "16ocl_image2darray",
      "21ocl_image2darraydepth", "9ocl_event", "8ocl_pipe", "13ocl_reserveid", "9ocl_queue",
      "9ndrange_t", "12ocl_clkevent", "11ocl_sampler">>

mangledTypes ==
    <<"b", "h", "c", "t", "s", "j", "i", "m", "l", "Dh", "f", "d", "v", "z",
      "11ocl_image1d", "16ocl_image1darray", "17ocl_image1dbuffer", "11ocl_image2d",
      "16ocl_image2darray", "11ocl_image3d", "15ocl_image2dmsaa", "20ocl_image2darraymsaa",
      "20ocl_image2dmsaadepth", "25ocl_image2darraymsaadepth", "16ocl_image2ddepth",
      "21ocl_image2darraydepth", "9ocl_event", "8ocl_pipe", "13ocl_reserveid", "9ocl_queue",
      "9ndrange_t", "12ocl_clkevent", "11ocl_sampler">>

readableAttribute == <<"restrict", "volatile", "const",
                       "__private", "__global", "__constant", "__local", "__generic">>
mangledAttribute == <<"r", "V", "K", "", "U3AS1", "U3AS2", "U3AS3", "U3AS4">>

SPIR12 == 1
SPIR20 == 2

primitiveSupportedVersions ==
    [i \in 1..Len(PrimitiveNames) |->
       IF PrimitiveNames[i] \in {"pipe_t", "reserve_id_t", "queue_t", "ndrange_t", "clk_event_t"}
       THEN SPIR20 ELSE SPIR12]

\* The models name a type by its readable name, the enums by its place.
PlaceIn(table, x) == CHOOSE i \in 1..Len(table) : table[i] = x

mangledPrimitiveString(p) == mangledTypes[PlaceIn(PrimitiveNames, p)]
getMangledAttribute(a) == mangledAttribute[PlaceIn(readableAttribute, a)]
getSupportedVersion(p) == primitiveSupportedVersions[PlaceIn(PrimitiveNames, p)]
getSPIRVersionAsString(v) == IF v = SPIR12 THEN "SPIR 1.2" ELSE "SPIR 2.0"
===============================================================================
