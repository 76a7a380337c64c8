---------------------------- MODULE OpenCLBuiltins -----------------------------
(***************************************************************************)
(* The built-in functions of headers/opencl_spir.h as prototypes: a name   *)
(* and the parameter types of one overload.  The header spells out every   *)
(* overload; here a group of functions with the same overloads is one set  *)
(* of names and one set of lists of types.  size_t is uint or ulong, as    *)
(* the header defines it for the two widths of SPIR.  The values returned  *)
(* do not take part in a mangled name and are left out, and so is printf,  *)
(* the one function that is not overloadable and keeps its name.           *)
(***************************************************************************)
EXTENDS ParameterTypes

Sizes == {"", "2", "3", "4", "8", "16"}     \* "" is a scalar
VectorSizes == Sizes \ {""}
Gen(t, n) == IF n = "" THEN Primitive(t) ELSE Vector(Primitive(t), n)
To(t, as) == Pointer(t, {}, as)
ConstTo(t, as) == Pointer(t, {"const"}, as)
VolatileTo(t, as) == Pointer(t, {"volatile"}, as)
Writable == {"__private", "__global", "__local"}
Readonly == Writable \cup {"__constant"}

Declare(names, lists) == {[name |-> f, parameters |-> ps] : f \in names, ps \in lists}

size_t == {Primitive("uint"), Primitive("ulong")}

Signed == {"char", "short", "int", "long"}
Unsigned == {"uchar", "ushort", "uint", "ulong"}
Integers == Signed \cup Unsigned
Floats == {"float", "double"}
AllTypes == Integers \cup Floats
SameSize(t) == CASE t \in {"char", "uchar"} -> {"char", "uchar"}
                 [] t \in {"short", "ushort"} -> {"short", "ushort"}
                 [] t \in {"int", "uint", "float"} -> {"int", "uint"}
                 [] OTHER -> {"long", "ulong"}

\* k parameters of one type, over every type and every size
Alike(types, sizes, k) == {[i \in 1..k |-> Gen(t, n)] : t \in types, n \in sizes}
\* vectors whose last parameter, or whose first ones, may be scalars
LastScalar(types, k) ==
    {[i \in 1..k |-> Gen(t, IF i = k THEN "" ELSE n)] : t \in types, n \in VectorSizes}
FirstScalar(types, k) ==
    {[i \in 1..k |-> Gen(t, IF i = k THEN n ELSE "")] : t \in types, n \in VectorSizes}
\* a result that is stored through the last parameter, into the same type or into int
StoredAlike == {<<Gen(t, n), To(Gen(t, n), as)>> : t \in Floats, n \in Sizes, as \in Writable}
StoredInt(k) == {[i \in 1..k |-> Gen(t, n)] \o <<To(Gen("int", n), as)>> :
                   t \in Floats, n \in Sizes, as \in Writable}
-------------------------------------------------------------------------------
WorkItems ==
    Declare({"get_work_dim"}, {<<Primitive("void")>>})
    \cup Declare({"get_global_size", "get_global_id", "get_local_size", "get_local_id",
                  "get_num_groups", "get_group_id", "get_global_offset"}, {<<Primitive("uint")>>})

AcosToAtan2pi ==
    Declare({"acos", "acosh", "acospi", "asin", "asinh", "asinpi", "atan", "atanh", "atanpi"},
            Alike(Floats, Sizes, 1))
    \cup Declare({"atan2", "atan2pi"}, Alike(Floats, Sizes, 2))
CbrtToCospi ==
    Declare({"cbrt", "ceil", "cos", "cosh", "cospi"}, Alike(Floats, Sizes, 1))
    \cup Declare({"copysign"}, Alike(Floats, Sizes, 2))
ErfcToFloor ==
    Declare({"erfc", "erf", "exp", "exp2", "exp10", "expm1", "fabs", "floor"}, Alike(Floats, Sizes, 1))
    \cup Declare({"fdim"}, Alike(Floats, Sizes, 2))
FmaToFmod ==
    Declare({"fma"}, Alike(Floats, Sizes, 3))
    \cup Declare({"fmax", "fmin"}, Alike(Floats, Sizes, 2) \cup LastScalar(Floats, 2))
    \cup Declare({"fmod"}, Alike(Floats, Sizes, 2))
FractToHypot ==
    Declare({"fract"}, StoredAlike)
    \cup Declare({"frexp"}, StoredInt(1))
    \cup Declare({"hypot"}, Alike(Floats, Sizes, 2))
IlogbToLgamma ==
    Declare({"ilogb", "lgamma"}, Alike(Floats, Sizes, 1))
    \cup Declare({"ldexp"}, {<<Gen(t, n), Gen("int", n)>> : t \in Floats, n \in Sizes}
                            \cup {<<Gen(t, n), Primitive("int")>> : t \in Floats, n \in VectorSizes})
    \cup Declare({"lgamma_r"}, StoredInt(1))
LogToMad ==
    Declare({"log", "log2", "log10", "log1p", "logb"}, Alike(Floats, Sizes, 1))
    \cup Declare({"mad"}, Alike(Floats, Sizes, 3))
MaxmagToNan ==
    Declare({"maxmag", "minmag"}, Alike(Floats, Sizes, 2))
    \cup Declare({"modf"}, StoredAlike)
    \cup Declare({"nan"}, Alike({"uint", "ulong"}, Sizes, 1))
NextafterToRemainder ==
    Declare({"nextafter", "pow", "powr", "remainder"}, Alike(Floats, Sizes, 2))
    \cup Declare({"pown"}, {<<Gen(t, n), Gen("int", n)>> : t \in Floats, n \in Sizes})
RemquoToRsqrt ==
    Declare({"remquo"}, StoredInt(2))
    \cup Declare({"rint", "round", "rsqrt"}, Alike(Floats, Sizes, 1))
    \cup Declare({"rootn"}, {<<Gen(t, n), Gen("int", n)>> : t \in Floats, n \in Sizes})
SinToSqrt ==
    Declare({"sin", "sinh", "sinpi", "sqrt"}, Alike(Floats, Sizes, 1))
    \cup Declare({"sincos"}, StoredAlike)
TanToTrunc == Declare({"tan", "tanh", "tanpi", "tgamma", "trunc"}, Alike(Floats, Sizes, 1))

HalfPrecision ==
    Declare({"half_cos", "half_exp", "half_exp2", "half_exp10", "half_log", "half_log2", "half_log10",
             "half_recip", "half_rsqrt", "half_sin", "half_sqrt", "half_tan"}, Alike({"float"}, Sizes, 1))
    \cup Declare({"half_divide", "half_powr"}, Alike({"float"}, Sizes, 2))
Native ==
    Declare({"native_cos"}, Alike(Floats, Sizes, 1))
    \cup Declare({"native_divide"}, Alike(Floats, Sizes, 2))
    \cup Declare({"native_exp", "native_exp2", "native_exp10", "native_log", "native_log2", "native_log10",
                  "native_recip", "native_rsqrt", "native_sin", "native_sqrt", "native_tan"},
                 Alike({"float"}, Sizes, 1))
    \cup Declare({"native_powr"}, Alike({"float"}, Sizes, 2))
-------------------------------------------------------------------------------
AbsToRhadd ==
    Declare({"abs"}, Alike(Integers, Sizes, 1))
    \cup Declare({"abs_diff", "add_sat", "hadd", "rhadd"}, Alike(Integers, Sizes, 2))
ClampToMad_hi ==
    Declare({"clamp"}, Alike(Integers, Sizes, 3)
                       \cup {<<Gen(t, n), Primitive(t), Primitive(t)>> : t \in Integers, n \in VectorSizes})
    \cup Declare({"clz"}, Alike(Integers, Sizes, 1))
    \cup Declare({"mad_hi"}, Alike(Integers, Sizes, 3))
Mad_satToMin ==
    Declare({"mad_sat"}, Alike(Integers, Sizes, 3))
    \cup Declare({"max", "min"}, Alike(Integers, Sizes, 2) \cup LastScalar(Integers, 2))
Mul_hiToUpsample ==
    Declare({"mul_hi", "rotate", "sub_sat"}, Alike(Integers, Sizes, 2))
    \cup Declare({"upsample"}, UNION {{<<Gen(t, n), Gen(u, n)>> : n \in Sizes, u \in SameSize(t) \cap Unsigned} :
                                       t \in Integers \ {"long", "ulong"}})
PopcountToMul24 ==
    Declare({"popcount"}, Alike(Integers, Sizes, 1))
    \cup Declare({"mad24"}, Alike({"int", "uint"}, Sizes, 3))
    \cup Declare({"mul24"}, Alike({"int", "uint"}, Sizes, 2))

ClampToMix ==
    Declare({"clamp"}, Alike(Floats, Sizes, 3)
                       \cup {<<Gen(t, n), Primitive(t), Primitive(t)>> : t \in Floats, n \in VectorSizes})
    \cup Declare({"degrees"}, Alike(Floats, Sizes, 1))
    \cup Declare({"max", "min"}, Alike(Floats, Sizes, 2) \cup LastScalar(Floats, 2))
    \cup Declare({"mix"}, Alike(Floats, Sizes, 3) \cup LastScalar(Floats, 3))
RadiansToSign ==
    Declare({"radians", "sign"}, Alike(Floats, Sizes, 1))
    \cup Declare({"step"}, Alike(Floats, Sizes, 2) \cup FirstScalar(Floats, 2))
    \cup Declare({"smoothstep"}, Alike(Floats, Sizes, 3) \cup FirstScalar(Floats, 3))

Geometric ==
    Declare({"cross"}, Alike(Floats, {"3", "4"}, 2))
    \cup Declare({"dot", "distance"}, Alike(Floats, {"", "2", "3", "4"}, 2))
    \cup Declare({"length", "normalize"}, Alike(Floats, {"", "2", "3", "4"}, 1))
    \cup Declare({"fast_distance"}, Alike({"float"}, {"", "2", "3", "4"}, 2))
    \cup Declare({"fast_length", "fast_normalize"}, Alike({"float"}, {"", "2", "3", "4"}, 1))

IsequalToIslessgreater ==
    Declare({"isequal", "isnotequal", "isgreater", "isgreaterequal", "isless", "islessequal",
             "islessgreater"}, Alike(Floats, Sizes, 2))
IsfiniteToSignbit ==
    Declare({"isfinite", "isinf", "isnan", "isnormal", "signbit"}, Alike(Floats, Sizes, 1))
    \cup Declare({"isordered", "isunordered"}, Alike(Floats, Sizes, 2))
AnyToBitselect ==
    Declare({"any", "all"}, Alike(Signed, Sizes, 1))
    \cup Declare({"bitselect"}, Alike(AllTypes, Sizes, 3))
Select == Declare({"select"},
    UNION {{<<Gen(t, n), Gen(t, n), Gen(u, n)>> :
              n \in Sizes, u \in IF t = "double" THEN {"long", "ulong"} ELSE Integers} : t \in AllTypes})
-------------------------------------------------------------------------------
Vload == UNION {Declare({"vload" \o n},
    {<<s, ConstTo(Primitive(t), as)>> : s \in size_t, t \in AllTypes, as \in Readonly}) : n \in VectorSizes}
Vstore == UNION {Declare({"vstore" \o n},
    {<<Gen(t, n), s, To(Primitive(t), as)>> : t \in AllTypes, s \in size_t, as \in Writable}) : n \in VectorSizes}

HalfLoads(f) == Declare({f \o n : n \in Sizes},
    {<<s, ConstTo(Primitive("half"), as)>> : s \in size_t, as \in Readonly})
Rounding == {"", "_rte", "_rtz", "_rtp", "_rtn"}
HalfStores(f, n) == Declare({f \o n \o r : r \in Rounding},
    {<<Gen(t, n), s, To(Primitive("half"), as)>> : t \in Floats, s \in size_t, as \in Writable})
Vload_half == HalfLoads("vload_half")
Vstore_half == HalfStores("vstore_half", "")
Vstore_halfn == UNION {HalfStores("vstore_half", n) : n \in VectorSizes}
Vloada_half == HalfLoads("vloada_half")
Vstorea_half == UNION {HalfStores("vstorea_half", n) : n \in Sizes}

Synchronization ==
    Declare({"barrier", "mem_fence", "read_mem_fence", "write_mem_fence"}, {<<Primitive("uint")>>})
Copied == {Gen(t, n) : t \in AllTypes, n \in Sizes} \cup {Gen("half", n) : n \in Sizes \ {"3"}}
Event == Primitive("event_t")
Async_work_group_copy == Declare({"async_work_group_copy"},
    {<<To(t, d[1]), ConstTo(t, d[2]), s, Event>> :
       t \in Copied, d \in {<<"__local", "__global">>, <<"__global", "__local">>}, s \in size_t})
Async_work_group_strided_copy == Declare({"async_work_group_strided_copy"},
    {<<To(t, d[1]), ConstTo(t, d[2]), s, s, Event>> :
       t \in Copied, d \in {<<"__local", "__global">>, <<"__global", "__local">>}, s \in size_t})
WaitAndPrefetch ==
    Declare({"wait_group_events"}, {<<Primitive("int"), To(Event, "__private")>>})
    \cup Declare({"prefetch"}, {<<ConstTo(t, "__global"), s>> : t \in Copied, s \in size_t})

\* atomic_f takes a volatile pointer; atom_f, of the extension, any pointer.
Atomics(ops, k) ==
    LET Through(quals) == {<<Pointer(Primitive(t), q, as)>> \o [i \in 1..k |-> Primitive(t)] :
                             t \in {"int", "uint"}, q \in quals, as \in {"__global", "__local"}}
    IN Declare({"atomic_" \o f : f \in ops}, Through({{"volatile"}}))
       \cup Declare({"atom_" \o f : f \in ops}, Through({{}, {"volatile"}}))
AddToDec ==
    Atomics({"add", "sub", "xchg"}, 1) \cup Atomics({"inc", "dec"}, 0)
    \cup Declare({"atomic_xchg"},
                 {<<VolatileTo(Primitive("float"), as), Primitive("float")>> : as \in {"__global", "__local"}})
CmpxchgToXor == Atomics({"cmpxchg"}, 2) \cup Atomics({"min", "max", "and", "or", "xor"}, 1)

\* The mask has the size of the elements and the length of the result.
Shuffled(k) == UNION {
    {[i \in 1..k |-> Gen(t, m)] \o <<Gen(u, n)>> :
       m \in VectorSizes \ {"3"}, n \in VectorSizes \ {"3"}, u \in SameSize(t) \cap Unsigned} : t \in AllTypes}
Shuffle == Declare({"shuffle"}, Shuffled(1))
Shuffle2 == Declare({"shuffle2"}, Shuffled(2))
-------------------------------------------------------------------------------
Image(i) == Primitive("image" \o i \o "_t")
Coordinates(i) == CASE i \in {"1d", "1d_buffer"} -> ""
                    [] i \in {"2d", "1d_array"} -> "2"
                    [] OTHER -> "4"
Images == {"1d", "1d_buffer", "1d_array", "2d", "2d_array", "3d"}
ReadImage == Declare({"read_imagef", "read_imagei", "read_imageui"},
    {<<Image(i), Primitive("sampler_t"), Gen(t, Coordinates(i))>> :
       i \in Images \ {"1d_buffer"}, t \in {"int", "float"}}
    \cup {<<Image(i), Gen("int", Coordinates(i))>> : i \in Images})
Written4(f, t, images) == Declare({f}, {<<Image(i), Gen("int", Coordinates(i)), Vector(Primitive(t), "4")>> :
                                          i \in images})
WriteImage == Written4("write_imagef", "float", Images) \cup Written4("write_imagei", "int", Images)
              \cup Written4("write_imageui", "uint", Images) \cup Written4("write_imageh", "half", {"2d", "3d"})
ImageQueries ==
    LET Of(images) == {<<Image(i)>> : i \in images}
    IN Declare({"get_image_width", "get_image_channel_data_type", "get_image_channel_order"}, Of(Images))
       \cup Declare({"get_image_height", "get_image_dim"}, Of({"2d", "2d_array", "3d"}))
       \cup Declare({"get_image_depth"}, Of({"3d"}))
       \cup Declare({"get_image_array_size"}, Of({"1d_array", "2d_array"}))

\* From every type of the same length, in every rounding mode; integers also saturate.
Convert(n) == UNION {
    Declare({"convert_" \o t \o n \o sat \o r :
               sat \in IF t \in Integers THEN {"", "_sat"} ELSE {""}, r \in Rounding},
            Alike(AllTypes, {n}, 1)) : t \in AllTypes}
ConvertScalars == Convert("")
ConvertVectors2 == Convert("2")
ConvertVectors3 == Convert("3")
ConvertVectors4 == Convert("4")
ConvertVectors8 == Convert("8")
ConvertVectors16 == Convert("16")
-------------------------------------------------------------------------------
Math == AcosToAtan2pi \cup CbrtToCospi \cup ErfcToFloor \cup FmaToFmod \cup FractToHypot \cup IlogbToLgamma
        \cup LogToMad \cup MaxmagToNan \cup NextafterToRemainder \cup RemquoToRsqrt \cup SinToSqrt
        \cup TanToTrunc \cup HalfPrecision \cup Native
IntegerFunctions == AbsToRhadd \cup ClampToMad_hi \cup Mad_satToMin \cup Mul_hiToUpsample \cup PopcountToMul24
Relational == IsequalToIslessgreater \cup IsfiniteToSignbit \cup AnyToBitselect \cup Select
Memory == Vload \cup Vstore \cup Vload_half \cup Vstore_half \cup Vstore_halfn \cup Vloada_half \cup Vstorea_half
          \cup Async_work_group_copy \cup Async_work_group_strided_copy \cup WaitAndPrefetch
Conversions == ConvertScalars \cup ConvertVectors2 \cup ConvertVectors3 \cup ConvertVectors4
               \cup ConvertVectors8 \cup ConvertVectors16
Builtins == WorkItems \cup Math \cup IntegerFunctions \cup ClampToMix \cup RadiansToSign \cup Geometric
            \cup Relational \cup Memory \cup Synchronization \cup AddToDec \cup CmpxchgToXor
            \cup Shuffle \cup Shuffle2 \cup ReadImage \cup WriteImage \cup ImageQueries \cup Conversions
===============================================================================
