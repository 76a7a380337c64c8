------------------------------ MODULE MangleTest ------------------------------
(***************************************************************************)
(* The tests of unittest/spir_name_mangler/MangleTest.cpp: the types each  *)
(* one builds and shares, the version it mangles for, and what it expects  *)
(* mangle to return in both of its results.                                *)
(***************************************************************************)
EXTENDS ParameterTypes, ManglingUtils

Fd(f, types, ps) == [name |-> f, heap |-> types, parameters |-> ps]
Mangles(fd, v, s) == [fd |-> fd, ver |-> v, err |-> "MANGLE_SUCCESS", mangled |-> s]
Refuses(fd, type) == [fd |-> fd, ver |-> SPIR12, err |-> "MANGLE_TYPE_NOT_SUPPORTED",
                      mangled |-> "Type " \o type \o " is not supported in SPIR 1.2"]
\* A test that mangles for 2.0 and then for 1.2.
Both(fd, s, type) == {Mangles(fd, SPIR20, s), Refuses(fd, type)}

IntT == Primitive("int")
FloatT == Primitive("float")
Global(p) == setAddressSpace(p, "__global")
With(p, q) == setQualifier(p, q, TRUE)
Without(p, q) == setQualifier(p, q, FALSE)

ScalarsAndPointer ==
    {Mangles(Fd("abs", <<IntT>>, <<1>>), SPIR12, "_Z3absi"),
     Mangles(Fd("fabs", <<FloatT>>, <<1>>), SPIR12, "_Z4fabsf"),
     Mangles(Fd("fabs", <<Primitive("double")>>, <<1>>), SPIR12, "_Z4fabsd"),
     Mangles(Fd("fract_ret2ptr", <<FloatT, PointerTo(1)>>, <<1, 2, 2>>), SPIR12,
             "_Z13fract_ret2ptrfPfS0_")}

AtomicTypes ==
    Both(Fd("atomic_store", <<IntT, Atomic(1), With(Global(PointerTo(2)), "volatile")>>, <<3, 1>>),
         "_Z12atomic_storePVU3AS1U7_Atomicii", "volatile __global atomic_int *")
    \cup Both(Fd("myfunc", <<IntT, Atomic(1), Primitive("uint"), Atomic(3), Primitive("long"), Atomic(5),
                             Primitive("ulong"), Atomic(7), FloatT, Atomic(9), Primitive("double"), Atomic(11)>>,
                 <<2, 4, 6, 8, 10, 12>>),
              "_Z6myfuncU7_AtomiciU7_AtomicjU7_AtomiclU7_AtomicmU7_AtomicfU7_Atomicd", "atomic_int")

BlocksEventsPipes ==
    Both(Fd("myfunc", <<IntT, FloatT, Block(<<1, 2>>)>>, <<3>>),
         "_Z6myfuncU13block_pointerFvifE", "void (int, float)*")
    \cup {Mangles(Fd("async_work_group_copy",
                     <<IntT, setAddressSpace(PointerTo(1), "__local"), With(Global(PointerTo(1)), "const"),
                       Primitive("uint"), Primitive("event_t")>>, <<2, 3, 4, 5>>),
                  SPIR20, "_Z21async_work_group_copyPU3AS3iPKU3AS1ij9ocl_event")}
    \cup Both(Fd("retain_event", <<Primitive("clk_event_t")>>, <<1>>),
              "_Z12retain_event12ocl_clkevent", "clk_event_t")
    \cup Both(Fd("read_pipe", <<Primitive("pipe_t"), Global(PointerTo(1)), Primitive("reserve_id_t"),
                                Primitive("uint"), Primitive("void"), setAddressSpace(PointerTo(5), "__generic")>>,
                 <<2, 3, 4, 6, 4, 4>>),
              "_Z9read_pipePU3AS18ocl_pipe13ocl_reserveidjPU3AS4vjj", "__global pipe_t *")

QueuesVersionsUserTypes ==
    Both(Fd("enqueue_kernel", <<Primitive("queue_t"), IntT, Primitive("ndrange_t"), Primitive("void"), Block(<<4>>)>>,
            <<1, 2, 3, 5>>),
         "_Z14enqueue_kernel9ocl_queuei9ndrange_tU13block_pointerFvvE", "queue_t")
    \cup {Refuses(Fd("myfunc", <<Primitive("ndrange_t")>>, <<1>>), "ndrange_t"),
          Refuses(Fd("myfunc", <<Primitive("reserve_id_t")>>, <<1>>), "reserve_id_t"),
          Mangles(Fd("myfunc", <<UserDefined("myTy1"), UserDefined("myTy2")>>, <<1, 2>>), SPIR12,
                  "_Z6myfunc5myTy15myTy2")}

Sampled(image, n, s) ==
    Mangles(Fd("read_imagef", <<Primitive(image), Primitive("sampler_t"), FloatT, Vector(3, n)>>, <<1, 2, 4>>),
            SPIR12, "_Z11read_imagef" \o s \o "11ocl_samplerDv" \o n \o "_f")
SampledImages ==
    {Sampled("image1d_t", "2", "11ocl_image1d"), Sampled("image1d_array_t", "2", "16ocl_image1darray"),
     Mangles(Fd("read_imagef", <<Primitive("image1d_buffer_t"), FloatT, Vector(2, "2")>>, <<1, 3>>),
             SPIR12, "_Z11read_imagef17ocl_image1dbufferDv2_f"),
     Sampled("image2d_t", "2", "11ocl_image2d"), Sampled("image2d_array_t", "4", "16ocl_image2darray"),
     Sampled("image3d_t", "4", "11ocl_image3d")}

Msaa(image, n, s) ==
    Mangles(Fd("read_imagef", <<Primitive(image), IntT, Vector(2, n)>>, <<1, 3, 2>>), SPIR12,
            "_Z11read_imagef" \o s \o "Dv" \o n \o "_ii")
MsaaAndDepthImages ==
    {Msaa("image2d_msaa_t", "2", "15ocl_image2dmsaa"), Msaa("image2d_array_msaa_t", "4", "20ocl_image2darraymsaa"),
     Msaa("image2d_msaa_depth_t", "2", "20ocl_image2dmsaadepth"),
     Msaa("image2d_array_msaa_depth_t", "2", "25ocl_image2darraymsaadepth"),
     Mangles(Fd("read_imagef", <<Primitive("image2d_depth_t"), IntT, Vector(2, "2"), FloatT>>, <<1, 3, 2, 4>>),
             SPIR12, "_Z11read_imagef16ocl_image2ddepthDv2_iif"),
     Sampled("image2d_array_depth_t", "4", "21ocl_image2darraydepth")}

VectorsAndSpaces ==
    {Mangles(Fd("frexp", <<FloatT, Vector(1, "2"), IntT, Vector(3, "2"), Global(PointerTo(4))>>, <<2, 5>>),
             SPIR12, "_Z5frexpDv2_fPU3AS1Dv2_i"),
     Mangles(Fd("mask_fmax", <<Primitive("ushort"), FloatT, Vector(2, "16")>>, <<1, 3, 3>>),
             SPIR12, "_Z9mask_fmaxtDv16_fDv16_f"),
     Mangles(Fd("soa_cross3", <<FloatT, Vector(1, "16"), PointerTo(2)>>, <<2, 2, 2, 2, 2, 2, 3, 3, 3>>),
             SPIR12, "_Z10soa_cross3Dv16_fDv16_fDv16_fDv16_fDv16_fDv16_fPDv16_fS0_S0_"),
     Mangles(Fd("async_work_group_copy",
                <<Primitive("char"), Vector(1, "2"), setAddressSpace(PointerTo(2), "__local"),
                  Global(With(PointerTo(2), "const")), setAddressSpace(PointerTo(2), "__private"),
                  setAddressSpace(PointerTo(2), "__constant")>>, <<3, 4, 5, 6>>),
             SPIR12, "_Z21async_work_group_copyPU3AS3Dv2_cPKU3AS1Dv2_cPDv2_cPU3AS2Dv2_c"),
     Mangles(Fd("myf", <<UserDefined("mta"), setAddressSpace(PointerTo(1), "__constant")>>, <<2>>),
             SPIR12, "_Z3myfPU3AS23mta")}

Substitutions ==
    {Mangles(Fd("ndrange_2D", <<IntT, With(PointerTo(1), "const")>>, <<2, 2, 2>>),
             SPIR20, "_Z10ndrange_2DPKiS0_S0_"),
     Mangles(Fd("func", <<IntT, With(PointerTo(1), "const"), FloatT, PointerTo(3)>>, <<2, 4, 2, 1, 4>>),
             SPIR20, "_Z4funcPKiPfS0_iS1_"),
     Mangles(Fd("myfunc", <<UserDefined("myTy1")>>, <<1, 1>>), SPIR12, "_Z6myfunc5myTy1S0_")}

ToInt(p, s) == Mangles(Fd("func", <<IntT, p>>, <<2>>), SPIR12, "_Z4funcP" \o s \o "i")
AttributeOrder ==
    LET P == PointerTo(1)
        R == With(P, "restrict")
        C(p) == setAddressSpace(p, "__constant")
        L(p) == setAddressSpace(p, "__local")
    IN {ToInt(C(With(With(R, "volatile"), "const")), "rVKU3AS2"),
        ToInt(With(With(With(C(P), "restrict"), "const"), "volatile"), "rVKU3AS2"),
        ToInt(With(With(C(P), "restrict"), "const"), "rKU3AS2"),
        ToInt(With(R, "const"), "rK"),
        ToInt(L(Global(L(C(R)))), "rU3AS3"),
        ToInt(Without(Without(With(With(R, "restrict"), "volatile"), "restrict"), "volatile"), "")}

Tests == ScalarsAndPointer \cup AtomicTypes \cup BlocksEventsPipes \cup QueuesVersionsUserTypes
         \cup SampledImages \cup MsaaAndDepthImages \cup VectorsAndSpaces \cup Substitutions \cup AttributeOrder
===============================================================================
