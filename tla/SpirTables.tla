------------------------------ MODULE SpirTables ------------------------------
(***************************************************************************)
(* The tables of validation/SpirTables.cpp that the executors look names   *)
(* up in.  An opaque LLVM type is written without its prefix "opencl.",    *)
(* and an ignored OpenCL type by the word it begins with.                  *)
(***************************************************************************)
EXTENDS Integers

\* An operand of the metadata that is no integer constant, and one that is no string.
NotConst == -1
NotString == <<"no string">>

g_valid_core_feature == {"cl_doubles", "cl_images"}

g_valid_khr_ext ==
    {"cl_khr_int64_base_atomics", "cl_khr_int64_extended_atomics", "cl_khr_fp16",
     "cl_khr_gl_sharing", "cl_khr_gl_event", "cl_khr_d3d10_sharing", "cl_khr_media_sharing",
     "cl_khr_d3d11_sharing", "cl_khr_global_int32_base_atomics",
     "cl_khr_global_int32_extended_atomics", "cl_khr_local_int32_base_atomics",
     "cl_khr_local_int32_extended_atomics", "cl_khr_byte_addressable_store",
     "cl_khr_3d_image_writes", "cl_khr_gl_msaa_sharing", "cl_khr_depth_images",
     "cl_khr_gl_depth_images"}

g_valid_compiler_options ==
    {"-cl-single-precision-constant", "-cl-denorms-are-zero",
     "-cl-fp32-correctly-rounded-divide-sqrt", "-cl-opt-disable", "-cl-mad-enable",
     "-cl-no-signed-zeros", "-cl-unsafe-math-optimizations", "-cl-finite-math-only",
     "-cl-fast-relaxed-math", "-w", "-Werror", "-cl-kernel-arg-info"}

\* The three words of each integer type: with its sign, with a u, and spelled out.
g_valid_ocl_vector_element_types ==
    {"char", "uchar", "unsigned char", "short", "ushort", "unsigned short",
     "int", "uint", "unsigned int", "long", "ulong", "unsigned long", "half", "float", "double"}

g_valid_ocl_primitives == g_valid_ocl_vector_element_types \cup {"bool", "void"}

g_valid_ocl_opaque_types ==
    {"image1d_t", "image1d_array_t", "image1d_buffer_t", "image2d_t", "image2d_depth_t",
     "image2d_msaa_t", "image2d_msaa_depth_t", "image2d_array_t", "image2d_array_depth_t",
     "image2d_array_msaa_t", "image2d_array_msaa_depth_t", "image3d_t", "event_t", "sampler_t",
     "size_t", "ptrdiff_t", "uintptr_t", "intptr_t"}

g_ignored_ocl_types == {"struct", "union", "enum"}

g_valid_llvm_image_types ==
    {"image1d_t", "image1d_array_t", "image1d_buffer_t", "image2d_t", "image2d_depth_t",
     "image2d_msaa_t", "image2d_msaa_depth_t", "image2d_array_t", "image2d_array_msaa_t",
     "image2d_array_msaa_depth_t", "image2d_array_depth_t", "image3d_t"}

g_valid_llvm_opaque_types == {"event_t"}

g_valid_vector_type_lengths == {"2", "3", "4", "8", "16"}

g_valid_address_space == {"private", "global", "constant", "local"}
=============================================================================
