------------------------------ MODULE MCCalls ------------------------------
(* Calls with an application that uses every function and one that creates *)
(* and releases contexts.                                                  *)
EXTENDS Calls

CONSTANTS c1, c2

MCUses ==
  c1 :> UNION {With(effect) : effect \in {"create", "retain", "release", "event", "unload"}}
        \union Queries
        \union {"clGetPlatformIDs", "clGetPlatformInfo", "clGetDeviceIDs", "clGetDeviceInfo",
                "clGetEventProfilingInfo", "clGetProgramBuildInfo", "clBuildProgram",
                "clSetKernelArg", "clWaitForEvents", "clEnqueueWaitForEvents",
                "clEnqueueBarrier", "clFlush", "clFinish"}
  @@ c2 :> {"clCreateContext", "clReleaseContext"}

(* An application that waits for a command it has enqueued.                *)
MCUsesWait == c1 :> {"clCreateContext", "clEnqueueTask", "clWaitForEvents"}

T == INSTANCE TLC
Symmetry == T!Permutations(Ids) \union T!Permutations(Reals)
=============================================================================
