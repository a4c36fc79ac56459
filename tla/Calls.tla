------------------------------- MODULE Calls -------------------------------
(***************************************************************************)
(* An OpenCL call from the application to the vendor's library and back:   *)
(* the consumer's stub allocates memory for what its pointers refer to,    *)
(* lets the function be executed and fetches or frees the memory           *)
(* (consumer/src/opencl_*.c, consumer.h); the agent runs its own part of   *)
(* the function before and after the provider's (consumer_handler.c,       *)
(* opencl_*.c, agent_opencl.h); the provider turns handles and ids into    *)
(* pointers and calls the vendor (provider.c, provider/src/opencl_*.c).    *)
(*                                                                         *)
(* A stub is a plan, a record of what it allocates, passes and gives back; *)
(* the rest of the module carries out any plan.  Arguments have the        *)
(* positions they have in argv.  What the plans do not tell apart, the     *)
(* kinds of objects except events and all numbers, is left out, and a      *)
(* pointer that may be NULL is so either everywhere in a call or nowhere.  *)
(*                                                                         *)
(* There is one provider with one platform and one device, whose messages  *)
(* do not mix (ProviderChannel) or get lost, and consumers with objects of *)
(* their own.  The memory of a call has names that nothing else gets: the  *)
(* handle of remote memory is never drawn again (ObjectTable).             *)
(***************************************************************************)
EXTENDS Naturals, Sequences, Functions

CONSTANTS Consumers,
          Uses,             \* the functions a consumer's application calls
          Ids,              \* what id_create draws for an object
          Reals,            \* objects of the vendor's library
          Platform, Device, \* ids of the provider's platform and device
          Available,        \* a param_name, CL_DEVICE_AVAILABLE
          Null,
          VendorRefuses,    \* may what creates or enqueues fail?
          MaxRefs           \* bound: references to an object

ASSUME CallsAssumption ==
  /\ Ids \intersect Reals = {}
  /\ {Platform, Device, Available, Null} \intersect (Ids \union Reals) = {}
  /\ Platform # Device /\ Available \notin {Platform, Device}
  /\ Null \notin {Platform, Device, Available}
  \* a handle is none of these
  /\ (Ids \union Reals \union {Platform, Device, Null}) \intersect (Consumers \X Nat) = {}
  /\ VendorRefuses \in BOOLEAN /\ MaxRefs \in Nat \ {0}

VARIABLES objects,  \* agent->objects: the consumer and the references of an id
          allocs,   \* consumer->allocations: handles of memory in the agent
          idmap,    \* provider->id_map: the pointer for an id or a handle
          memory,   \* provider->allocations: what the memory of a handle holds
          vendor,   \* the vendor's objects and their references
          held,     \* what an application got, [event, refs] for each value
          call,     \* the call a consumer is in
          failed,   \* the assertion that ended the agent or the provider
          foreign   \* history: the function that has just given one side,
                    \* untranslated, what only the other side can use

vars == <<objects, allocs, idmap, memory, vendor, held, call, failed, foreign>>

(* As in the module TLC; the provers can do without its two operators.    *)
Entry(key, value) == [k \in {key} |-> value]
Merged(f, g) == [k \in DOMAIN f \union DOMAIN g |-> IF k \in DOMAIN f THEN f[k] ELSE g[k]]
key :> value == Entry(key, value)
f @@ g == Merged(f, g)

(* The memory allocated for the argument at position pos of c's call, and  *)
(* the pointer to it.                                                      *)
Handle(c, pos) == <<c, pos>>
Ptr(h) == <<"ptr", h>>

-----------------------------------------------------------------------------
(* Plans: hint names the object that leads to the provider; ids are the    *)
(* arguments that are ids; in is the memory with its initial contents, in  *)
(* the order of allocation; out is what is fetched or freed, in order.     *)

Plan(fun, hint, ids, in, out) ==
  [fun |-> fun, hint |-> hint, ids |-> ids, in |-> in, out |-> out]

Mem(pos) == <<[pos |-> pos, data |-> <<>>]>>           \* MALLOC, CALLOC
MemOf(pos, data) == <<[pos |-> pos, data |-> data]>>
Fetch(pos) == <<[pos |-> pos, fetch |-> TRUE]>>
Free(pos) == <<[pos |-> pos, fetch |-> FALSE]>>
If(given, steps) == IF given THEN steps ELSE <<>>      \* var != NULL

(* A wait list: NULL, or an event. *)
List(pos, es) == If(es # <<>>, MemOf(pos, es))
FreeList(pos, es) == If(es # <<>>, Free(pos))

Objects(c) == {v \in DOMAIN held[c] : ~held[c][v].event}
Events(c) == {v \in DOMAIN held[c] : held[c][v].event}
Waits(c) == {<<>>} \union {<<e>> : e \in Events(c)}

(* DECLARE_GETOBJECTINFO and the functions like it. *)
InfoPlan(fun, hint, ids, pos, given) ==
  Plan(fun, hint, ids, If(given, Mem(pos)) \o Mem(pos + 1),
       If(given, Fetch(pos)) \o Fetch(pos + 1))

(* clRetainX, clReleaseX and others with an object for their only argument. *)
PlainPlan(fun, o) == Plan(fun, o, 1 :> o, <<>>, <<>>)

(* Without a pointer to write to these two return at once. *)
PlatformCalls ==
  { Plan("clGetPlatformIDs", Null, <<>>, If(list, Mem(2)) \o Mem(3),
         If(list, Fetch(2)) \o Fetch(3)) : list \in BOOLEAN }
  \union
  { InfoPlan("clGetPlatformInfo", Null, 1 :> Platform, 4, g) : g \in BOOLEAN }

DeviceCalls ==
  { Plan("clGetDeviceIDs", Null, 1 :> Platform, If(list, Mem(4)) \o Mem(5),
         If(list, Fetch(4)) \o Fetch(5)) : list \in BOOLEAN }
  \union
  { InfoPlan("clGetDeviceInfo", Null, ids, 4, TRUE) :
      ids \in {1 :> Device, 1 :> Device @@ 2 :> Available} }

(* The platform in the properties is the hint.  errcode is allocated even  *)
(* if the application wants none.                                          *)
ContextCreateCalls ==
  { Plan("clCreateContext", Platform, <<>>,
         MemOf(1, <<Platform>>) \o MemOf(3, <<Device>>) \o Mem(6),
         (IF g THEN Fetch(6) ELSE Free(6)) \o Free(3) \o Free(1)) : g \in BOOLEAN }

\* mutant: errcode is fetched or left
ContextFromTypeLeaves ==
  { Plan("clCreateContextFromType", Platform, <<>>, MemOf(1, <<Platform>>) \o Mem(5),
         If(g, Fetch(5)) \o Free(1)) : g \in BOOLEAN }

ContextFromTypeCalls ==
  { Plan("clCreateContextFromType", Platform, <<>>, MemOf(1, <<Platform>>) \o Mem(5),
         (IF g THEN Fetch(5) ELSE Free(5)) \o Free(1)) : g \in BOOLEAN }

ContextRefCalls(c) ==
  { PlainPlan(f, o) : f \in {"clRetainContext", "clReleaseContext"}, o \in Objects(c) }

QueueCalls(c) == (UNION
  { { Plan("clCreateCommandQueue", o, 1 :> o @@ 2 :> Device, If(g, Mem(4)), If(g, Fetch(4))),
      InfoPlan("clGetCommandQueueInfo", o, 1 :> o, 4, g) } : o \in Objects(c), g \in BOOLEAN })
  \union
  { PlainPlan(f, o) : f \in {"clRetainCommandQueue", "clReleaseCommandQueue"}, o \in Objects(c) }

(* The wait functions and clEnqueueMarker belong here, too. *)
EventCalls(c) ==
  { Plan("clWaitForEvents", e, <<>>, MemOf(2, <<e>>), Free(2)) : e \in Events(c) }
  \union
  { InfoPlan(f, e, 1 :> e, 4, g) :
      f \in {"clGetEventInfo", "clGetEventProfilingInfo"}, e \in Events(c), g \in BOOLEAN }
  \union
  { PlainPlan(f, e) : f \in {"clRetainEvent", "clReleaseEvent"}, e \in Events(c) }
  \union
  { Plan("clEnqueueMarker", q, 1 :> q, If(g, Mem(2)), If(g, Fetch(2))) :
      q \in Objects(c), g \in BOOLEAN }
  \union
  { Plan("clEnqueueWaitForEvents", q, 1 :> q, List(3, es), FreeList(3, es)) :
      q \in Objects(c), es \in Waits(c) }
  \union
  { PlainPlan(f, q) : f \in {"clEnqueueBarrier", "clFlush", "clFinish"}, q \in Objects(c) }

(* The value of an argument may be the id of an object. *)
KernelCalls(c) == (UNION
  { { Plan("clCreateKernel", o, 1 :> o, Mem(2) \o If(g, Mem(3)), Free(2) \o If(g, Fetch(3))),
      InfoPlan("clGetKernelInfo", o, 1 :> o, 4, g) } : o \in Objects(c), g \in BOOLEAN })
  \union
  { Plan("clSetKernelArg", k, 1 :> k, MemOf(4, value), Free(4)) :
      k \in Objects(c), value \in {<<>>} \union {<<o>> : o \in Objects(c)} }
  \union
  { PlainPlan(f, o) : f \in {"clRetainKernel", "clReleaseKernel"}, o \in Objects(c) }

KernelEnqueueCalls(c) == UNION
  { { Plan("clEnqueueNDRangeKernel", q, 1 :> q @@ 2 :> k,
           Mem(4) \o Mem(5) \o Mem(6) \o List(8, es) \o If(g, Mem(9)),
           Free(4) \o Free(5) \o Free(6) \o FreeList(8, es) \o If(g, Fetch(9))),
      Plan("clEnqueueTask", q, 1 :> q @@ 2 :> k, List(4, es) \o If(g, Mem(5)),
           FreeList(4, es) \o If(g, Fetch(5))) } :
      q \in Objects(c), k \in Objects(c), es \in Waits(c), g \in BOOLEAN }

(* What MEMPUT writes into the memory of clEnqueueWriteBuffer is data      *)
(* (Stream).                                                               *)
BufferCalls(c) ==
  { Plan("clCreateBuffer", o, 1 :> o, If(g, Mem(5)) \o If(g, Mem(4)),
         If(g, Fetch(5)) \o If(g, Free(4))) : o \in Objects(c), g \in BOOLEAN }
  \union (UNION
  { { Plan("clEnqueueReadBuffer", q, 1 :> q @@ 2 :> b,
           Mem(6) \o List(8, es) \o If(g, Mem(9)),
           Fetch(6) \o FreeList(8, es) \o If(g, Fetch(9))),
      Plan("clEnqueueWriteBuffer", q, 1 :> q @@ 2 :> b,
           Mem(6) \o List(8, es) \o If(g, Mem(9)),
           Free(6) \o FreeList(8, es) \o If(g, Fetch(9))),
      Plan("clEnqueueCopyBuffer", q, 1 :> q @@ 2 :> b @@ 3 :> b,
           List(8, es) \o If(g, Mem(9)), FreeList(8, es) \o If(g, Fetch(9))) } :
      q \in Objects(c), b \in Objects(c), es \in Waits(c), g \in BOOLEAN })

BufferRefCalls(c) ==
  { PlainPlan(f, o) : f \in {"clRetainMemObject", "clReleaseMemObject"}, o \in Objects(c) }
  \union
  { InfoPlan("clGetMemObjectInfo", o, 1 :> o, 4, g) : o \in Objects(c), g \in BOOLEAN }

(* The strings are allocated one by one, and then the list of their        *)
(* handles.  One string is given, at position 11.                          *)
ProgramCreateCalls(c) ==
  { Plan("clCreateProgramWithSource", o, 1 :> o,
         Mem(11) \o MemOf(3, <<Handle(c, 11)>>) \o If(g, Mem(4)) \o If(g, Mem(5)),
         If(g, Fetch(5)) \o If(g, Free(4)) \o Free(11) \o Free(3)) :
      o \in Objects(c), g \in BOOLEAN }

ProgramCalls(c) == (UNION
  { { Plan("clBuildProgram", o, 1 :> o, If(g, MemOf(3, <<Device>>)) \o If(g, Mem(4)),
           If(g, Free(3)) \o If(g, Free(4))),
      InfoPlan("clGetProgramInfo", o, 1 :> o, 4, g),
      InfoPlan("clGetProgramBuildInfo", o, 1 :> o @@ 2 :> Device, 5, g) } :
      o \in Objects(c), g \in BOOLEAN })
  \union
  { PlainPlan(f, o) : f \in {"clRetainProgram", "clReleaseProgram"}, o \in Objects(c) }
  \union
  { Plan("clUnloadCompiler", Null, <<>>, <<>>, <<>>) }

Calls(c) ==
  { p \in PlatformCalls \union DeviceCalls \union ContextCreateCalls
          \union ContextFromTypeCalls \union ContextRefCalls(c) \union QueueCalls(c)
          \union EventCalls(c) \union KernelCalls(c) \union KernelEnqueueCalls(c)
          \union BufferCalls(c) \union BufferRefCalls(c)
          \union ProgramCreateCalls(c) \union ProgramCalls(c) : p.fun \in Uses[c] }

-----------------------------------------------------------------------------
(* The functions of the agent, file by file: what they do with the agent's *)
(* objects.  The rest of the tables are functions that do nothing.         *)

ContextFunctions(effect) ==
  CASE effect = "create" -> {"clCreateContext", "clCreateContextFromType"}
    [] effect = "retain" -> {"clRetainContext"}
    [] effect = "release" -> {"clReleaseContext"}
    [] OTHER -> {}
QueueFunctions(effect) ==
  CASE effect = "create" -> {"clCreateCommandQueue"}
    [] effect = "retain" -> {"clRetainCommandQueue"}
    [] effect = "release" -> {"clReleaseCommandQueue"}
    [] OTHER -> {}
BufferFunctions(effect) ==
  CASE effect = "create" -> {"clCreateBuffer"}
    [] effect = "retain" -> {"clRetainMemObject"}
    [] effect = "release" -> {"clReleaseMemObject"}
    [] effect = "event" -> {"clEnqueueReadBuffer", "clEnqueueWriteBuffer", "clEnqueueCopyBuffer"}
    [] OTHER -> {}
ProgramFunctions(effect) ==
  CASE effect = "create" -> {"clCreateProgramWithSource"}
    [] effect = "retain" -> {"clRetainProgram"}
    [] effect = "release" -> {"clReleaseProgram"}
    [] effect = "unload" -> {"clUnloadCompiler"}
    [] OTHER -> {}
KernelFunctions(effect) ==
  CASE effect = "create" -> {"clCreateKernel"}
    [] effect = "retain" -> {"clRetainKernel"}
    [] effect = "release" -> {"clReleaseKernel"}
    [] effect = "event" -> {"clEnqueueNDRangeKernel", "clEnqueueTask"}
    [] OTHER -> {}
EventFunctions(effect) ==
  CASE effect = "retain" -> {"clRetainEvent"}
    [] effect = "release" -> {"clReleaseEvent"}
    [] effect = "event" -> {"clEnqueueMarker"}
    [] OTHER -> {}

With(effect) == ContextFunctions(effect) \union QueueFunctions(effect)
                \union BufferFunctions(effect) \union ProgramFunctions(effect)
                \union KernelFunctions(effect) \union EventFunctions(effect)

\* mutant: the agent does not count releases
PreTableRetains(f) == IF f \in With("retain") THEN "retain" ELSE "none"

(* What is called before the provider: pre_exec_fun_table.                 *)
PreTable(f) == CASE f \in With("retain") -> "retain"
                 [] f \in With("release") -> "release"
                 [] OTHER -> "none"

(* What is called after it: post_exec_fun_table.  Queries of platforms and *)
(* devices write to memory in the agent.  The events of clEnqueueMarker    *)
(* have a function, but no entry.                                          *)
PostTable(f) == CASE f \in With("create") -> "create"
                  [] f \in With("unload") -> "unload"
                  [] f \in With("event") \ {"clEnqueueMarker"} -> "event"
                  [] f \in {"clGetPlatformIDs", "clGetPlatformInfo", "clGetDeviceIDs"} -> "query"
                  [] f = "clGetDeviceInfo" -> "device"
                  [] OTHER -> "none"

(* The argument whose event is mapped: AGENT_GENERIC_MAP_EVENT(n).         *)
MapArg(f) == CASE f = "clEnqueueTask" -> 5
               [] f = "clEnqueueMarker" -> 2
               [] OTHER -> 9

(* exec_fun_table: the arguments the provider turns into pointers.  The    *)
(* calls of a kind have the same ones.                                     *)
ExecTable(f) ==
  CASE f \in With("retain") \union With("release")
           \union {"clEnqueueBarrier", "clFlush", "clFinish"} -> {1}
    [] f \in {"clGetCommandQueueInfo", "clGetMemObjectInfo", "clGetProgramInfo",
              "clGetKernelInfo", "clGetEventInfo", "clGetEventProfilingInfo",
              "clGetDeviceInfo"} -> {1, 4, 5}
    [] f \in {"clEnqueueReadBuffer", "clEnqueueWriteBuffer"} -> {1, 2, 6, 8, 9}
    [] f = "clCreateContext" -> {1, 3, 4, 5, 6}
    [] f \in {"clCreateContextFromType", "clCreateProgramWithSource"} -> {1, 3, 4, 5}
    [] f = "clCreateCommandQueue" -> {1, 2, 4}
    [] f = "clCreateBuffer" -> {1, 4, 5}
    [] f = "clEnqueueCopyBuffer" -> {1, 2, 3, 8, 9}
    [] f = "clBuildProgram" -> {1, 3, 4}
    [] f = "clGetProgramBuildInfo" -> {1, 2, 5, 6}
    [] f = "clCreateKernel" -> {1, 2, 3}
    [] f = "clSetKernelArg" -> {1, 4}
    [] f = "clEnqueueNDRangeKernel" -> {1, 2, 4, 5, 6, 8, 9}
    [] f = "clEnqueueTask" -> {1, 2, 4, 5}
    [] f = "clWaitForEvents" -> {2}
    [] f = "clEnqueueMarker" -> {1, 2}
    [] f = "clEnqueueWaitForEvents" -> {1, 3}
    [] OTHER -> {}

(* Only the arguments a function has are looked at: opencl_get_clfuninfo.  *)
Argc(f) == CASE f \in With("retain") \union With("release")
                   \union {"clEnqueueBarrier", "clFlush", "clFinish"} -> 1
             [] f \in {"clWaitForEvents", "clEnqueueMarker"} -> 2
             [] f \in {"clGetPlatformIDs", "clCreateKernel", "clEnqueueWaitForEvents"} -> 3
             [] f \in {"clCreateCommandQueue", "clSetKernelArg"} -> 4
             [] f \in {"clCreateContext", "clBuildProgram", "clGetProgramBuildInfo"} -> 6
             [] f \in With("event") \ {"clEnqueueTask", "clEnqueueMarker"} -> 9
             [] f = "clUnloadCompiler" -> 0
             [] OTHER -> 5

(* Of the lists, those whose items the provider's functions replace by     *)
(* what the ids or handles stand for.  A function that cannot translate a  *)
(* list asserts.                                                           *)
BufferLists(f) ==
  IF f \in {"clEnqueueReadBuffer", "clEnqueueWriteBuffer", "clEnqueueCopyBuffer"} THEN {8} ELSE {}
\* mutant: clEnqueueTask passes its wait list on as it is
KernelListsRange(f) == IF f = "clEnqueueNDRangeKernel" THEN {8} ELSE {}

KernelLists(f) == CASE f = "clEnqueueNDRangeKernel" -> {8}
                    [] f = "clEnqueueTask" -> {4}
                    [] OTHER -> {}
ProgramLists(f) == IF f \in {"clCreateProgramWithSource", "clBuildProgram"} THEN {3} ELSE {}
(* provider_find_platform, provider_find_device *)
ContextLists(f) == CASE f = "clCreateContext" -> {1, 3}
                     [] f = "clCreateContextFromType" -> {1}
                     [] OTHER -> {}
(* clWaitForEvents, clEnqueueWaitForEvents *)
EventLists(f) == {}

ListsOf(f) == BufferLists(f) \union KernelLists(f) \union ProgramLists(f)
              \union ContextLists(f) \union EventLists(f)

(* clSetKernelArg takes a value of the right size for an id if it is one.  *)
GuessedOf(f) == IF f = "clSetKernelArg" THEN {4} ELSE {}

-----------------------------------------------------------------------------
(* The consumer and the agent *)

Idle == [at |-> "idle"]
InCall(c, at) == failed = "none" /\ call[c].at = at
Goto(c, at) == call' = [call EXCEPT ![c].at = at]
Fails(assertion) ==
  /\ failed' = assertion
  /\ UNCHANGED <<objects, allocs, idmap, memory, vendor, held, foreign>>

Init ==
  /\ objects = <<>> /\ memory = <<>> /\ vendor = <<>>
  /\ allocs = [c \in Consumers |-> {}]
  /\ idmap = [id \in {Platform, Device} |-> Ptr(id)]
  /\ held = [c \in Consumers |-> <<>>]
  /\ call = [c \in Consumers |-> Idle]
  /\ failed = "none" /\ foreign = {}

(* set_find(agent->objects, hint): the platform and the device are there.  *)
Known(id) == id \in DOMAIN objects \union {Platform, Device}

(* The memory of a call: what its arguments point to.                      *)
Given(p) == {p.in[i].pos : i \in DOMAIN p.in}
DataOf(p, pos) == p.in[CHOOSE i \in DOMAIN p.in : p.in[i].pos = pos].data
Handles(c, p) == {Handle(c, pos) : pos \in Given(p)}
WithData(c, p) == [h \in Handles(c, p) |-> DataOf(p, h[2])]

Called(p, at) == [at |-> at, plan |-> p, ret |-> Null]

\* mutant: the provider allocates memory and does not map its handle
AllocateUnmapped(c, p) ==
  IF p.hint = Null
  THEN /\ allocs' = [allocs EXCEPT ![c] = Handles(c, p)]
       /\ UNCHANGED <<idmap, memory>>
  ELSE /\ memory' = memory @@ WithData(c, p)
       /\ UNCHANGED <<allocs, idmap>>

(* ALLOCATE: memory in the agent if there is no hint, else the provider's. *)
(* One step for all the memory of a call, as no one else can see it.       *)
Allocate(c, p) ==
  IF p.hint = Null
  THEN /\ allocs' = [allocs EXCEPT ![c] = Handles(c, p)]
       /\ UNCHANGED <<idmap, memory>>
  ELSE /\ memory' = memory @@ WithData(c, p)
       /\ idmap' = idmap @@ [h \in Handles(c, p) |-> Ptr(h)]
       /\ UNCHANGED allocs

Begin(c) ==
  /\ InCall(c, "idle")
  /\ \E p \in Calls(c) :
       /\ p.hint = Null \/ Known(p.hint)
       /\ p.fun \in With("retain") => held[c][p.hint].refs < MaxRefs
       /\ Allocate(c, p)
       /\ call' = [call EXCEPT ![c] = Called(p, "called")]
  /\ foreign' = {}
  /\ UNCHANGED <<objects, vendor, held, failed>>

(* The first message with a hint the agent does not know ends the agent.   *)
AsksUnknown(c) ==
  /\ InCall(c, "idle")
  /\ \E p \in Calls(c) :
       /\ p.hint # Null /\ ~Known(p.hint)
       /\ call' = [call EXCEPT ![c] = Called(p, "called")]
  /\ Fails("hint")

\* mutant: an object nobody refers to stays
ReleasedKept(os, id) == [os EXCEPT ![id].refs = @ - 1]

(* object_release: the object is gone when nobody refers to it.            *)
Released(os, id) ==
  IF os[id].refs = 1 THEN [i \in DOMAIN os \ {id} |-> os[i]]
  ELSE [os EXCEPT ![id].refs = @ - 1]

(* The part of agent_execute before the provider is asked.                 *)
Execute(c) ==
  LET p == call[c].plan IN
  /\ InCall(c, "called")
  /\ IF PreTable(p.fun) # "none" /\ objects[p.hint].consumer # c
     THEN Fails("retain") /\ UNCHANGED call
     ELSE /\ objects' = CASE PreTable(p.fun) = "retain" -> [objects EXCEPT ![p.hint].refs = @ + 1]
                          [] PreTable(p.fun) = "release" -> Released(objects, p.hint)
                          [] OTHER -> objects
          /\ Goto(c, IF p.hint # Null \/ PostTable(p.fun) = "unload" THEN "remote" ELSE "post")
          /\ UNCHANGED <<allocs, idmap, memory, vendor, held, failed, foreign>>

-----------------------------------------------------------------------------
(* The provider *)

ArgOf(c, p) == p.ids @@ [pos \in Given(p) |-> Handle(c, pos)]

(* provider_id_map is called for these arguments.                          *)
Masked(p) == ExecTable(p.fun) \intersect (1 .. Argc(p.fun))
               \intersect (DOMAIN p.ids \union Given(p))
Translated(v) == IF v \in DOMAIN idmap THEN idmap[v] ELSE v

ItemsOf(p, positions) ==
  UNION {Range(DataOf(p, pos)) : pos \in positions \intersect Given(p)}

(* All that the vendor gets to see: arguments, items of lists, values.     *)
Passed(c, p) ==
  {IF pos \in Masked(p) THEN Translated(ArgOf(c, p)[pos]) ELSE ArgOf(c, p)[pos] :
     pos \in (DOMAIN p.ids \union Given(p)) \intersect (1 .. Argc(p.fun))}
  \union
  LET translated == ListsOf(p.fun) \union GuessedOf(p.fun)
  IN {Translated(v) : v \in ItemsOf(p, translated)}
     \union ItemsOf(p, (1 .. Argc(p.fun)) \ translated)

(* What the vendor knows, and pointers into memory that is there.          *)
Usable(v) == v \in DOMAIN vendor \union {Ptr(x) : x \in {Platform, Device} \union DOMAIN memory}

(* The vendor has executed a function and returned result.                 *)
Returns(c, result) ==
  /\ call' = [call EXCEPT ![c] = [@ EXCEPT !.at = "post", !.ret = result]]
  /\ foreign' = IF \A v \in Passed(c, call[c].plan) : Usable(v) THEN {} ELSE {call[c].plan.fun}
  /\ UNCHANGED <<objects, allocs, idmap, held, failed>>

(* An event is written to where the last argument points.                  *)
WantsEvent(p) == p.fun \in With("event") /\ Argc(p.fun) \in Given(p)
MakesObject(p) == p.fun \in With("create") \/ WantsEvent(p)

(* CL_OUT_OF_RESOURCES and the like: no object, no event.                  *)
VendorFails(c, p) ==
  /\ VendorRefuses /\ MakesObject(p)
  /\ UNCHANGED <<vendor, memory>>
  /\ Returns(c, Null)

VendorMakes(c, p) ==
  /\ MakesObject(p)
  /\ \E real \in Reals \ DOMAIN vendor :
       /\ vendor' = vendor @@ real :> [refs |-> 1]
       /\ memory' = IF WantsEvent(p)
                    THEN [memory EXCEPT ![Handle(c, Argc(p.fun))] = <<real>>]
                    ELSE memory
       /\ Returns(c, real)

(* Queries whose answer may be an object: its context, queue or program.   *)
(* Only clGetEventInfo puts an id in its place, the first in the map that  *)
(* stands for the object (mapping_find_by_real).                           *)
Queries == {"clGetCommandQueueInfo", "clGetMemObjectInfo", "clGetProgramInfo",
            "clGetKernelInfo", "clGetEventInfo"}
IsAnswered(p) == p.fun \in Queries /\ 4 \in Given(p)

Answers(c, p) ==
  LET reals == {idmap[o] : o \in Objects(c)}
  IN {<<>>} \union
     (IF p.fun = "clGetEventInfo"
      THEN {<<id>> : id \in {i \in DOMAIN idmap : idmap[i] \in reals}}
      ELSE {<<real>> : real \in reals})

VendorDoes(c, p) ==
  /\ ~MakesObject(p)
  /\ vendor' = LET real == idmap[p.hint] IN
               CASE p.fun \in With("retain") -> [vendor EXCEPT ![real].refs = @ + 1]
                 [] p.fun \in With("release") -> Released(vendor, real)
                 [] OTHER -> vendor
  /\ IF IsAnswered(p)
     THEN \E a \in Answers(c, p) : memory' = [memory EXCEPT ![Handle(c, 4)] = a]
     ELSE UNCHANGED memory
  /\ Returns(c, Null)

(* clara_execute with exec_fun_table: an argument or an item of a list     *)
(* that has no mapping ends the provider.                                  *)
Remote(c) ==
  LET p == call[c].plan IN
  /\ InCall(c, "remote")
  /\ IF \E pos \in Masked(p) : ArgOf(c, p)[pos] \notin DOMAIN idmap
     THEN Fails("handle") /\ UNCHANGED call
     ELSE IF ~(ItemsOf(p, ListsOf(p.fun)) \subseteq DOMAIN idmap)
     THEN Fails("list") /\ UNCHANGED call
     ELSE VendorFails(c, p) \/ VendorMakes(c, p) \/ VendorDoes(c, p)

-----------------------------------------------------------------------------
(* The part of agent_execute after the provider has answered *)

Posting(c, effect) == InCall(c, "post") /\ PostTable(call[c].plan.fun) = effect

(* An id is drawn for a new object, and the provider told: MAPPING, or as  *)
(* part of the answer to MAPATPTR.  It asserts that the id has no mapping. *)
Maps(c, id, real) ==
  /\ idmap' = idmap @@ id :> real
  /\ objects' = objects @@ id :> [consumer |-> c, refs |-> 1]

(* AGENT_GENERIC_CREATE, clCreateObject *)
PostCreate(c) ==
  /\ Posting(c, "create")
  /\ IF call[c].ret = Null
     THEN /\ Goto(c, "end")
          /\ UNCHANGED <<objects, idmap, allocs, memory, vendor, held, failed, foreign>>
     ELSE \E id \in Ids \ DOMAIN objects :
            IF id \in DOMAIN idmap
            THEN Fails("mapping") /\ UNCHANGED call
            ELSE /\ Maps(c, id, call[c].ret)
                 /\ call' = [call EXCEPT ![c] = [@ EXCEPT !.at = "end", !.ret = id]]
                 /\ UNCHANGED <<allocs, memory, vendor, held, failed, foreign>>

(* AGENT_GENERIC_MAP_EVENT: the provider reads the event from memory and   *)
(* puts the id in its place.  No object can be made of no event.           *)
PostEvent(c) ==
  LET h == Handle(c, MapArg(call[c].plan.fun)) IN
  /\ Posting(c, "event")
  /\ IF h \notin Handles(c, call[c].plan)
     THEN /\ Goto(c, "end")
          /\ UNCHANGED <<objects, idmap, allocs, memory, vendor, held, failed, foreign>>
     ELSE \E id \in Ids \ DOMAIN objects :
            CASE id \in DOMAIN idmap -> Fails("mapping") /\ UNCHANGED call
              [] id \notin DOMAIN idmap /\ memory[h] = <<>> -> Fails("event") /\ UNCHANGED call
              [] OTHER -> /\ Maps(c, id, memory[h][1])
                          /\ memory' = [memory EXCEPT ![h] = <<id>>]
                          /\ Goto(c, "end")
                          /\ UNCHANGED <<allocs, vendor, held, failed, foreign>>

(* CL_DEVICE_AVAILABLE: agent_device_is_available asks the provider with a *)
(* fetch request whose stream options are copied from NULL.                *)
AsksAvailable(c) ==
  /\ Posting(c, "device") /\ Available \in Range(call[c].plan.ids)
  /\ Fails("available") /\ UNCHANGED call

(* Queries, and functions without an entry.                                *)
PostOther(c) ==
  /\ InCall(c, "post") /\ PostTable(call[c].plan.fun) \notin {"create", "event"}
  /\ Available \notin Range(call[c].plan.ids)
  /\ Goto(c, "end")
  /\ UNCHANGED <<objects, idmap, allocs, memory, vendor, held, failed, foreign>>

-----------------------------------------------------------------------------
(* FETCH and FREE, and what the application has got *)

Without(f, keys) == [k \in DOMAIN f \ keys |-> f[k]]

(* The event an enqueue function has put where it was told to.             *)
EventGot(c, p) ==
  IF WantsEvent(p) THEN Range(memory[Handle(c, Argc(p.fun))]) ELSE {}

(* The object a query has answered with.                                   *)
AnswerGot(c, p) == IF IsAnswered(p) THEN Range(memory[Handle(c, 4)]) ELSE {}

Got(c) ==
  LET p == call[c].plan
  IN CASE p.fun \in With("create") ->
            IF call[c].ret = Null THEN held[c]
            ELSE held[c] @@ call[c].ret :> [event |-> FALSE, refs |-> 1]
       [] p.fun \in With("event") ->
            held[c] @@ [e \in EventGot(c, p) |-> [event |-> TRUE, refs |-> 1]]
       [] p.fun \in With("retain") -> [held[c] EXCEPT ![p.hint].refs = @ + 1]
       [] p.fun \in With("release") -> Released(held[c], p.hint)
       [] OTHER -> held[c]

Finish(c) ==
  LET p == call[c].plan
      out == {Handle(c, p.out[i].pos) : i \in DOMAIN p.out}
  IN /\ InCall(c, "end")
     /\ allocs' = [allocs EXCEPT ![c] = @ \ out]
     /\ memory' = Without(memory, out) /\ idmap' = Without(idmap, out)
     /\ held' = [held EXCEPT ![c] = Got(c)]
     /\ call' = [call EXCEPT ![c] = Idle]
     /\ foreign' = IF EventGot(c, p) \subseteq Ids /\ AnswerGot(c, p) \subseteq Objects(c)
                   THEN {} ELSE {p.fun}
     /\ UNCHANGED <<objects, vendor, failed>>

(* The application ends, and the agent's thread notices when it has sent   *)
(* its answer.  Memory in the agent that is left is destroyed with the     *)
(* help of consumer->agent, which is NULL by now; objects and the memory   *)
(* in the provider stay.                                                   *)
Gone(c) ==
  /\ \E at \in {"idle", "called", "end"} : InCall(c, at)
  /\ IF allocs[c] # {}
     THEN Fails("exit") /\ UNCHANGED call
     ELSE /\ call' = [call EXCEPT ![c] = [at |-> "gone"]]
          /\ held' = [held EXCEPT ![c] = <<>>]
          /\ UNCHANGED <<objects, allocs, idmap, memory, vendor, failed, foreign>>

Next == \E c \in Consumers :
  \/ Begin(c) \/ AsksUnknown(c) \/ Execute(c) \/ Remote(c)
  \/ PostCreate(c) \/ PostEvent(c) \/ AsksAvailable(c) \/ PostOther(c)
  \/ Finish(c) \/ Gone(c)

Spec == Init /\ [][Next]_vars

-----------------------------------------------------------------------------
(* Properties *)

PartialFunctions(S, T) == UNION {[D -> T] : D \in SUBSET S}

(* The agent's objects have ids and are owned and referred to; what an     *)
(* application holds it refers to; the provider maps all its memory.       *)
TypeOK ==
  /\ objects \in PartialFunctions(Ids, [consumer : Consumers, refs : 1 .. MaxRefs])
  /\ vendor \in PartialFunctions(Reals, [refs : 1 .. MaxRefs])
  /\ \A c \in Consumers :
       /\ DOMAIN held[c] \subseteq Ids \union Reals
       /\ \A v \in DOMAIN held[c] : held[c][v] \in [event : BOOLEAN, refs : 1 .. MaxRefs]
       /\ call[c].at \in {"idle", "called", "remote", "post", "end", "gone"}
  /\ DOMAIN memory \subseteq DOMAIN idmap
  /\ failed \in {"none", "hint", "retain", "handle", "list", "mapping", "event",
                 "available", "exit"}

(* Between two calls of an application there is nothing left of the        *)
(* memory allocated for them, in the agent, in the provider and in its     *)
(* map: every stub gives back what it asked for, on the side it asked for  *)
(* it.                                                                     *)
NothingLeft ==
  \A c \in Consumers : call[c].at = "idle" =>
    /\ allocs[c] = {}
    /\ \A h \in DOMAIN idmap \ (Ids \union {Platform, Device}) : h[1] # c

(* The agent and the vendor count the references to an object by           *)
(* themselves.  They agree, and with the application, on every object      *)
(* whose owner is not in the middle of a call; no two ids mean the same    *)
(* object.                                                                 *)
ReferencesAgree ==
  failed = "none" =>
    /\ \A id \in DOMAIN objects :
         LET c == objects[id].consumer IN
         call[c].at \in {"idle", "called", "gone"} =>
           /\ id \in DOMAIN idmap /\ idmap[id] \in DOMAIN vendor
           /\ vendor[idmap[id]].refs = objects[id].refs
           /\ call[c].at # "gone" =>
                id \in DOMAIN held[c] /\ held[c][id].refs = objects[id].refs
           /\ \A other \in DOMAIN objects \ {id} : idmap[other] # idmap[id]
    /\ \A c \in Consumers : call[c].at = "idle" => DOMAIN held[c] \intersect Ids \subseteq DOMAIN objects

(* The vendor is never given an id or a handle of Clara's, nor an          *)
(* application a pointer of the vendor's, except by the two functions that *)
(* wait for events, by clEnqueueMarker, and by the queries that answer     *)
(* with an object.  clGetEventInfo does translate its answer, but          *)
(* possibly to an id given up long ago that the provider still maps.       *)
CrossingsListed ==
  foreign \subseteq {"clWaitForEvents", "clEnqueueWaitForEvents", "clEnqueueMarker"} \union Queries

(* The same without the exceptions: "The application should run within the *)
(* limits of CLara" (README.md:91), and none of the limits are these.      *)
AllTranslated == foreign = {}

(* What ends the agent or the provider: an application that uses the event *)
(* of a marker, a command the vendor did not enqueue, an id drawn again    *)
(* that the provider still maps, the question for CL_DEVICE_AVAILABLE, an  *)
(* application that ends in the middle of a call.  An application that     *)
(* meets none of these runs to its end.                                    *)
AssertionsExplained ==
  /\ failed \notin {"handle", "retain"}
  /\ failed = "hint" => \E c \in Consumers : call[c].at = "called" /\ call[c].plan.hint \in Reals
  /\ failed = "list" => \E c \in Consumers :
       /\ call[c].at = "remote"
       /\ ItemsOf(call[c].plan, ListsOf(call[c].plan.fun)) \intersect Reals # {}
  /\ failed = "event" => \E c \in Consumers : call[c].at = "post" /\ call[c].ret = Null
  /\ failed = "mapping" => ~(Ids \intersect DOMAIN idmap \subseteq DOMAIN objects)
  /\ failed = "exit" => \E c \in Consumers : call[c].at \in {"called", "end"}

=============================================================================
