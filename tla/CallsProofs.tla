----------------------------- MODULE CallsProofs -----------------------------
(***************************************************************************)
(* Proofs about Calls, for all applications, ids, objects of the vendor's  *)
(* library and numbers of references.                                      *)
(*                                                                         *)
(* While nothing has failed, an object is followed through the steps of a  *)
(* call by what the agent has counted already and the vendor, or the       *)
(* application, has not (Counted).  A real object that belongs to no       *)
(* object of the agent yet, or any more, belongs to the call that is in    *)
(* between (Claimed).                                                      *)
(***************************************************************************)
EXTENDS Calls, SequenceTheorems, TLAPS

-----------------------------------------------------------------------------
(***************************************************************************)
(* The tables and the plans of Calls: what all calls have in common        *)
(* (PlanFacts), h being what the application holds.  It is all that the    *)
(* invariant below needs to know of them.                                  *)
(***************************************************************************)

\* the positions of a sequence of allocations or fetches
Positions(s) == {s[i].pos : i \in DOMAIN s}

\* what the memory allocated for a position holds
ItemsAt(s, pos) == UNION {Range(s[i].data) : i \in {j \in DOMAIN s : s[j].pos = pos}}

\* of what an application holds, all but the events
ObjectsOf(h) == {v \in DOMAIN h : ~h[v].event}

Listed == {"clWaitForEvents", "clEnqueueWaitForEvents", "clEnqueueMarker"} \union Queries

Counting == With("retain") \union With("release")

\* every argument is translated, and every item of a list
Covers(p) ==
  LET positions == (DOMAIN p.ids \union Positions(p.in)) \intersect (1 .. Argc(p.fun))
  IN /\ positions \subseteq ExecTable(p.fun)
     /\ \A n \in positions \ (ListsOf(p.fun) \union GuessedOf(p.fun)) : ItemsAt(p.in, n) = {}

PlanFacts(c, h, p) ==
  /\ Positions(p.out) = Positions(p.in) /\ Positions(p.in) \subseteq Nat
  /\ p.hint \in DOMAIN h \union {Platform, Null}
  /\ p.fun \in Counting => p.hint \in DOMAIN h
  /\ p.fun \in With("create") \union With("event") => p.hint # Null
  /\ p.hint # Null => \A n \in DOMAIN p.ids : p.ids[n] \in ObjectsOf(h) \union {p.hint, Platform, Device}
  /\ p.hint = Null /\ p.fun \in With("unload") => DOMAIN p.ids = {} /\ p.in = <<>>
  /\ \A n \in Nat : ItemsAt(p.in, n) \subseteq DOMAIN h \union {Platform, Device} \union Handles(c, p)
  /\ p.fun = "clSetKernelArg" => ItemsAt(p.in, 4) \subseteq ObjectsOf(h)
  /\ \A i \in DOMAIN p.in :
       p.fun \in With("event") /\ p.in[i].pos = Argc(p.fun) => p.in[i].data = <<>>
  /\ p.hint # Null /\ p.fun \notin Listed => Covers(p)

-----------------------------------------------------------------------------
(* Tables and functions *)

\* a table with one entry
LEMMA EntryIs == \A k, v : DOMAIN (Entry(k, v)) = {k} /\ Entry(k, v)[k] = v
BY DEF Entry

\* two tables in one, of which the first is asked first
LEMMA MergedDomain ==
  \A f, g : DOMAIN (Merged(f, g)) = DOMAIN f \union DOMAIN g
BY DEF Merged

\* what it has for a key
LEMMA MergedValues ==
  ASSUME NEW f, NEW g, NEW h, h = Merged(f, g)
  PROVE  /\ \A x \in DOMAIN f : x \in DOMAIN h /\ h[x] = f[x]
         /\ \A x \in DOMAIN g : x \in DOMAIN h /\ (x \notin DOMAIN f => h[x] = g[x])
BY DEF Merged

\* one entry is added
LEMMA EntryDomain ==
  ASSUME NEW f, NEW k, NEW v, NEW h, h = Merged(f, Entry(k, v))
  PROVE  DOMAIN h = DOMAIN f \union {k}
<1>1. DOMAIN (Entry(k, v)) = {k}
  BY DEF Entry
<1> QED BY <1>1, MergedDomain

\* a table with one entry more: what it has for a key
LEMMA EntryValues ==
  ASSUME NEW f, NEW k, NEW v, k \notin DOMAIN f, NEW h, h = Merged(f, Entry(k, v))
  PROVE  /\ k \in DOMAIN h /\ h[k] = v
         /\ \A x \in DOMAIN f : x \in DOMAIN h /\ h[x] = f[x]
<1>1. PICK e : e = Entry(k, v)
  OBVIOUS
<1>2. DOMAIN e = {k} /\ e[k] = v
  BY <1>1, EntryIs
<1>3. h = Merged(f, e)
  BY <1>1
<1>4. /\ \A x \in DOMAIN f : x \in DOMAIN h /\ h[x] = f[x]
      /\ \A x \in DOMAIN e : x \in DOMAIN h /\ (x \notin DOMAIN f => h[x] = e[x])
  BY <1>3, MergedValues
<1> QED BY <1>2, <1>4

Creates == {"clCreateContext", "clCreateContextFromType", "clCreateCommandQueue",
            "clCreateBuffer", "clCreateProgramWithSource", "clCreateKernel"}
Retains == {"clRetainContext", "clRetainCommandQueue", "clRetainMemObject", "clRetainProgram",
            "clRetainKernel", "clRetainEvent"}
Releases == {"clReleaseContext", "clReleaseCommandQueue", "clReleaseMemObject",
             "clReleaseProgram", "clReleaseKernel", "clReleaseEvent"}
Enqueues == {"clEnqueueReadBuffer", "clEnqueueWriteBuffer", "clEnqueueCopyBuffer",
             "clEnqueueNDRangeKernel", "clEnqueueTask", "clEnqueueMarker"}

\* the functions of every effect, from all files of the agent
LEMMA Effects ==
  /\ With("create") = Creates /\ With("retain") = Retains /\ With("release") = Releases
  /\ With("event") = Enqueues /\ With("unload") = {"clUnloadCompiler"}
<1> USE DEF With, ContextFunctions, QueueFunctions, BufferFunctions, ProgramFunctions,
            KernelFunctions, EventFunctions
<1>1. With("create") = Creates
  BY DEF Creates
<1>2. With("retain") = Retains
  BY DEF Retains
<1>3. With("release") = Releases
  BY DEF Releases
<1>4. With("event") = Enqueues
  BY DEF Enqueues
<1>5. With("unload") = {"clUnloadCompiler"}
  OBVIOUS
<1> QED BY <1>1, <1>2, <1>3, <1>4, <1>5

\* no function has two effects
LEMMA Disjoint ==
  /\ With("create") \intersect With("event") = {} /\ With("create") \intersect Counting = {}
  /\ With("event") \intersect Counting = {} /\ With("retain") \intersect With("release") = {}
  /\ With("unload") \intersect (Counting \union With("create") \union With("event")) = {}
BY Effects DEF Counting, Creates, Retains, Releases, Enqueues

\* the agent's tables
LEMMA Dispatch ==
  ASSUME NEW f
  PROVE  /\ PreTable(f) = "retain" <=> f \in With("retain")
         /\ PreTable(f) = "release" <=> f \in With("release")
         /\ PreTable(f) # "none" <=> f \in Counting
         /\ PostTable(f) = "create" <=> f \in With("create")
         /\ PostTable(f) = "unload" <=> f \in With("unload")
         /\ PostTable(f) = "event" <=> f \in With("event") /\ f # "clEnqueueMarker"
<1>1. /\ PreTable(f) = "retain" <=> f \in With("retain")
      /\ PreTable(f) = "release" <=> f \in With("release")
      /\ PreTable(f) # "none" <=> f \in Counting
  BY Disjoint DEF PreTable, Counting
<1>2. CASE f \in With("create") \union With("event") \union With("unload")
  BY <1>1, <1>2, Effects, Disjoint DEF PostTable, Creates, Enqueues
<1>3. CASE f \notin With("create") \union With("event") \union With("unload")
  BY <1>1, <1>3 DEF PostTable
<1> QED BY <1>2, <1>3

\* how many arguments the functions have that the provider executes
LEMMA Arguments ==
  /\ \A f \in Counting \union {"clEnqueueBarrier", "clFlush", "clFinish"} : Argc(f) = 1
  /\ \A f \in {"clWaitForEvents", "clEnqueueMarker"} : Argc(f) = 2
  /\ \A f \in {"clCreateKernel", "clEnqueueWaitForEvents"} : Argc(f) = 3
  /\ \A f \in {"clCreateCommandQueue", "clSetKernelArg"} : Argc(f) = 4
  /\ \A f \in {"clCreateContext", "clBuildProgram", "clGetProgramBuildInfo"} : Argc(f) = 6
  /\ \A f \in Enqueues \ {"clEnqueueTask", "clEnqueueMarker"} : Argc(f) = 9
  /\ \A f \in {"clEnqueueTask", "clCreateContextFromType", "clCreateBuffer",
               "clCreateProgramWithSource", "clGetEventProfilingInfo"} : Argc(f) = 5
  /\ Argc("clUnloadCompiler") = 0
<1>1. \A f \in Counting \union {"clEnqueueBarrier", "clFlush", "clFinish"} : Argc(f) = 1
  BY Effects DEF Argc, Counting, Retains, Releases, Enqueues
<1>2. \A f \in {"clWaitForEvents", "clEnqueueMarker"} : Argc(f) = 2
  BY Effects DEF Argc, Retains, Releases, Enqueues
<1>3. \A f \in {"clCreateKernel", "clEnqueueWaitForEvents"} : Argc(f) = 3
  BY Effects DEF Argc, Retains, Releases, Enqueues
<1>4. \A f \in {"clCreateCommandQueue", "clSetKernelArg"} : Argc(f) = 4
  BY Effects DEF Argc, Retains, Releases, Enqueues
<1>5. \A f \in {"clCreateContext", "clBuildProgram", "clGetProgramBuildInfo"} : Argc(f) = 6
  BY Effects DEF Argc, Retains, Releases, Enqueues
<1>6. \A f \in Enqueues \ {"clEnqueueTask", "clEnqueueMarker"} : Argc(f) = 9
  BY Effects DEF Argc, Retains, Releases, Enqueues
<1>7. \A f \in {"clEnqueueTask", "clCreateContextFromType", "clCreateBuffer",
                "clCreateProgramWithSource", "clGetEventProfilingInfo"} : Argc(f) = 5
  BY Effects DEF Argc, Retains, Releases, Enqueues
<1>8. Argc("clUnloadCompiler") = 0
  BY Effects DEF Argc, Retains, Releases, Enqueues
<1> QED BY <1>1, <1>2, <1>3, <1>4, <1>5, <1>6, <1>7, <1>8

\* the event of a function is its last argument
LEMMA LastArgument == \A f \in With("event") : MapArg(f) = Argc(f) /\ Argc(f) \in Nat
BY Effects, Arguments DEF MapArg, Enqueues

\* the arguments the provider looks at
LEMMA Table ==
  /\ \A f \in Counting \union {"clEnqueueBarrier", "clFlush", "clFinish"} : ExecTable(f) = {1}
  /\ ExecTable("clGetEventProfilingInfo") = {1, 4, 5}
  /\ ExecTable("clGetProgramBuildInfo") = {1, 2, 5, 6}
  /\ \A f \in {"clEnqueueReadBuffer", "clEnqueueWriteBuffer"} : ExecTable(f) = {1, 2, 6, 8, 9}
  /\ ExecTable("clCreateContext") = {1, 3, 4, 5, 6}
  /\ \A f \in {"clCreateContextFromType", "clCreateProgramWithSource"} : ExecTable(f) = {1, 3, 4, 5}
  /\ ExecTable("clCreateCommandQueue") = {1, 2, 4}
  /\ ExecTable("clCreateBuffer") = {1, 4, 5}
  /\ ExecTable("clEnqueueCopyBuffer") = {1, 2, 3, 8, 9}
  /\ ExecTable("clBuildProgram") = {1, 3, 4}
  /\ ExecTable("clCreateKernel") = {1, 2, 3}
  /\ ExecTable("clSetKernelArg") = {1, 4}
  /\ ExecTable("clEnqueueNDRangeKernel") = {1, 2, 4, 5, 6, 8, 9}
  /\ ExecTable("clEnqueueTask") = {1, 2, 4, 5}
<1> DEFINE E == Counting \union {"clEnqueueBarrier", "clFlush", "clFinish"}
<1>1. \A f \in E : ExecTable(f) = {1}
  BY Effects DEF ExecTable, Counting, Retains, Releases
<1>2. E = Retains \union Releases \union {"clEnqueueBarrier", "clFlush", "clFinish"}
  BY Effects DEF Counting
<1>3. \A f : f \notin E =>
        ExecTable(f) =
          CASE f \in {"clGetCommandQueueInfo", "clGetMemObjectInfo", "clGetProgramInfo",
                      "clGetKernelInfo", "clGetEventInfo", "clGetEventProfilingInfo",
                      "clGetDeviceInfo"} -> {1, 4, 5}
            [] f \in {"clEnqueueReadBuffer", "clEnqueueWriteBuffer"} -> {1, 2, 6, 8, 9}
            [] f = "clCreateContext" -> {1, 3, 4, 5, 6}
            [] f \in {"clCreateContextFromType", "clCreateProgramWithSource"} -> {1, 3, 4, 5}
            [] f = "clCreateCommandQueue" -> {1, 2, 4}
            [] f = "clCreateBuffer" -> {1, 4, 5}
            [] f = "clEnqueueCopyBuffer" -> {1, 2, 3, 8, 9}
            [] f = "clBuildProgram" -> {1, 3, 4}
            [] f = "clGetProgramBuildInfo" -> {1, 2, 5, 6}
            [] f = "clCreateKernel" -> {1, 2, 3}
            [] f = "clSetKernelArg" -> {1, 4}
            [] f = "clEnqueueNDRangeKernel" -> {1, 2, 4, 5, 6, 8, 9}
            [] f = "clEnqueueTask" -> {1, 2, 4, 5}
            [] f = "clWaitForEvents" -> {2}
            [] f = "clEnqueueMarker" -> {1, 2}
            [] f = "clEnqueueWaitForEvents" -> {1, 3}
            [] OTHER -> {}
  BY DEF ExecTable, Counting
<1> QED BY <1>1, <1>2, <1>3 DEF Retains, Releases

\* the lists the provider's functions translate
LEMMA Lists ==
  /\ \A f \in {"clEnqueueReadBuffer", "clEnqueueWriteBuffer", "clEnqueueCopyBuffer",
               "clEnqueueNDRangeKernel"} : 8 \in ListsOf(f)
  /\ 4 \in ListsOf("clEnqueueTask")
  /\ \A f \in {"clCreateProgramWithSource", "clBuildProgram"} : 3 \in ListsOf(f)
  /\ 1 \in ListsOf("clCreateContext") /\ 3 \in ListsOf("clCreateContext")
  /\ 1 \in ListsOf("clCreateContextFromType")
  /\ 4 \in GuessedOf("clSetKernelArg")
BY DEF ListsOf, GuessedOf, BufferLists, KernelLists, ProgramLists, ContextLists, EventLists

-----------------------------------------------------------------------------
(* What a plan allocates and gives back *)

\* a sequence of allocations whose contents are in V, and of fetches and frees
Allocations(V) == Seq([pos : Nat, data : Seq(V)])
Returned == Seq([pos : Nat, fetch : BOOLEAN])

\* the items of a list
LEMMA RangeSeq == ASSUME NEW V, NEW s \in Seq(V) PROVE Range(s) \subseteq V /\ (Range(s) = {} => s = <<>>)
<1>1. Len(s) \in Nat /\ DOMAIN s = 1..Len(s) /\ \A i \in DOMAIN s : s[i] \in V
  BY LenProperties, ElementOfSeq
<1>2. Range(s) \subseteq V
  BY <1>1 DEF Range
<1>3. ASSUME Range(s) = {} PROVE s = <<>>
  <2>1. DOMAIN s = {}
    BY <1>3 DEF Range
  <2>2. Len(s) = 0
    BY <1>1, <2>1
  <2> QED BY <2>2, EmptySeq
<1> QED BY <1>2, <1>3

\* what the memory for a position holds is what is allocated with it
LEMMA AllocationsHold ==
  ASSUME NEW V, NEW s \in Allocations(V)
  PROVE  Positions(s) \subseteq Nat /\ \A n : ItemsAt(s, n) \subseteq V
<1>1. PICK R : R = [pos : Nat, data : Seq(V)]
  OBVIOUS
<1>2. s \in Seq(R)
  BY <1>1 DEF Allocations
<1>3. \A i \in DOMAIN s : s[i] \in R
  BY <1>2, LenProperties, ElementOfSeq
<1>4. \A i \in DOMAIN s : s[i].pos \in Nat /\ s[i].data \in Seq(V)
  BY <1>1, <1>3
<1>5. \A i \in DOMAIN s : Range(s[i].data) \subseteq V
  BY <1>4, RangeSeq
<1> QED BY <1>4, <1>5 DEF Positions, ItemsAt

\* The three ways a sequence is made: one step, one or none, and one after another.
LEMMA OneAllocated ==
  ASSUME NEW V, NEW n \in Nat, NEW d \in Seq(V)
  PROVE  /\ MemOf(n, d) \in Allocations(V) /\ Positions(MemOf(n, d)) = {n}
         /\ \A m : ItemsAt(MemOf(n, d), m) = IF m = n THEN Range(d) ELSE {}
<1>1. PICK e : e = [pos |-> n, data |-> d]
  OBVIOUS
<1>2. e.pos = n /\ e.data = d /\ e \in [pos : Nat, data : Seq(V)]
  BY <1>1
<1>3. PICK s : s = <<e>>
  OBVIOUS
<1>4. s \in Seq([pos : Nat, data : Seq(V)]) /\ DOMAIN s = {1} /\ s[1] = e
  BY <1>2, <1>3
<1>5. MemOf(n, d) = s
  BY <1>1, <1>3 DEF MemOf
<1>6. Positions(s) = {n}
  BY <1>2, <1>4 DEF Positions
<1>7. ASSUME NEW m PROVE ItemsAt(s, m) = IF m = n THEN Range(d) ELSE {}
  BY <1>2, <1>4 DEF ItemsAt
<1> QED BY <1>4, <1>5, <1>6, <1>7 DEF Allocations

\* MALLOC and CALLOC allocate memory with nothing in it yet
LEMMA BlankAllocated ==
  ASSUME NEW V, NEW n \in Nat
  PROVE  /\ Mem(n) \in Allocations(V) /\ Positions(Mem(n)) = {n}
         /\ \A m : ItemsAt(Mem(n), m) = {}
<1>1. PICK d : d = <<>>
  OBVIOUS
<1>2. Mem(n) = MemOf(n, d)
  BY <1>1 DEF Mem, MemOf
<1>3. d \in Seq(V) /\ Range(d) = {}
  BY <1>1, EmptySeq DEF Range
<1> QED BY <1>2, <1>3, OneAllocated

\* a call may allocate nothing
LEMMA NoneAllocated ==
  ASSUME NEW V
  PROVE  <<>> \in Allocations(V) /\ Positions(<<>>) = {} /\ \A m : ItemsAt(<<>>, m) = {}
<1>1. <<>> \in Seq([pos : Nat, data : Seq(V)]) /\ DOMAIN <<>> = {}
  OBVIOUS
<1> QED BY <1>1 DEF Allocations, Positions, ItemsAt

\* memory for a pointer that may be NULL
LEMMA MaybeAllocated ==
  ASSUME NEW V, NEW g \in BOOLEAN, NEW s \in Allocations(V)
  PROVE  /\ If(g, s) \in Allocations(V) /\ Positions(If(g, s)) = IF g THEN Positions(s) ELSE {}
         /\ \A m : ItemsAt(If(g, s), m) = IF g THEN ItemsAt(s, m) ELSE {}
<1>1. CASE g
  BY <1>1 DEF If
<1>2. CASE ~g
  BY <1>2, NoneAllocated DEF If
<1> QED BY <1>1, <1>2

\* the items of two sequences, one after the other
LEMMA Concatenated ==
  ASSUME NEW S, NEW s \in Seq(S), NEW t \in Seq(S)
  PROVE  /\ s \o t \in Seq(S)
         /\ \A i \in DOMAIN s : i \in DOMAIN (s \o t) /\ (s \o t)[i] = s[i]
         /\ \A i \in DOMAIN t : \E j \in DOMAIN (s \o t) : (s \o t)[j] = t[i]
         /\ \A i \in DOMAIN (s \o t) : \/ i \in DOMAIN s /\ (s \o t)[i] = s[i]
                                       \/ \E j \in DOMAIN t : (s \o t)[i] = t[j]
<1>1. /\ s \o t \in Seq(S) /\ Len(s \o t) = Len(s) + Len(t)
      /\ \A i \in 1..(Len(s) + Len(t)) : (s \o t)[i] = IF i <= Len(s) THEN s[i] ELSE t[i - Len(s)]
  BY ConcatProperties
<1>2. /\ Len(s) \in Nat /\ Len(t) \in Nat /\ DOMAIN s = 1..Len(s) /\ DOMAIN t = 1..Len(t)
      /\ DOMAIN (s \o t) = 1..(Len(s) + Len(t))
  BY <1>1, LenProperties
<1>3. ASSUME NEW i \in DOMAIN t PROVE \E j \in DOMAIN (s \o t) : (s \o t)[j] = t[i]
  <2>1. Len(s) + i \in 1..(Len(s) + Len(t)) /\ ~(Len(s) + i <= Len(s)) /\ (Len(s) + i) - Len(s) = i
    BY <1>2
  <2> QED BY <1>1, <1>2, <2>1
<1>4. ASSUME NEW i \in DOMAIN (s \o t)
      PROVE  \/ i \in DOMAIN s /\ (s \o t)[i] = s[i]
             \/ \E j \in DOMAIN t : (s \o t)[i] = t[j]
  <2>1. CASE i <= Len(s)
    BY <1>1, <1>2, <2>1
  <2>2. CASE ~(i <= Len(s))
    <3>1. i - Len(s) \in 1..Len(t)
      BY <1>2, <2>2
    <3> QED BY <1>1, <1>2, <2>2, <3>1
  <2> QED BY <2>1, <2>2
<1>5. ASSUME NEW i \in DOMAIN s PROVE i \in DOMAIN (s \o t) /\ (s \o t)[i] = s[i]
  BY <1>1, <1>2
<1> QED BY <1>1, <1>3, <1>4, <1>5

\* memory for two pointers
LEMMA BothAllocated ==
  ASSUME NEW V, NEW s \in Allocations(V), NEW t \in Allocations(V)
  PROVE  /\ s \o t \in Allocations(V) /\ Positions(s \o t) = Positions(s) \union Positions(t)
         /\ \A m : ItemsAt(s \o t, m) = ItemsAt(s, m) \union ItemsAt(t, m)
<1>1. PICK u : u = s \o t
  OBVIOUS
<1>2. /\ u \in Allocations(V)
      /\ \A i \in DOMAIN s : i \in DOMAIN u /\ u[i] = s[i]
      /\ \A i \in DOMAIN t : \E j \in DOMAIN u : u[j] = t[i]
      /\ \A i \in DOMAIN u : \/ i \in DOMAIN s /\ u[i] = s[i]
                             \/ \E j \in DOMAIN t : u[i] = t[j]
  BY <1>1, Concatenated, SMTT(60) DEF Allocations
<1>3. Positions(u) = Positions(s) \union Positions(t)
  BY <1>2 DEF Positions
<1>4. \A m : ItemsAt(u, m) = ItemsAt(s, m) \union ItemsAt(t, m)
  BY <1>2 DEF ItemsAt
<1> QED BY <1>1, <1>2, <1>3, <1>4

\* FETCH and FREE give back the memory of one position
LEMMA OneReturned ==
  ASSUME NEW n \in Nat
  PROVE  /\ Fetch(n) \in Returned /\ Free(n) \in Returned
         /\ Positions(Fetch(n)) = {n} /\ Positions(Free(n)) = {n}
<1>1. ASSUME NEW b \in BOOLEAN
      PROVE  <<[pos |-> n, fetch |-> b]>> \in Returned /\ Positions(<<[pos |-> n, fetch |-> b]>>) = {n}
  <2>1. PICK e : e = [pos |-> n, fetch |-> b]
    OBVIOUS
  <2>2. e.pos = n /\ e \in [pos : Nat, fetch : BOOLEAN]
    BY <2>1
  <2>3. PICK s : s = <<e>>
    OBVIOUS
  <2>4. s \in Seq([pos : Nat, fetch : BOOLEAN]) /\ DOMAIN s = {1} /\ s[1] = e
    BY <2>2, <2>3
  <2>5. Positions(s) = {n}
    BY <2>2, <2>4 DEF Positions
  <2> QED BY <2>1, <2>3, <2>4, <2>5 DEF Returned
<1> QED BY <1>1 DEF Fetch, Free

\* a call may give back nothing
LEMMA NoneReturned == <<>> \in Returned
BY DEF Returned

\* memory for a pointer that may be NULL is given back if it was allocated
LEMMA MaybeReturned ==
  ASSUME NEW g \in BOOLEAN, NEW s \in Returned
  PROVE  If(g, s) \in Returned /\ Positions(If(g, s)) = IF g THEN Positions(s) ELSE {}
BY NoneReturned, NoneAllocated DEF If

\* memory for two pointers is given back
LEMMA BothReturned ==
  ASSUME NEW s \in Returned, NEW t \in Returned
  PROVE  s \o t \in Returned /\ Positions(s \o t) = Positions(s) \union Positions(t)
<1>1. PICK u : u = s \o t
  OBVIOUS
<1>2. /\ u \in Returned
      /\ \A i \in DOMAIN s : i \in DOMAIN u /\ u[i] = s[i]
      /\ \A i \in DOMAIN t : \E j \in DOMAIN u : u[j] = t[i]
      /\ \A i \in DOMAIN u : \/ i \in DOMAIN s /\ u[i] = s[i]
                             \/ \E j \in DOMAIN t : u[i] = t[j]
  BY <1>1, Concatenated DEF Returned
<1>3. Positions(u) = Positions(s) \union Positions(t)
  BY <1>2 DEF Positions
<1> QED BY <1>1, <1>2, <1>3

-----------------------------------------------------------------------------
(* What the plans have in common *)

\* the ids of a call with one argument that is an id
LEMMA OneArgument ==
  ASSUME NEW v
  PROVE  DOMAIN (1 :> v) = {1} /\ (1 :> v)[1] = v
BY EntryIs DEF :>

\* with two
LEMMA TwoArguments ==
  ASSUME NEW v, NEW w
  PROVE  /\ DOMAIN (1 :> v @@ 2 :> w) = {1, 2}
         /\ (1 :> v @@ 2 :> w)[1] = v /\ (1 :> v @@ 2 :> w)[2] = w
<1>1. PICK f : f = Entry(1, v)
  OBVIOUS
<1>2. DOMAIN f = {1} /\ f[1] = v
  BY <1>1, EntryIs
<1>3. PICK g : g = Merged(f, Entry(2, w))
  OBVIOUS
<1>4. DOMAIN g = {1, 2} /\ g[1] = v /\ g[2] = w
  <2>1. DOMAIN g = DOMAIN f \union {2}
    BY <1>3, EntryDomain
  <2>2. 2 \notin DOMAIN f
    BY <1>2
  <2>3. g[2] = w /\ \A n \in DOMAIN f : g[n] = f[n]
    BY <1>3, <2>2, EntryValues
  <2> QED BY <1>2, <2>1, <2>3
<1>5. (1 :> v @@ 2 :> w) = g
  BY <1>1, <1>3 DEF @@, :>
<1> QED BY <1>4, <1>5

\* and with three
LEMMA ThreeArguments ==
  ASSUME NEW v, NEW w, NEW x
  PROVE  /\ DOMAIN (1 :> v @@ 2 :> w @@ 3 :> x) = {1, 2, 3}
         /\ (1 :> v @@ 2 :> w @@ 3 :> x)[1] = v /\ (1 :> v @@ 2 :> w @@ 3 :> x)[2] = w
         /\ (1 :> v @@ 2 :> w @@ 3 :> x)[3] = x
<1>1. PICK f : f = (1 :> v @@ 2 :> w)
  OBVIOUS
<1>2. DOMAIN f = {1, 2} /\ f[1] = v /\ f[2] = w
  BY <1>1, TwoArguments
<1>3. PICK g : g = Merged(f, Entry(3, x))
  OBVIOUS
<1>4. DOMAIN g = {1, 2, 3} /\ g[1] = v /\ g[2] = w /\ g[3] = x
  <2>1. DOMAIN g = DOMAIN f \union {3}
    BY <1>3, EntryDomain
  <2>2. 3 \notin DOMAIN f
    BY <1>2
  <2>3. g[3] = x /\ \A n \in DOMAIN f : g[n] = f[n]
    BY <1>3, <2>2, EntryValues
  <2> QED BY <1>2, <2>1, <2>3
<1>5. (1 :> v @@ 2 :> w @@ 3 :> x) = g
  BY <1>1, <1>3 DEF @@, :>
<1> QED BY <1>4, <1>5

\* s allocates memory at the positions ps, and puts items of V into it at the positions ns only
Allocates(V, s, ps, ns) ==
  s \in Allocations(V) /\ Positions(s) = ps /\ \A n : n \notin ns => ItemsAt(s, n) = {}

\* t gives back memory at the positions ps
GivesBack(t, ps) == t \in Returned /\ Positions(t) = ps

\* MALLOC, CALLOC
LEMMA AllocatesBlank == ASSUME NEW V, NEW n \in Nat PROVE Allocates(V, Mem(n), {n}, {})
BY BlankAllocated DEF Allocates

\* MALLOC with contents
LEMMA AllocatesOne ==
  ASSUME NEW V, NEW n \in Nat, NEW d \in Seq(V) PROVE Allocates(V, MemOf(n, d), {n}, {n})
BY OneAllocated DEF Allocates

\* a list with one item
LEMMA AllocatesItem ==
  ASSUME NEW V, NEW n \in Nat, NEW v \in V PROVE Allocates(V, MemOf(n, <<v>>), {n}, {n})
<1>1. PICK d : d = <<v>>
  OBVIOUS
<1>2. d \in Seq(V)
  BY <1>1
<1> QED BY <1>1, <1>2, AllocatesOne

\* a pointer that may be NULL
LEMMA AllocatesMaybe ==
  ASSUME NEW V, NEW s, NEW ps, NEW ns, NEW g \in BOOLEAN, Allocates(V, s, ps, ns)
  PROVE  Allocates(V, If(g, s), IF g THEN ps ELSE {}, ns)
BY MaybeAllocated DEF Allocates

\* one allocation after the other
LEMMA AllocatesBoth ==
  ASSUME NEW V, NEW s, NEW ps, NEW ns, Allocates(V, s, ps, ns),
         NEW t, NEW qs, NEW ms, Allocates(V, t, qs, ms)
  PROVE  Allocates(V, s \o t, ps \union qs, ns \union ms)
<1>1. /\ s \o t \in Allocations(V) /\ Positions(s \o t) = Positions(s) \union Positions(t)
      /\ \A m : ItemsAt(s \o t, m) = ItemsAt(s, m) \union ItemsAt(t, m)
  BY BothAllocated DEF Allocates
<1>2. PICK u : u = s \o t
  OBVIOUS
<1> QED BY <1>1, <1>2 DEF Allocates

\* FETCH, FREE
LEMMA GivesBackOne == ASSUME NEW n \in Nat PROVE GivesBack(Fetch(n), {n}) /\ GivesBack(Free(n), {n})
BY OneReturned DEF GivesBack

\* of a pointer that may be NULL
LEMMA GivesBackMaybe ==
  ASSUME NEW t, NEW ps, NEW g \in BOOLEAN, GivesBack(t, ps)
  PROVE  GivesBack(If(g, t), IF g THEN ps ELSE {})
BY MaybeReturned DEF GivesBack

\* one after the other
LEMMA GivesBackBoth ==
  ASSUME NEW s, NEW ps, GivesBack(s, ps), NEW t, NEW qs, GivesBack(t, qs)
  PROVE  GivesBack(s \o t, ps \union qs)
BY BothReturned DEF GivesBack

\* a plan with a hint that counts nothing
LEMMA Fits ==
  ASSUME NEW c, NEW h, Null \notin DOMAIN h,
         NEW f, NEW o \in DOMAIN h \union {Platform}, NEW ids, NEW V, NEW s, NEW t, NEW ps, NEW ns,
         Allocates(V, s, ps, ns), GivesBack(t, ps),
         V \subseteq DOMAIN h \union {Platform, Device} \union {Handle(c, n) : n \in ps},
         \A n \in DOMAIN ids : ids[n] \in ObjectsOf(h) \union {o, Platform, Device},
         f \notin Counting, f \in With("event") => Argc(f) \notin ns,
         f = "clSetKernelArg" => V \subseteq ObjectsOf(h),
         f \notin Listed => /\ (DOMAIN ids \union ps) \intersect (1 .. Argc(f)) \subseteq ExecTable(f)
                           /\ ns \subseteq ListsOf(f) \union GuessedOf(f)
  PROVE  PlanFacts(c, h, Plan(f, o, ids, s, t))
<1>1. PICK p : p = Plan(f, o, ids, s, t)
  OBVIOUS
<1>2. p.fun = f /\ p.hint = o /\ p.ids = ids /\ p.in = s /\ p.out = t
  BY <1>1 DEF Plan
<1>3. Null # Platform
  BY CallsAssumption
<1>4. /\ s \in Allocations(V) /\ Positions(s) = ps /\ Positions(t) = ps
      /\ \A n : n \notin ns => ItemsAt(s, n) = {}
  BY DEF Allocates, GivesBack
<1>5. Positions(s) \subseteq Nat /\ \A n : ItemsAt(s, n) \subseteq V
  BY <1>4, AllocationsHold
<1>6. Handles(c, p) = {Handle(c, n) : n \in ps}
  BY <1>2, <1>4 DEF Handles, Given, Positions
<1>7. \A i \in DOMAIN s : f \in With("event") /\ s[i].pos = Argc(f) => s[i].data = <<>>
  <2>1. PICK R : R = [pos : Nat, data : Seq(V)]
    OBVIOUS
  <2>2. s \in Seq(R)
    BY <1>4, <2>1 DEF Allocations
  <2>3. \A i \in DOMAIN s : s[i] \in R
    BY <2>2, LenProperties, ElementOfSeq
  <2>4. \A i \in DOMAIN s : s[i].data \in Seq(V)
    BY <2>1, <2>3
  <2>5. ASSUME NEW i \in DOMAIN s, f \in With("event"), s[i].pos = Argc(f)
        PROVE  Range(s[i].data) = {}
    <3>1. ItemsAt(s, Argc(f)) = {}
      BY <1>4, <2>5
    <3> QED BY <2>5, <3>1 DEF ItemsAt
  <2> QED BY <2>4, <2>5, RangeSeq
<1>8. p.fun \notin Listed => Covers(p)
  BY <1>2, <1>4 DEF Covers
<1> QED BY <1>1, <1>2, <1>3, <1>4, <1>5, <1>6, <1>7, <1>8, Disjoint DEF PlanFacts

\* what clEnqueueNDRangeKernel allocates, passes and gives back is a plan
LEMMA NDRangeFits ==
  ASSUME NEW c, NEW h, Null \notin DOMAIN h, NEW q \in ObjectsOf(h)
         , NEW k \in ObjectsOf(h), NEW es \in Seq(DOMAIN h), NEW g \in BOOLEAN
  PROVE  PlanFacts(c, h, Plan("clEnqueueNDRangeKernel", q, 1 :> q @@ 2 :> k,
           Mem(4) \o Mem(5) \o Mem(6) \o List(8, es) \o If(g, Mem(9)),
           Free(4) \o Free(5) \o Free(6) \o FreeList(8, es) \o If(g, Fetch(9))))
<1> DEFINE V == DOMAIN h
           ps == {4} \union {5} \union {6} \union (IF es # <<>> THEN {8} ELSE {}) \union (IF g THEN {9} ELSE {})
           s == Mem(4) \o Mem(5) \o Mem(6) \o List(8, es) \o If(g, Mem(9))
           t == Free(4) \o Free(5) \o Free(6) \o FreeList(8, es) \o If(g, Fetch(9))
           ids == 1 :> q @@ 2 :> k
<1>1. Allocates(V, s, ps, {8})
  <2>1. Allocates(V, List(8, es), IF es # <<>> THEN {8} ELSE {}, {8})
    BY AllocatesOne, AllocatesMaybe DEF List
  <2>2. Allocates(V, s, ps, {} \union {} \union {} \union {8} \union {})
    BY <2>1, AllocatesBlank, AllocatesMaybe, AllocatesBoth
  <2> QED BY <2>2
<1>2. GivesBack(t, ps)
  <2>1. GivesBack(FreeList(8, es), IF es # <<>> THEN {8} ELSE {})
    BY GivesBackOne, GivesBackMaybe DEF FreeList
  <2> QED BY <2>1, GivesBackOne, GivesBackMaybe, GivesBackBoth
<1>3. q \in DOMAIN h \union {Platform}
  BY DEF ObjectsOf
<1>4. DOMAIN ids = {1, 2} /\ \A n \in DOMAIN ids : ids[n] \in ObjectsOf(h) \union {q, Platform, Device}
  BY TwoArguments
<1>5. V \subseteq DOMAIN h \union {Platform, Device} \union {Handle(c, n) : n \in ps}
  OBVIOUS
<1>6. PICK f : f = "clEnqueueNDRangeKernel"
  OBVIOUS
<1>7. /\ f \notin Counting
      /\ f \in With("event") => Argc(f) \notin {8}
      /\ f = "clSetKernelArg" => V \subseteq ObjectsOf(h)
  BY <1>6, Effects, Arguments DEF Counting, Retains, Releases, Enqueues
<1>8. f \notin Listed => /\ (DOMAIN ids \union ps) \intersect (1 .. Argc(f)) \subseteq ExecTable(f)
                         /\ {8} \subseteq ListsOf(f) \union GuessedOf(f)
  BY <1>4, <1>6, Table, Lists, Arguments DEF Listed
<1> HIDE DEF V, ps, s, t, ids
<1>9. PlanFacts(c, h, Plan(f, q, ids, s, t))
  BY <1>1, <1>2, <1>3, <1>4, <1>5, <1>7, <1>8, Fits, Zenon
<1> QED BY <1>6, <1>9 DEF ids, s, t

\* the same of clEnqueueTask
LEMMA TaskFits ==
  ASSUME NEW c, NEW h, Null \notin DOMAIN h, NEW q \in ObjectsOf(h)
         , NEW k \in ObjectsOf(h), NEW es \in Seq(DOMAIN h), NEW g \in BOOLEAN
  PROVE  PlanFacts(c, h, Plan("clEnqueueTask", q, 1 :> q @@ 2 :> k,
           List(4, es) \o If(g, Mem(5)),
           FreeList(4, es) \o If(g, Fetch(5))))
<1> DEFINE V == DOMAIN h
           ps == (IF es # <<>> THEN {4} ELSE {}) \union (IF g THEN {5} ELSE {})
           s == List(4, es) \o If(g, Mem(5))
           t == FreeList(4, es) \o If(g, Fetch(5))
           ids == 1 :> q @@ 2 :> k
<1>1. Allocates(V, s, ps, {4})
  <2>1. Allocates(V, List(4, es), IF es # <<>> THEN {4} ELSE {}, {4})
    BY AllocatesOne, AllocatesMaybe DEF List
  <2>2. Allocates(V, s, ps, {4} \union {})
    BY <2>1, AllocatesBlank, AllocatesMaybe, AllocatesBoth
  <2> QED BY <2>2
<1>2. GivesBack(t, ps)
  <2>1. GivesBack(FreeList(4, es), IF es # <<>> THEN {4} ELSE {})
    BY GivesBackOne, GivesBackMaybe DEF FreeList
  <2> QED BY <2>1, GivesBackOne, GivesBackMaybe, GivesBackBoth
<1>3. q \in DOMAIN h \union {Platform}
  BY DEF ObjectsOf
<1>4. DOMAIN ids = {1, 2} /\ \A n \in DOMAIN ids : ids[n] \in ObjectsOf(h) \union {q, Platform, Device}
  BY TwoArguments
<1>5. V \subseteq DOMAIN h \union {Platform, Device} \union {Handle(c, n) : n \in ps}
  OBVIOUS
<1>6. PICK f : f = "clEnqueueTask"
  OBVIOUS
<1>7. /\ f \notin Counting
      /\ f \in With("event") => Argc(f) \notin {4}
      /\ f = "clSetKernelArg" => V \subseteq ObjectsOf(h)
  BY <1>6, Effects, Arguments DEF Counting, Retains, Releases, Enqueues
<1>8. f \notin Listed => /\ (DOMAIN ids \union ps) \intersect (1 .. Argc(f)) \subseteq ExecTable(f)
                         /\ {4} \subseteq ListsOf(f) \union GuessedOf(f)
  BY <1>4, <1>6, Table, Lists, Arguments DEF Listed
<1> HIDE DEF V, ps, s, t, ids
<1>9. PlanFacts(c, h, Plan(f, q, ids, s, t))
  BY <1>1, <1>2, <1>3, <1>4, <1>5, <1>7, <1>8, Fits, Zenon
<1> QED BY <1>6, <1>9 DEF ids, s, t

\* clEnqueueReadBuffer
LEMMA ReadFits ==
  ASSUME NEW c, NEW h, Null \notin DOMAIN h, NEW q \in ObjectsOf(h)
         , NEW b \in ObjectsOf(h), NEW es \in Seq(DOMAIN h), NEW g \in BOOLEAN
  PROVE  PlanFacts(c, h, Plan("clEnqueueReadBuffer", q, 1 :> q @@ 2 :> b,
           Mem(6) \o List(8, es) \o If(g, Mem(9)),
           Fetch(6) \o FreeList(8, es) \o If(g, Fetch(9))))
<1> DEFINE V == DOMAIN h
           ps == {6} \union (IF es # <<>> THEN {8} ELSE {}) \union (IF g THEN {9} ELSE {})
           s == Mem(6) \o List(8, es) \o If(g, Mem(9))
           t == Fetch(6) \o FreeList(8, es) \o If(g, Fetch(9))
           ids == 1 :> q @@ 2 :> b
<1>1. Allocates(V, s, ps, {8})
  <2>1. Allocates(V, List(8, es), IF es # <<>> THEN {8} ELSE {}, {8})
    BY AllocatesOne, AllocatesMaybe DEF List
  <2>2. Allocates(V, s, ps, {} \union {8} \union {})
    BY <2>1, AllocatesBlank, AllocatesMaybe, AllocatesBoth
  <2> QED BY <2>2
<1>2. GivesBack(t, ps)
  <2>1. GivesBack(FreeList(8, es), IF es # <<>> THEN {8} ELSE {})
    BY GivesBackOne, GivesBackMaybe DEF FreeList
  <2> QED BY <2>1, GivesBackOne, GivesBackMaybe, GivesBackBoth
<1>3. q \in DOMAIN h \union {Platform}
  BY DEF ObjectsOf
<1>4. DOMAIN ids = {1, 2} /\ \A n \in DOMAIN ids : ids[n] \in ObjectsOf(h) \union {q, Platform, Device}
  BY TwoArguments
<1>5. V \subseteq DOMAIN h \union {Platform, Device} \union {Handle(c, n) : n \in ps}
  OBVIOUS
<1>6. PICK f : f = "clEnqueueReadBuffer"
  OBVIOUS
<1>7. /\ f \notin Counting
      /\ f \in With("event") => Argc(f) \notin {8}
      /\ f = "clSetKernelArg" => V \subseteq ObjectsOf(h)
  BY <1>6, Effects, Arguments DEF Counting, Retains, Releases, Enqueues
<1>8. f \notin Listed => /\ (DOMAIN ids \union ps) \intersect (1 .. Argc(f)) \subseteq ExecTable(f)
                         /\ {8} \subseteq ListsOf(f) \union GuessedOf(f)
  BY <1>4, <1>6, Table, Lists, Arguments DEF Listed
<1> HIDE DEF V, ps, s, t, ids
<1>9. PlanFacts(c, h, Plan(f, q, ids, s, t))
  BY <1>1, <1>2, <1>3, <1>4, <1>5, <1>7, <1>8, Fits, Zenon
<1> QED BY <1>6, <1>9 DEF ids, s, t

\* clEnqueueWriteBuffer
LEMMA WriteFits ==
  ASSUME NEW c, NEW h, Null \notin DOMAIN h, NEW q \in ObjectsOf(h)
         , NEW b \in ObjectsOf(h), NEW es \in Seq(DOMAIN h), NEW g \in BOOLEAN
  PROVE  PlanFacts(c, h, Plan("clEnqueueWriteBuffer", q, 1 :> q @@ 2 :> b,
           Mem(6) \o List(8, es) \o If(g, Mem(9)),
           Free(6) \o FreeList(8, es) \o If(g, Fetch(9))))
<1> DEFINE V == DOMAIN h
           ps == {6} \union (IF es # <<>> THEN {8} ELSE {}) \union (IF g THEN {9} ELSE {})
           s == Mem(6) \o List(8, es) \o If(g, Mem(9))
           t == Free(6) \o FreeList(8, es) \o If(g, Fetch(9))
           ids == 1 :> q @@ 2 :> b
<1>1. Allocates(V, s, ps, {8})
  <2>1. Allocates(V, List(8, es), IF es # <<>> THEN {8} ELSE {}, {8})
    BY AllocatesOne, AllocatesMaybe DEF List
  <2>2. Allocates(V, s, ps, {} \union {8} \union {})
    BY <2>1, AllocatesBlank, AllocatesMaybe, AllocatesBoth
  <2> QED BY <2>2
<1>2. GivesBack(t, ps)
  <2>1. GivesBack(FreeList(8, es), IF es # <<>> THEN {8} ELSE {})
    BY GivesBackOne, GivesBackMaybe DEF FreeList
  <2> QED BY <2>1, GivesBackOne, GivesBackMaybe, GivesBackBoth
<1>3. q \in DOMAIN h \union {Platform}
  BY DEF ObjectsOf
<1>4. DOMAIN ids = {1, 2} /\ \A n \in DOMAIN ids : ids[n] \in ObjectsOf(h) \union {q, Platform, Device}
  BY TwoArguments
<1>5. V \subseteq DOMAIN h \union {Platform, Device} \union {Handle(c, n) : n \in ps}
  OBVIOUS
<1>6. PICK f : f = "clEnqueueWriteBuffer"
  OBVIOUS
<1>7. /\ f \notin Counting
      /\ f \in With("event") => Argc(f) \notin {8}
      /\ f = "clSetKernelArg" => V \subseteq ObjectsOf(h)
  BY <1>6, Effects, Arguments DEF Counting, Retains, Releases, Enqueues
<1>8. f \notin Listed => /\ (DOMAIN ids \union ps) \intersect (1 .. Argc(f)) \subseteq ExecTable(f)
                         /\ {8} \subseteq ListsOf(f) \union GuessedOf(f)
  BY <1>4, <1>6, Table, Lists, Arguments DEF Listed
<1> HIDE DEF V, ps, s, t, ids
<1>9. PlanFacts(c, h, Plan(f, q, ids, s, t))
  BY <1>1, <1>2, <1>3, <1>4, <1>5, <1>7, <1>8, Fits, Zenon
<1> QED BY <1>6, <1>9 DEF ids, s, t

\* clEnqueueCopyBuffer
LEMMA CopyFits ==
  ASSUME NEW c, NEW h, Null \notin DOMAIN h, NEW q \in ObjectsOf(h)
         , NEW b \in ObjectsOf(h), NEW es \in Seq(DOMAIN h), NEW g \in BOOLEAN
  PROVE  PlanFacts(c, h, Plan("clEnqueueCopyBuffer", q, 1 :> q @@ 2 :> b @@ 3 :> b,
           List(8, es) \o If(g, Mem(9)),
           FreeList(8, es) \o If(g, Fetch(9))))
<1> DEFINE V == DOMAIN h
           ps == (IF es # <<>> THEN {8} ELSE {}) \union (IF g THEN {9} ELSE {})
           s == List(8, es) \o If(g, Mem(9))
           t == FreeList(8, es) \o If(g, Fetch(9))
           ids == 1 :> q @@ 2 :> b @@ 3 :> b
<1>1. Allocates(V, s, ps, {8})
  <2>1. Allocates(V, List(8, es), IF es # <<>> THEN {8} ELSE {}, {8})
    BY AllocatesOne, AllocatesMaybe DEF List
  <2>2. Allocates(V, s, ps, {8} \union {})
    BY <2>1, AllocatesBlank, AllocatesMaybe, AllocatesBoth
  <2> QED BY <2>2
<1>2. GivesBack(t, ps)
  <2>1. GivesBack(FreeList(8, es), IF es # <<>> THEN {8} ELSE {})
    BY GivesBackOne, GivesBackMaybe DEF FreeList
  <2> QED BY <2>1, GivesBackOne, GivesBackMaybe, GivesBackBoth
<1>3. q \in DOMAIN h \union {Platform}
  BY DEF ObjectsOf
<1>4. DOMAIN ids = {1, 2, 3} /\ \A n \in DOMAIN ids : ids[n] \in ObjectsOf(h) \union {q, Platform, Device}
  BY ThreeArguments
<1>5. V \subseteq DOMAIN h \union {Platform, Device} \union {Handle(c, n) : n \in ps}
  OBVIOUS
<1>6. PICK f : f = "clEnqueueCopyBuffer"
  OBVIOUS
<1>7. /\ f \notin Counting
      /\ f \in With("event") => Argc(f) \notin {8}
      /\ f = "clSetKernelArg" => V \subseteq ObjectsOf(h)
  BY <1>6, Effects, Arguments DEF Counting, Retains, Releases, Enqueues
<1>8. f \notin Listed => /\ (DOMAIN ids \union ps) \intersect (1 .. Argc(f)) \subseteq ExecTable(f)
                         /\ {8} \subseteq ListsOf(f) \union GuessedOf(f)
  BY <1>4, <1>6, Table, Lists, Arguments DEF Listed
<1> HIDE DEF V, ps, s, t, ids
<1>9. PlanFacts(c, h, Plan(f, q, ids, s, t))
  BY <1>1, <1>2, <1>3, <1>4, <1>5, <1>7, <1>8, Fits, Zenon
<1> QED BY <1>6, <1>9 DEF ids, s, t

\* clCreateBuffer
LEMMA BufferFits ==
  ASSUME NEW c, NEW h, Null \notin DOMAIN h, NEW o \in ObjectsOf(h)
         , NEW g \in BOOLEAN
  PROVE  PlanFacts(c, h, Plan("clCreateBuffer", o, 1 :> o,
           If(g, Mem(5)) \o If(g, Mem(4)),
           If(g, Fetch(5)) \o If(g, Free(4))))
<1> DEFINE V == DOMAIN h
           ps == (IF g THEN {5} ELSE {}) \union (IF g THEN {4} ELSE {})
           s == If(g, Mem(5)) \o If(g, Mem(4))
           t == If(g, Fetch(5)) \o If(g, Free(4))
           ids == 1 :> o
<1>1. Allocates(V, s, ps, {})
  <2>1. Allocates(V, s, ps, {} \union {})
    BY AllocatesBlank, AllocatesMaybe, AllocatesBoth
  <2> QED BY <2>1
<1>2. GivesBack(t, ps)
  BY GivesBackOne, GivesBackMaybe, GivesBackBoth
<1>3. o \in DOMAIN h \union {Platform}
  BY DEF ObjectsOf
<1>4. DOMAIN ids = {1} /\ \A n \in DOMAIN ids : ids[n] \in ObjectsOf(h) \union {o, Platform, Device}
  BY OneArgument
<1>5. V \subseteq DOMAIN h \union {Platform, Device} \union {Handle(c, n) : n \in ps}
  OBVIOUS
<1>6. PICK f : f = "clCreateBuffer"
  OBVIOUS
<1>7. /\ f \notin Counting
      /\ f \in With("event") => Argc(f) \notin {}
      /\ f = "clSetKernelArg" => V \subseteq ObjectsOf(h)
  BY <1>6, Effects, Arguments DEF Counting, Retains, Releases, Enqueues
<1>8. f \notin Listed => /\ (DOMAIN ids \union ps) \intersect (1 .. Argc(f)) \subseteq ExecTable(f)
                         /\ {} \subseteq ListsOf(f) \union GuessedOf(f)
  BY <1>4, <1>6, Table, Lists, Arguments DEF Listed
<1> HIDE DEF V, ps, s, t, ids
<1>9. PlanFacts(c, h, Plan(f, o, ids, s, t))
  BY <1>1, <1>2, <1>3, <1>4, <1>5, <1>7, <1>8, Fits, Zenon
<1> QED BY <1>6, <1>9 DEF ids, s, t

\* clCreateKernel
LEMMA KernelFits ==
  ASSUME NEW c, NEW h, Null \notin DOMAIN h, NEW o \in ObjectsOf(h)
         , NEW g \in BOOLEAN
  PROVE  PlanFacts(c, h, Plan("clCreateKernel", o, 1 :> o,
           Mem(2) \o If(g, Mem(3)),
           Free(2) \o If(g, Fetch(3))))
<1> DEFINE V == DOMAIN h
           ps == {2} \union (IF g THEN {3} ELSE {})
           s == Mem(2) \o If(g, Mem(3))
           t == Free(2) \o If(g, Fetch(3))
           ids == 1 :> o
<1>1. Allocates(V, s, ps, {})
  <2>1. Allocates(V, s, ps, {} \union {})
    BY AllocatesBlank, AllocatesMaybe, AllocatesBoth
  <2> QED BY <2>1
<1>2. GivesBack(t, ps)
  BY GivesBackOne, GivesBackMaybe, GivesBackBoth
<1>3. o \in DOMAIN h \union {Platform}
  BY DEF ObjectsOf
<1>4. DOMAIN ids = {1} /\ \A n \in DOMAIN ids : ids[n] \in ObjectsOf(h) \union {o, Platform, Device}
  BY OneArgument
<1>5. V \subseteq DOMAIN h \union {Platform, Device} \union {Handle(c, n) : n \in ps}
  OBVIOUS
<1>6. PICK f : f = "clCreateKernel"
  OBVIOUS
<1>7. /\ f \notin Counting
      /\ f \in With("event") => Argc(f) \notin {}
      /\ f = "clSetKernelArg" => V \subseteq ObjectsOf(h)
  BY <1>6, Effects, Arguments DEF Counting, Retains, Releases, Enqueues
<1>8. f \notin Listed => /\ (DOMAIN ids \union ps) \intersect (1 .. Argc(f)) \subseteq ExecTable(f)
                         /\ {} \subseteq ListsOf(f) \union GuessedOf(f)
  BY <1>4, <1>6, Table, Lists, Arguments DEF Listed
<1> HIDE DEF V, ps, s, t, ids
<1>9. PlanFacts(c, h, Plan(f, o, ids, s, t))
  BY <1>1, <1>2, <1>3, <1>4, <1>5, <1>7, <1>8, Fits, Zenon
<1> QED BY <1>6, <1>9 DEF ids, s, t

\* clSetKernelArg
LEMMA KernelArgFits ==
  ASSUME NEW c, NEW h, Null \notin DOMAIN h, NEW k \in ObjectsOf(h)
         , NEW value \in Seq(ObjectsOf(h))
  PROVE  PlanFacts(c, h, Plan("clSetKernelArg", k, 1 :> k,
           MemOf(4, value),
           Free(4)))
<1> DEFINE V == ObjectsOf(h)
           ps == {4}
           s == MemOf(4, value)
           t == Free(4)
           ids == 1 :> k
<1>1. Allocates(V, s, ps, {4})
  <2>1. Allocates(V, MemOf(4, value), {4}, {4})
    BY AllocatesOne
  <2> QED BY <2>1
<1>2. GivesBack(t, ps)
  BY GivesBackOne, GivesBackMaybe, GivesBackBoth
<1>3. k \in DOMAIN h \union {Platform}
  BY DEF ObjectsOf
<1>4. DOMAIN ids = {1} /\ \A n \in DOMAIN ids : ids[n] \in ObjectsOf(h) \union {k, Platform, Device}
  BY OneArgument
<1>5. V \subseteq DOMAIN h \union {Platform, Device} \union {Handle(c, n) : n \in ps}
  BY DEF ObjectsOf
<1>6. PICK f : f = "clSetKernelArg"
  OBVIOUS
<1>7. /\ f \notin Counting
      /\ f \in With("event") => Argc(f) \notin {4}
      /\ f = "clSetKernelArg" => V \subseteq ObjectsOf(h)
  BY <1>6, Effects, Arguments DEF Counting, Retains, Releases, Enqueues
<1>8. f \notin Listed => /\ (DOMAIN ids \union ps) \intersect (1 .. Argc(f)) \subseteq ExecTable(f)
                         /\ {4} \subseteq ListsOf(f) \union GuessedOf(f)
  BY <1>4, <1>6, Table, Lists, Arguments DEF Listed
<1> HIDE DEF V, ps, s, t, ids
<1>9. PlanFacts(c, h, Plan(f, k, ids, s, t))
  BY <1>1, <1>2, <1>3, <1>4, <1>5, <1>7, <1>8, Fits, Zenon
<1> QED BY <1>6, <1>9 DEF ids, s, t

\* clCreateCommandQueue
LEMMA QueueFits ==
  ASSUME NEW c, NEW h, Null \notin DOMAIN h, NEW o \in ObjectsOf(h)
         , NEW g \in BOOLEAN
  PROVE  PlanFacts(c, h, Plan("clCreateCommandQueue", o, 1 :> o @@ 2 :> Device,
           If(g, Mem(4)),
           If(g, Fetch(4))))
<1> DEFINE V == DOMAIN h
           ps == (IF g THEN {4} ELSE {})
           s == If(g, Mem(4))
           t == If(g, Fetch(4))
           ids == 1 :> o @@ 2 :> Device
<1>1. Allocates(V, s, ps, {})
  BY AllocatesBlank, AllocatesMaybe
<1>2. GivesBack(t, ps)
  BY GivesBackOne, GivesBackMaybe, GivesBackBoth
<1>3. o \in DOMAIN h \union {Platform}
  BY DEF ObjectsOf
<1>4. DOMAIN ids = {1, 2} /\ \A n \in DOMAIN ids : ids[n] \in ObjectsOf(h) \union {o, Platform, Device}
  BY TwoArguments
<1>5. V \subseteq DOMAIN h \union {Platform, Device} \union {Handle(c, n) : n \in ps}
  OBVIOUS
<1>6. PICK f : f = "clCreateCommandQueue"
  OBVIOUS
<1>7. /\ f \notin Counting
      /\ f \in With("event") => Argc(f) \notin {}
      /\ f = "clSetKernelArg" => V \subseteq ObjectsOf(h)
  BY <1>6, Effects, Arguments DEF Counting, Retains, Releases, Enqueues
<1>8. f \notin Listed => /\ (DOMAIN ids \union ps) \intersect (1 .. Argc(f)) \subseteq ExecTable(f)
                         /\ {} \subseteq ListsOf(f) \union GuessedOf(f)
  BY <1>4, <1>6, Table, Lists, Arguments DEF Listed
<1> HIDE DEF V, ps, s, t, ids
<1>9. PlanFacts(c, h, Plan(f, o, ids, s, t))
  BY <1>1, <1>2, <1>3, <1>4, <1>5, <1>7, <1>8, Fits, Zenon
<1> QED BY <1>6, <1>9 DEF ids, s, t

\* clCreateProgramWithSource
LEMMA ProgramFits ==
  ASSUME NEW c, NEW h, Null \notin DOMAIN h, NEW o \in ObjectsOf(h)
         , NEW g \in BOOLEAN
  PROVE  PlanFacts(c, h, Plan("clCreateProgramWithSource", o, 1 :> o,
           Mem(11) \o MemOf(3, <<Handle(c, 11)>>) \o If(g, Mem(4))
           \o If(g, Mem(5)),
           If(g, Fetch(5)) \o If(g, Free(4)) \o Free(11) \o Free(3)))
<1> DEFINE V == {Handle(c, 11)}
           ps == {11} \union {3} \union (IF g THEN {4} ELSE {}) \union (IF g THEN {5} ELSE {})
           s == Mem(11) \o MemOf(3, <<Handle(c, 11)>>) \o If(g, Mem(4)) \o If(g, Mem(5))
           t == If(g, Fetch(5)) \o If(g, Free(4)) \o Free(11) \o Free(3)
           ids == 1 :> o
<1>1. Allocates(V, s, ps, {3})
  <2>1. Allocates(V, MemOf(3, <<Handle(c, 11)>>), {3}, {3})
    BY AllocatesItem
  <2>2. Allocates(V, s, ps, {} \union {3} \union {} \union {})
    BY <2>1, AllocatesBlank, AllocatesMaybe, AllocatesBoth
  <2> QED BY <2>2
<1>2. GivesBack(t, ps)
  <2>1. GivesBack(t, (IF g THEN {5} ELSE {}) \union (IF g THEN {4} ELSE {}) \union {11} \union {3})
    BY GivesBackOne, GivesBackMaybe, GivesBackBoth
  <2>2. ps = (IF g THEN {5} ELSE {}) \union (IF g THEN {4} ELSE {}) \union {11} \union {3}
    OBVIOUS
  <2> QED BY <2>1, <2>2
<1>3. o \in DOMAIN h \union {Platform}
  BY DEF ObjectsOf
<1>4. DOMAIN ids = {1} /\ \A n \in DOMAIN ids : ids[n] \in ObjectsOf(h) \union {o, Platform, Device}
  BY OneArgument
<1>5. V \subseteq DOMAIN h \union {Platform, Device} \union {Handle(c, n) : n \in ps}
  BY DEF ObjectsOf
<1>6. PICK f : f = "clCreateProgramWithSource"
  OBVIOUS
<1>7. /\ f \notin Counting
      /\ f \in With("event") => Argc(f) \notin {3}
      /\ f = "clSetKernelArg" => V \subseteq ObjectsOf(h)
  BY <1>6, Effects, Arguments DEF Counting, Retains, Releases, Enqueues
<1>8. f \notin Listed => /\ (DOMAIN ids \union ps) \intersect (1 .. Argc(f)) \subseteq ExecTable(f)
                         /\ {3} \subseteq ListsOf(f) \union GuessedOf(f)
  BY <1>4, <1>6, Table, Lists, Arguments DEF Listed
<1> HIDE DEF V, ps, s, t, ids
<1>9. PlanFacts(c, h, Plan(f, o, ids, s, t))
  BY <1>1, <1>2, <1>3, <1>4, <1>5, <1>7, <1>8, Fits, Zenon
<1> QED BY <1>6, <1>9 DEF ids, s, t

\* clBuildProgram
LEMMA BuildFits ==
  ASSUME NEW c, NEW h, Null \notin DOMAIN h, NEW o \in ObjectsOf(h)
         , NEW g \in BOOLEAN
  PROVE  PlanFacts(c, h, Plan("clBuildProgram", o, 1 :> o,
           If(g, MemOf(3, <<Device>>)) \o If(g, Mem(4)),
           If(g, Free(3)) \o If(g, Free(4))))
<1> DEFINE V == {Device}
           ps == (IF g THEN {3} ELSE {}) \union (IF g THEN {4} ELSE {})
           s == If(g, MemOf(3, <<Device>>)) \o If(g, Mem(4))
           t == If(g, Free(3)) \o If(g, Free(4))
           ids == 1 :> o
<1>1. Allocates(V, s, ps, {3})
  <2>1. Allocates(V, If(g, MemOf(3, <<Device>>)), IF g THEN {3} ELSE {}, {3})
    BY AllocatesItem, AllocatesMaybe
  <2>2. Allocates(V, s, ps, {3} \union {})
    BY <2>1, AllocatesBlank, AllocatesMaybe, AllocatesBoth
  <2> QED BY <2>2
<1>2. GivesBack(t, ps)
  BY GivesBackOne, GivesBackMaybe, GivesBackBoth
<1>3. o \in DOMAIN h \union {Platform}
  BY DEF ObjectsOf
<1>4. DOMAIN ids = {1} /\ \A n \in DOMAIN ids : ids[n] \in ObjectsOf(h) \union {o, Platform, Device}
  BY OneArgument
<1>5. V \subseteq DOMAIN h \union {Platform, Device} \union {Handle(c, n) : n \in ps}
  BY DEF ObjectsOf
<1>6. PICK f : f = "clBuildProgram"
  OBVIOUS
<1>7. /\ f \notin Counting
      /\ f \in With("event") => Argc(f) \notin {3}
      /\ f = "clSetKernelArg" => V \subseteq ObjectsOf(h)
  BY <1>6, Effects, Arguments DEF Counting, Retains, Releases, Enqueues
<1>8. f \notin Listed => /\ (DOMAIN ids \union ps) \intersect (1 .. Argc(f)) \subseteq ExecTable(f)
                         /\ {3} \subseteq ListsOf(f) \union GuessedOf(f)
  BY <1>4, <1>6, Table, Lists, Arguments DEF Listed
<1> HIDE DEF V, ps, s, t, ids
<1>9. PlanFacts(c, h, Plan(f, o, ids, s, t))
  BY <1>1, <1>2, <1>3, <1>4, <1>5, <1>7, <1>8, Fits, Zenon
<1> QED BY <1>6, <1>9 DEF ids, s, t

\* clCreateContext
LEMMA ContextFits ==
  ASSUME NEW c, NEW h, Null \notin DOMAIN h, NEW g \in BOOLEAN
  PROVE  PlanFacts(c, h, Plan("clCreateContext", Platform, <<>>,
           MemOf(1, <<Platform>>) \o MemOf(3, <<Device>>) \o Mem(6),
           (IF g THEN Fetch(6) ELSE Free(6)) \o Free(3) \o Free(1)))
<1> DEFINE V == {Platform, Device}
           ps == {1} \union {3} \union {6}
           s == MemOf(1, <<Platform>>) \o MemOf(3, <<Device>>) \o Mem(6)
           t == (IF g THEN Fetch(6) ELSE Free(6)) \o Free(3) \o Free(1)
           ids == <<>>
<1>1. Allocates(V, s, ps, {1, 3})
  <2>1. Allocates(V, MemOf(1, <<Platform>>), {1}, {1})
    BY AllocatesItem
  <2>2. Allocates(V, MemOf(3, <<Device>>), {3}, {3})
    BY AllocatesItem
  <2>3. Allocates(V, s, ps, {1} \union {3} \union {})
    BY <2>1, <2>2, AllocatesBlank, AllocatesMaybe, AllocatesBoth
  <2> QED BY <2>3
<1>2. GivesBack(t, ps)
  <2>1. GivesBack(IF g THEN Fetch(6) ELSE Free(6), {6})
    BY GivesBackOne
  <2>2. GivesBack(t, {6} \union {3} \union {1})
    BY <2>1, GivesBackOne, GivesBackMaybe, GivesBackBoth
  <2>3. ps = {6} \union {3} \union {1}
    OBVIOUS
  <2> QED BY <2>2, <2>3
<1>3. Platform \in DOMAIN h \union {Platform}
  BY DEF ObjectsOf
<1>4. DOMAIN ids = {} /\ \A n \in DOMAIN ids : ids[n] \in ObjectsOf(h) \union {Platform, Platform, Device}
  OBVIOUS
<1>5. V \subseteq DOMAIN h \union {Platform, Device} \union {Handle(c, n) : n \in ps}
  BY DEF ObjectsOf
<1>6. PICK f : f = "clCreateContext"
  OBVIOUS
<1>7. /\ f \notin Counting
      /\ f \in With("event") => Argc(f) \notin {1, 3}
      /\ f = "clSetKernelArg" => V \subseteq ObjectsOf(h)
  BY <1>6, Effects, Arguments DEF Counting, Retains, Releases, Enqueues
<1>8. f \notin Listed => /\ (DOMAIN ids \union ps) \intersect (1 .. Argc(f)) \subseteq ExecTable(f)
                         /\ {1, 3} \subseteq ListsOf(f) \union GuessedOf(f)
  BY <1>4, <1>6, Table, Lists, Arguments DEF Listed
<1> HIDE DEF V, ps, s, t, ids
<1>9. PlanFacts(c, h, Plan(f, Platform, ids, s, t))
  BY <1>1, <1>2, <1>3, <1>4, <1>5, <1>7, <1>8, Fits, Zenon
<1> QED BY <1>6, <1>9 DEF ids, s, t

\* clCreateContextFromType
LEMMA FromTypeFits ==
  ASSUME NEW c, NEW h, Null \notin DOMAIN h, NEW g \in BOOLEAN
  PROVE  PlanFacts(c, h, Plan("clCreateContextFromType", Platform, <<>>,
           MemOf(1, <<Platform>>) \o Mem(5),
           (IF g THEN Fetch(5) ELSE Free(5)) \o Free(1)))
<1> DEFINE V == {Platform}
           ps == {1} \union {5}
           s == MemOf(1, <<Platform>>) \o Mem(5)
           t == (IF g THEN Fetch(5) ELSE Free(5)) \o Free(1)
           ids == <<>>
<1>1. Allocates(V, s, ps, {1})
  <2>1. Allocates(V, MemOf(1, <<Platform>>), {1}, {1})
    BY AllocatesItem
  <2>2. Allocates(V, s, ps, {1} \union {})
    BY <2>1, AllocatesBlank, AllocatesMaybe, AllocatesBoth
  <2> QED BY <2>2
<1>2. GivesBack(t, ps)
  <2>1. GivesBack(IF g THEN Fetch(5) ELSE Free(5), {5})
    BY GivesBackOne
  <2>2. GivesBack(t, {5} \union {1})
    BY <2>1, GivesBackOne, GivesBackMaybe, GivesBackBoth
  <2>3. ps = {5} \union {1}
    OBVIOUS
  <2> QED BY <2>2, <2>3
<1>3. Platform \in DOMAIN h \union {Platform}
  BY DEF ObjectsOf
<1>4. DOMAIN ids = {} /\ \A n \in DOMAIN ids : ids[n] \in ObjectsOf(h) \union {Platform, Platform, Device}
  OBVIOUS
<1>5. V \subseteq DOMAIN h \union {Platform, Device} \union {Handle(c, n) : n \in ps}
  BY DEF ObjectsOf
<1>6. PICK f : f = "clCreateContextFromType"
  OBVIOUS
<1>7. /\ f \notin Counting
      /\ f \in With("event") => Argc(f) \notin {1}
      /\ f = "clSetKernelArg" => V \subseteq ObjectsOf(h)
  BY <1>6, Effects, Arguments DEF Counting, Retains, Releases, Enqueues
<1>8. f \notin Listed => /\ (DOMAIN ids \union ps) \intersect (1 .. Argc(f)) \subseteq ExecTable(f)
                         /\ {1} \subseteq ListsOf(f) \union GuessedOf(f)
  BY <1>4, <1>6, Table, Lists, Arguments DEF Listed
<1> HIDE DEF V, ps, s, t, ids
<1>9. PlanFacts(c, h, Plan(f, Platform, ids, s, t))
  BY <1>1, <1>2, <1>3, <1>4, <1>5, <1>7, <1>8, Fits, Zenon
<1> QED BY <1>6, <1>9 DEF ids, s, t

\* clWaitForEvents
LEMMA WaitFits ==
  ASSUME NEW c, NEW h, Null \notin DOMAIN h, NEW e \in DOMAIN h
  PROVE  PlanFacts(c, h, Plan("clWaitForEvents", e, <<>>,
           MemOf(2, <<e>>),
           Free(2)))
<1> DEFINE V == DOMAIN h
           ps == {2}
           s == MemOf(2, <<e>>)
           t == Free(2)
           ids == <<>>
<1>1. Allocates(V, s, ps, {2})
  <2>1. Allocates(V, MemOf(2, <<e>>), {2}, {2})
    BY AllocatesItem
  <2> QED BY <2>1
<1>2. GivesBack(t, ps)
  BY GivesBackOne, GivesBackMaybe, GivesBackBoth
<1>3. e \in DOMAIN h \union {Platform}
  BY DEF ObjectsOf
<1>4. DOMAIN ids = {} /\ \A n \in DOMAIN ids : ids[n] \in ObjectsOf(h) \union {e, Platform, Device}
  OBVIOUS
<1>5. V \subseteq DOMAIN h \union {Platform, Device} \union {Handle(c, n) : n \in ps}
  OBVIOUS
<1>6. PICK f : f = "clWaitForEvents"
  OBVIOUS
<1>7. /\ f \notin Counting
      /\ f \in With("event") => Argc(f) \notin {2}
      /\ f = "clSetKernelArg" => V \subseteq ObjectsOf(h)
  BY <1>6, Effects, Arguments DEF Counting, Retains, Releases, Enqueues
<1>8. f \notin Listed => /\ (DOMAIN ids \union ps) \intersect (1 .. Argc(f)) \subseteq ExecTable(f)
                         /\ {2} \subseteq ListsOf(f) \union GuessedOf(f)
  BY <1>4, <1>6, Table, Lists, Arguments DEF Listed
<1> HIDE DEF V, ps, s, t, ids
<1>9. PlanFacts(c, h, Plan(f, e, ids, s, t))
  BY <1>1, <1>2, <1>3, <1>4, <1>5, <1>7, <1>8, Fits, Zenon
<1> QED BY <1>6, <1>9 DEF ids, s, t

\* clEnqueueMarker
LEMMA MarkerFits ==
  ASSUME NEW c, NEW h, Null \notin DOMAIN h, NEW q \in ObjectsOf(h)
         , NEW g \in BOOLEAN
  PROVE  PlanFacts(c, h, Plan("clEnqueueMarker", q, 1 :> q,
           If(g, Mem(2)),
           If(g, Fetch(2))))
<1> DEFINE V == DOMAIN h
           ps == (IF g THEN {2} ELSE {})
           s == If(g, Mem(2))
           t == If(g, Fetch(2))
           ids == 1 :> q
<1>1. Allocates(V, s, ps, {})
  BY AllocatesBlank, AllocatesMaybe
<1>2. GivesBack(t, ps)
  BY GivesBackOne, GivesBackMaybe, GivesBackBoth
<1>3. q \in DOMAIN h \union {Platform}
  BY DEF ObjectsOf
<1>4. DOMAIN ids = {1} /\ \A n \in DOMAIN ids : ids[n] \in ObjectsOf(h) \union {q, Platform, Device}
  BY OneArgument
<1>5. V \subseteq DOMAIN h \union {Platform, Device} \union {Handle(c, n) : n \in ps}
  OBVIOUS
<1>6. PICK f : f = "clEnqueueMarker"
  OBVIOUS
<1>7. /\ f \notin Counting
      /\ f \in With("event") => Argc(f) \notin {}
      /\ f = "clSetKernelArg" => V \subseteq ObjectsOf(h)
  BY <1>6, Effects, Arguments DEF Counting, Retains, Releases, Enqueues
<1>8. f \notin Listed => /\ (DOMAIN ids \union ps) \intersect (1 .. Argc(f)) \subseteq ExecTable(f)
                         /\ {} \subseteq ListsOf(f) \union GuessedOf(f)
  BY <1>4, <1>6, Table, Lists, Arguments DEF Listed
<1> HIDE DEF V, ps, s, t, ids
<1>9. PlanFacts(c, h, Plan(f, q, ids, s, t))
  BY <1>1, <1>2, <1>3, <1>4, <1>5, <1>7, <1>8, Fits, Zenon
<1> QED BY <1>6, <1>9 DEF ids, s, t

\* clEnqueueWaitForEvents
LEMMA WaitForEventsFits ==
  ASSUME NEW c, NEW h, Null \notin DOMAIN h, NEW q \in ObjectsOf(h)
         , NEW es \in Seq(DOMAIN h)
  PROVE  PlanFacts(c, h, Plan("clEnqueueWaitForEvents", q, 1 :> q,
           List(3, es),
           FreeList(3, es)))
<1> DEFINE V == DOMAIN h
           ps == (IF es # <<>> THEN {3} ELSE {})
           s == List(3, es)
           t == FreeList(3, es)
           ids == 1 :> q
<1>1. Allocates(V, s, ps, {3})
  <2>1. Allocates(V, List(3, es), IF es # <<>> THEN {3} ELSE {}, {3})
    BY AllocatesOne, AllocatesMaybe DEF List
  <2> QED BY <2>1
<1>2. GivesBack(t, ps)
  <2>1. GivesBack(FreeList(3, es), IF es # <<>> THEN {3} ELSE {})
    BY GivesBackOne, GivesBackMaybe DEF FreeList
  <2> QED BY <2>1, GivesBackOne, GivesBackMaybe, GivesBackBoth
<1>3. q \in DOMAIN h \union {Platform}
  BY DEF ObjectsOf
<1>4. DOMAIN ids = {1} /\ \A n \in DOMAIN ids : ids[n] \in ObjectsOf(h) \union {q, Platform, Device}
  BY OneArgument
<1>5. V \subseteq DOMAIN h \union {Platform, Device} \union {Handle(c, n) : n \in ps}
  OBVIOUS
<1>6. PICK f : f = "clEnqueueWaitForEvents"
  OBVIOUS
<1>7. /\ f \notin Counting
      /\ f \in With("event") => Argc(f) \notin {3}
      /\ f = "clSetKernelArg" => V \subseteq ObjectsOf(h)
  BY <1>6, Effects, Arguments DEF Counting, Retains, Releases, Enqueues
<1>8. f \notin Listed => /\ (DOMAIN ids \union ps) \intersect (1 .. Argc(f)) \subseteq ExecTable(f)
                         /\ {3} \subseteq ListsOf(f) \union GuessedOf(f)
  BY <1>4, <1>6, Table, Lists, Arguments DEF Listed
<1> HIDE DEF V, ps, s, t, ids
<1>9. PlanFacts(c, h, Plan(f, q, ids, s, t))
  BY <1>1, <1>2, <1>3, <1>4, <1>5, <1>7, <1>8, Fits, Zenon
<1> QED BY <1>6, <1>9 DEF ids, s, t

\* the functions whose only argument is an object
LEMMA PlainFits ==
  ASSUME NEW c, NEW h, NEW o \in DOMAIN h, Null \notin DOMAIN h,
         NEW f \in Counting \union {"clEnqueueBarrier", "clFlush", "clFinish"}
  PROVE  PlanFacts(c, h, PlainPlan(f, o))
<1>1. PICK p : p = PlainPlan(f, o)
  OBVIOUS
<1>2. PICK ids : ids = (1 :> o)
  OBVIOUS
<1>3. PICK s : s = <<>>
  OBVIOUS
<1>4. p.fun = f /\ p.hint = o /\ p.ids = ids /\ p.in = s /\ p.out = s
  BY <1>1, <1>2, <1>3 DEF PlainPlan, Plan
<1>5. DOMAIN ids = {1} /\ ids[1] = o
  BY <1>2, OneArgument
<1>6. DOMAIN s = {} /\ Positions(s) = {} /\ \A n : ItemsAt(s, n) = {}
  BY <1>3, NoneAllocated
<1>7. f \notin With("create") \union With("event") \union With("unload") /\ f # "clSetKernelArg"
  BY Effects DEF Counting, Creates, Retains, Releases, Enqueues
<1>8. Covers(p)
  BY <1>4, <1>5, <1>6, Table DEF Covers
<1> QED BY <1>1, <1>4, <1>5, <1>6, <1>7, <1>8 DEF PlanFacts

\* the queries
LEMMA InfoFits ==
  ASSUME NEW c, NEW h, Null \notin DOMAIN h, NEW o \in DOMAIN h, NEW ids, NEW n \in {4, 5}, NEW g \in BOOLEAN,
         DOMAIN ids \subseteq {1, 2}, \A i \in DOMAIN ids : ids[i] \in ObjectsOf(h) \union {o, Platform, Device},
         NEW f \in Queries \union {"clGetEventProfilingInfo", "clGetProgramBuildInfo"},
         f = "clGetEventProfilingInfo" => n = 4 /\ DOMAIN ids = {1},
         f = "clGetProgramBuildInfo" => n = 5
  PROVE  PlanFacts(c, h, InfoPlan(f, o, ids, n, g))
<1> DEFINE V == {}
           ps == (IF g THEN {n} ELSE {}) \union {n + 1}
           s == If(g, Mem(n)) \o Mem(n + 1)
           t == If(g, Fetch(n)) \o Fetch(n + 1)
<1>1. n \in Nat /\ n + 1 \in Nat
  OBVIOUS
<1>2. Allocates(V, s, ps, {})
  <2>1. Allocates(V, s, ps, {} \union {})
    BY <1>1, AllocatesBlank, AllocatesMaybe, AllocatesBoth
  <2> QED BY <2>1
<1>3. GivesBack(t, ps)
  BY <1>1, GivesBackOne, GivesBackMaybe, GivesBackBoth
<1>4. /\ f \notin Counting
      /\ f \in With("event") => Argc(f) \notin {}
      /\ f = "clSetKernelArg" => V \subseteq ObjectsOf(h)
  BY Effects DEF Counting, Retains, Releases, Queries
<1>5. f \notin Listed => /\ (DOMAIN ids \union ps) \intersect (1 .. Argc(f)) \subseteq ExecTable(f)
                         /\ {} \subseteq ListsOf(f) \union GuessedOf(f)
  BY <1>1, Table DEF Listed, Queries
<1>6. V \subseteq DOMAIN h \union {Platform, Device} \union {Handle(c, i) : i \in ps}
  OBVIOUS
<1> HIDE DEF V, ps, s, t
<1>7. PlanFacts(c, h, Plan(f, o, ids, s, t))
  BY <1>2, <1>3, <1>4, <1>5, <1>6, Fits, Zenon
<1> QED BY <1>7 DEF InfoPlan, s, t

\* a plan of a function the agent executes alone
LEMMA AloneFits ==
  ASSUME NEW c, NEW h, NEW f, NEW ids, NEW s, NEW t, NEW ps,
         Allocates({}, s, ps, {}), GivesBack(t, ps),
         f \notin Counting \union With("create") \union With("event") \union With("unload"),
         f # "clSetKernelArg"
  PROVE  PlanFacts(c, h, Plan(f, Null, ids, s, t))
<1>1. PICK p : p = Plan(f, Null, ids, s, t)
  OBVIOUS
<1>2. p.fun = f /\ p.hint = Null /\ p.ids = ids /\ p.in = s /\ p.out = t
  BY <1>1 DEF Plan
<1>3. /\ s \in Allocations({}) /\ Positions(s) = ps /\ Positions(t) = ps
      /\ \A n : ItemsAt(s, n) = {}
  BY DEF Allocates, GivesBack
<1>4. Positions(s) \subseteq Nat
  BY <1>3, AllocationsHold
<1> QED BY <1>1, <1>2, <1>3, <1>4 DEF PlanFacts

\* clUnloadCompiler, which reaches the provider without a hint
LEMMA UnloadFits ==
  ASSUME NEW c, NEW h
  PROVE  PlanFacts(c, h, Plan("clUnloadCompiler", Null, <<>>, <<>>, <<>>))
<1>1. PICK s : s = <<>>
  OBVIOUS
<1>2. PICK p : p = Plan("clUnloadCompiler", Null, s, s, s)
  OBVIOUS
<1>3. p.fun = "clUnloadCompiler" /\ p.hint = Null /\ p.ids = s /\ p.in = s /\ p.out = s
  BY <1>2 DEF Plan
<1>4. DOMAIN s = {} /\ Positions(s) = {} /\ (\A n : ItemsAt(s, n) = {})
  BY <1>1, NoneAllocated
<1>5. p.fun \notin Counting \union With("create") \union With("event")
  BY <1>3, Effects DEF Counting, Creates, Retains, Releases, Enqueues
<1> QED BY <1>1, <1>2, <1>3, <1>4, <1>5 DEF PlanFacts

\* the functions without a hint
LEMMA AlonePlans ==
  ASSUME NEW c, NEW h, NEW p \in PlatformCalls \union DeviceCalls
  PROVE  PlanFacts(c, h, p)
<1> DEFINE Kept(f) == /\ f \notin Counting \union With("create") \union With("event") \union With("unload")
                      /\ f # "clSetKernelArg"
<1>1. ASSUME NEW f \in {"clGetPlatformIDs", "clGetPlatformInfo", "clGetDeviceIDs", "clGetDeviceInfo"},
             NEW ids, NEW n \in Nat, NEW g \in BOOLEAN
      PROVE  PlanFacts(c, h, InfoPlan(f, Null, ids, n, g))
  <2> DEFINE s == If(g, Mem(n)) \o Mem(n + 1)
             t == If(g, Fetch(n)) \o Fetch(n + 1)
             ps == (IF g THEN {n} ELSE {}) \union {n + 1}
  <2>1. n + 1 \in Nat
    OBVIOUS
  <2>2. Allocates({}, s, ps, {} \union {}) /\ GivesBack(t, ps)
    BY <2>1, AllocatesBlank, AllocatesMaybe, AllocatesBoth, GivesBackOne, GivesBackMaybe, GivesBackBoth
  <2>3. Allocates({}, s, ps, {})
    BY <2>2
  <2>4. Kept(f)
    BY Effects DEF Counting, Creates, Retains, Releases, Enqueues
  <2> HIDE DEF s, t, ps
  <2>5. PlanFacts(c, h, Plan(f, Null, ids, s, t))
    BY <2>2, <2>3, <2>4, AloneFits
  <2> QED BY <2>5 DEF InfoPlan, s, t
<1>2. CASE p \in PlatformCalls
  <2>1. \/ \E g \in BOOLEAN : p = InfoPlan("clGetPlatformIDs", Null, <<>>, 2, g)
        \/ \E g \in BOOLEAN : p = InfoPlan("clGetPlatformInfo", Null, 1 :> Platform, 4, g)
    BY <1>2 DEF PlatformCalls, InfoPlan
  <2> QED BY <1>1, <2>1
<1>3. CASE p \in DeviceCalls
  <2>1. \/ \E g \in BOOLEAN : p = Plan("clGetDeviceIDs", Null, 1 :> Platform,
             If(g, Mem(4)) \o Mem(5), If(g, Fetch(4)) \o Fetch(5))
        \/ \E ids : p = InfoPlan("clGetDeviceInfo", Null, ids, 4, TRUE)
    BY <1>3 DEF DeviceCalls
  <2>2. ASSUME NEW g \in BOOLEAN
        PROVE  Plan("clGetDeviceIDs", Null, 1 :> Platform, If(g, Mem(4)) \o Mem(5),
                    If(g, Fetch(4)) \o Fetch(5)) = InfoPlan("clGetDeviceIDs", Null, 1 :> Platform, 4, g)
    BY DEF InfoPlan
  <2> QED BY <1>1, <2>1, <2>2
<1> QED BY <1>2, <1>3

(* Every stub of consumer/src/opencl_*.c fetches or frees exactly what it  *)
(* allocates, uses what its application holds, and, the listed functions   *)
(* apart, has every id and every list among what the provider translates   *)
(* (exec_fun_table and the lists in its opencl_*.c).                       *)
THEOREM Planned ==
  ASSUME NEW c, DOMAIN held[c] \subseteq Ids \union Reals, NEW p \in Calls(c)
  PROVE  PlanFacts(c, held[c], p)
<1>1. PICK h : h = held[c]
  OBVIOUS
<1>2. Null \notin DOMAIN h
  BY <1>1, CallsAssumption
<1>3. Objects(c) = ObjectsOf(h) /\ Events(c) \subseteq DOMAIN h /\ ObjectsOf(h) \subseteq DOMAIN h
  BY <1>1 DEF Objects, ObjectsOf, Events
<1>4. Waits(c) \subseteq Seq(DOMAIN h)
  <2>1. \A e \in Events(c) : <<e>> \in Seq(DOMAIN h)
    BY <1>3
  <2>2. <<>> \in Seq(DOMAIN h)
    OBVIOUS
  <2> QED BY <2>1, <2>2 DEF Waits
<1>5. ASSUME NEW f \in Counting \union {"clEnqueueBarrier", "clFlush", "clFinish"}, NEW o \in DOMAIN h
      PROVE  PlanFacts(c, h, PlainPlan(f, o))
  BY <1>2, <1>5, PlainFits
<1>6. Retains \union Releases \subseteq Counting
  BY Effects DEF Counting
<1>7. ASSUME NEW f \in Queries, NEW o \in DOMAIN h, NEW g \in BOOLEAN
      PROVE  PlanFacts(c, h, InfoPlan(f, o, 1 :> o, 4, g))
  <2>1. PICK ids : ids = (1 :> o)
    OBVIOUS
  <2>2. DOMAIN ids = {1} /\ ids[1] = o
    BY <2>1, OneArgument
  <2>3. f # "clGetEventProfilingInfo" /\ f # "clGetProgramBuildInfo"
    BY DEF Queries
  <2>4. PlanFacts(c, h, InfoPlan(f, o, ids, 4, g))
    BY <1>2, <2>2, <2>3, InfoFits
  <2> QED BY <2>1, <2>4
<1>8. CASE p \in PlatformCalls \union DeviceCalls
  BY <1>1, <1>8, AlonePlans
<1>9. CASE p \in ContextCreateCalls \union ContextFromTypeCalls
  <2>1. \/ \E g \in BOOLEAN : p = Plan("clCreateContext", Platform, <<>>,
             MemOf(1, <<Platform>>) \o MemOf(3, <<Device>>) \o Mem(6),
             (IF g THEN Fetch(6) ELSE Free(6)) \o Free(3) \o Free(1))
        \/ \E g \in BOOLEAN : p = Plan("clCreateContextFromType", Platform, <<>>,
             MemOf(1, <<Platform>>) \o Mem(5), (IF g THEN Fetch(5) ELSE Free(5)) \o Free(1))
    BY <1>9 DEF ContextCreateCalls, ContextFromTypeCalls
  <2> QED BY <1>1, <1>2, <2>1, ContextFits, FromTypeFits
<1>10. CASE p \in ContextRefCalls(c)
  <2>1. \E f \in Retains \union Releases, o \in DOMAIN h : p = PlainPlan(f, o)
    BY <1>3, <1>10 DEF ContextRefCalls, Retains, Releases
  <2> QED BY <1>1, <1>5, <1>6, <2>1
<1>11. CASE p \in QueueCalls(c)
  <2>1. \/ \E o \in ObjectsOf(h), g \in BOOLEAN :
             \/ p = Plan("clCreateCommandQueue", o, 1 :> o @@ 2 :> Device, If(g, Mem(4)), If(g, Fetch(4)))
             \/ p = InfoPlan("clGetCommandQueueInfo", o, 1 :> o, 4, g)
        \/ \E f \in Retains \union Releases, o \in DOMAIN h : p = PlainPlan(f, o)
    BY <1>3, <1>11 DEF QueueCalls, Retains, Releases
  <2> QED BY <1>1, <1>2, <1>3, <1>5, <1>6, <1>7, <2>1, QueueFits DEF Queries
<1>12. CASE p \in EventCalls(c)
  <2>1. \/ \E e \in DOMAIN h : p = Plan("clWaitForEvents", e, <<>>, MemOf(2, <<e>>), Free(2))
        \/ \E f \in {"clGetEventInfo", "clGetEventProfilingInfo"}, e \in DOMAIN h, g \in BOOLEAN :
             p = InfoPlan(f, e, 1 :> e, 4, g)
        \/ \E f \in Retains \union Releases \union {"clEnqueueBarrier", "clFlush", "clFinish"},
              o \in DOMAIN h : p = PlainPlan(f, o)
        \/ \E q \in ObjectsOf(h), g \in BOOLEAN :
             p = Plan("clEnqueueMarker", q, 1 :> q, If(g, Mem(2)), If(g, Fetch(2)))
        \/ \E q \in ObjectsOf(h), es \in Seq(DOMAIN h) :
             p = Plan("clEnqueueWaitForEvents", q, 1 :> q, List(3, es), FreeList(3, es))
    BY <1>3, <1>4, <1>12 DEF EventCalls, Retains, Releases
  <2>2. ASSUME NEW e \in DOMAIN h, NEW g \in BOOLEAN
        PROVE  PlanFacts(c, h, InfoPlan("clGetEventProfilingInfo", e, 1 :> e, 4, g))
    <3>1. PICK ids : ids = (1 :> e)
      OBVIOUS
    <3>2. DOMAIN ids = {1} /\ ids[1] = e
      BY <3>1, OneArgument
    <3>3. PlanFacts(c, h, InfoPlan("clGetEventProfilingInfo", e, ids, 4, g))
      BY <1>2, <3>2, InfoFits
    <3> QED BY <3>1, <3>3
  <2>3. CASE \E e \in DOMAIN h : p = Plan("clWaitForEvents", e, <<>>, MemOf(2, <<e>>), Free(2))
    BY <1>1, <1>2, <2>3, WaitFits
  <2>4. CASE \E f \in {"clGetEventInfo", "clGetEventProfilingInfo"}, e \in DOMAIN h, g \in BOOLEAN :
               p = InfoPlan(f, e, 1 :> e, 4, g)
    BY <1>1, <1>7, <2>2, <2>4 DEF Queries
  <2>5. CASE \E f \in Retains \union Releases \union {"clEnqueueBarrier", "clFlush", "clFinish"},
                o \in DOMAIN h : p = PlainPlan(f, o)
    BY <1>1, <1>5, <1>6, <2>5
  <2>6. CASE \E q \in ObjectsOf(h), g \in BOOLEAN :
               p = Plan("clEnqueueMarker", q, 1 :> q, If(g, Mem(2)), If(g, Fetch(2)))
    BY <1>1, <1>2, <2>6, MarkerFits
  <2>7. CASE \E q \in ObjectsOf(h), es \in Seq(DOMAIN h) :
               p = Plan("clEnqueueWaitForEvents", q, 1 :> q, List(3, es), FreeList(3, es))
    BY <1>1, <1>2, <2>7, WaitForEventsFits
  <2> QED BY <2>1, <2>3, <2>4, <2>5, <2>6, <2>7
<1>13. CASE p \in KernelCalls(c)
  <2>1. {<<>>} \union {<<o>> : o \in Objects(c)} \subseteq Seq(ObjectsOf(h))
    <3>1. \A o \in Objects(c) : <<o>> \in Seq(ObjectsOf(h))
      BY <1>3
    <3>2. <<>> \in Seq(ObjectsOf(h))
      OBVIOUS
    <3> QED BY <3>1, <3>2
  <2>2. \/ \E o \in ObjectsOf(h), g \in BOOLEAN :
             \/ p = Plan("clCreateKernel", o, 1 :> o, Mem(2) \o If(g, Mem(3)), Free(2) \o If(g, Fetch(3)))
             \/ p = InfoPlan("clGetKernelInfo", o, 1 :> o, 4, g)
        \/ \E k \in ObjectsOf(h), value \in Seq(ObjectsOf(h)) :
             p = Plan("clSetKernelArg", k, 1 :> k, MemOf(4, value), Free(4))
        \/ \E f \in Retains \union Releases, o \in DOMAIN h : p = PlainPlan(f, o)
    BY <1>3, <1>13, <2>1 DEF KernelCalls, Retains, Releases
  <2> QED BY <1>1, <1>2, <1>3, <1>5, <1>6, <1>7, <2>2, KernelFits, KernelArgFits DEF Queries
<1>14. CASE p \in KernelEnqueueCalls(c)
  <2>1. \E q \in ObjectsOf(h), k \in ObjectsOf(h), es \in Seq(DOMAIN h), g \in BOOLEAN :
          \/ p = Plan("clEnqueueNDRangeKernel", q, 1 :> q @@ 2 :> k,
                   Mem(4) \o Mem(5) \o Mem(6) \o List(8, es) \o If(g, Mem(9)),
                   Free(4) \o Free(5) \o Free(6) \o FreeList(8, es) \o If(g, Fetch(9)))
          \/ p = Plan("clEnqueueTask", q, 1 :> q @@ 2 :> k, List(4, es) \o If(g, Mem(5)),
                   FreeList(4, es) \o If(g, Fetch(5)))
    BY <1>3, <1>4, <1>14 DEF KernelEnqueueCalls
  <2> QED BY <1>1, <1>2, <2>1, NDRangeFits, TaskFits
<1>15. CASE p \in BufferCalls(c)
  <2>1. \/ \E o \in ObjectsOf(h), g \in BOOLEAN :
             p = Plan("clCreateBuffer", o, 1 :> o, If(g, Mem(5)) \o If(g, Mem(4)),
                   If(g, Fetch(5)) \o If(g, Free(4)))
        \/ \E q \in ObjectsOf(h), b \in ObjectsOf(h), es \in Seq(DOMAIN h), g \in BOOLEAN :
             \/ p = Plan("clEnqueueReadBuffer", q, 1 :> q @@ 2 :> b,
                      Mem(6) \o List(8, es) \o If(g, Mem(9)),
                      Fetch(6) \o FreeList(8, es) \o If(g, Fetch(9)))
             \/ p = Plan("clEnqueueWriteBuffer", q, 1 :> q @@ 2 :> b,
                      Mem(6) \o List(8, es) \o If(g, Mem(9)),
                      Free(6) \o FreeList(8, es) \o If(g, Fetch(9)))
             \/ p = Plan("clEnqueueCopyBuffer", q, 1 :> q @@ 2 :> b @@ 3 :> b,
                      List(8, es) \o If(g, Mem(9)), FreeList(8, es) \o If(g, Fetch(9)))
    BY <1>3, <1>4, <1>15 DEF BufferCalls
  <2> QED BY <1>1, <1>2, <2>1, BufferFits, ReadFits, WriteFits, CopyFits
<1>16. CASE p \in BufferRefCalls(c)
  <2>1. \/ \E f \in Retains \union Releases, o \in DOMAIN h : p = PlainPlan(f, o)
        \/ \E o \in ObjectsOf(h), g \in BOOLEAN : p = InfoPlan("clGetMemObjectInfo", o, 1 :> o, 4, g)
    BY <1>3, <1>16 DEF BufferRefCalls, Retains, Releases
  <2> QED BY <1>1, <1>3, <1>5, <1>6, <1>7, <2>1 DEF Queries
<1>17. CASE p \in ProgramCreateCalls(c)
  <2>1. \E o \in ObjectsOf(h), g \in BOOLEAN :
          p = Plan("clCreateProgramWithSource", o, 1 :> o,
                Mem(11) \o MemOf(3, <<Handle(c, 11)>>) \o If(g, Mem(4)) \o If(g, Mem(5)),
                If(g, Fetch(5)) \o If(g, Free(4)) \o Free(11) \o Free(3))
    BY <1>3, <1>17 DEF ProgramCreateCalls
  <2> QED BY <1>1, <1>2, <2>1, ProgramFits
<1>18. CASE p \in ProgramCalls(c)
  <2>1. \/ \E o \in ObjectsOf(h), g \in BOOLEAN :
             \/ p = Plan("clBuildProgram", o, 1 :> o, If(g, MemOf(3, <<Device>>)) \o If(g, Mem(4)),
                      If(g, Free(3)) \o If(g, Free(4)))
             \/ p = InfoPlan("clGetProgramInfo", o, 1 :> o, 4, g)
             \/ p = InfoPlan("clGetProgramBuildInfo", o, 1 :> o @@ 2 :> Device, 5, g)
        \/ \E f \in Retains \union Releases, o \in DOMAIN h : p = PlainPlan(f, o)
        \/ p = Plan("clUnloadCompiler", Null, <<>>, <<>>, <<>>)
    BY <1>3, <1>18 DEF ProgramCalls, Retains, Releases
  <2>2. ASSUME NEW o \in ObjectsOf(h), NEW g \in BOOLEAN
        PROVE  PlanFacts(c, h, InfoPlan("clGetProgramBuildInfo", o, 1 :> o @@ 2 :> Device, 5, g))
    <3>1. PICK ids : ids = (1 :> o @@ 2 :> Device)
      OBVIOUS
    <3>2. DOMAIN ids = {1, 2} /\ ids[1] = o /\ ids[2] = Device
      BY <3>1, TwoArguments
    <3>3. PlanFacts(c, h, InfoPlan("clGetProgramBuildInfo", o, ids, 5, g))
      BY <1>2, <1>3, <3>2, InfoFits
    <3> QED BY <3>1, <3>3
  <2> QED BY <1>1, <1>2, <1>3, <1>5, <1>6, <1>7, <2>1, <2>2, BuildFits, UnloadFits DEF Queries
<1> QED BY <1>8, <1>9, <1>10, <1>11, <1>12, <1>13, <1>14, <1>15, <1>16, <1>17, <1>18 DEF Calls

-----------------------------------------------------------------------------
(* The inductive invariant *)

InProgress == {"called", "remote", "post", "end"}
Busy(c) == call[c].at \in InProgress

\* a call has its plan until it is finished
CallAt(c) ==
  LET p == call[c].plan IN
  Busy(c) =>
    /\ call[c] = [at |-> call[c].at, plan |-> p, ret |-> call[c].ret]
    /\ PlanFacts(c, held[c], p)
    /\ p.hint \in DOMAIN held[c] => p.hint \in Ids
    /\ p.fun \in With("retain") => held[c][p.hint].refs < MaxRefs
    /\ call[c].at = "remote" => p.hint # Null \/ p.fun \in With("unload")
    /\ call[c].at \in {"called", "remote"} => call[c].ret = Null
    /\ call[c].at = "post" /\ call[c].ret # Null => MakesObject(p) /\ call[c].ret \in Reals
    /\ call[c].at = "end" /\ p.fun \in With("create") => call[c].ret \in Ids \union {Null}

\* where the event of an enqueue function goes
EventAt(c) ==
  LET p == call[c].plan
      h == Handle(c, Argc(p.fun))
  IN Busy(c) /\ WantsEvent(p) =>
       /\ call[c].at \in {"called", "remote"} => memory[h] = <<>>
       /\ call[c].at = "post" => memory[h] = IF call[c].ret = Null THEN <<>> ELSE <<call[c].ret>>
       /\ call[c].at = "end" =>
            IF p.fun = "clEnqueueMarker" THEN Range(memory[h]) \subseteq Reals
            ELSE \E id \in Ids : memory[h] = <<id>>

\* the memory of a call is where the call's hint is
MemoryAt(c) ==
  LET p == call[c].plan IN
  /\ allocs[c] = IF Busy(c) /\ p.hint = Null THEN Handles(c, p) ELSE {}
  /\ Busy(c) /\ p.hint # Null => Handles(c, p) \subseteq DOMAIN memory
  /\ \A n \in Nat : Handle(c, n) \in DOMAIN memory =>
       call[c].at = "gone" \/ (Busy(c) /\ p.hint # Null /\ n \in Positions(p.in))

\* what the provider has a name for
MapInv ==
  /\ DOMAIN memory \subseteq Consumers \X Nat
  /\ DOMAIN idmap \subseteq Ids \union {Platform, Device} \union DOMAIN memory
  /\ DOMAIN memory \union {Platform, Device} \subseteq DOMAIN idmap
  /\ \A x \in DOMAIN memory \union {Platform, Device} : idmap[x] = Ptr(x)
  /\ \A id \in DOMAIN idmap \intersect Ids : idmap[id] \in Reals

\* the objects a call has made and the application has not got yet
New(c) ==
  LET p == call[c].plan IN
  IF call[c].at # "end" THEN {}
  ELSE IF p.fun \in With("create") THEN {call[c].ret} \intersect Ids
  ELSE EventGot(c, p) \intersect Ids

\* a count after a function, and before it
Counted(fun, after, before) ==
  IF fun \in With("retain") THEN after = before + 1
  ELSE IF fun \in With("release") THEN before = after + 1
  ELSE after = before

\* the agent has counted for c's call
Executed(c, id) == call[c].at \in {"remote", "post", "end"} /\ call[c].plan.hint = id

\* what the last release has taken off the agent's objects
Leaves(c, id) == Executed(c, id) /\ call[c].plan.fun \in With("release") /\ id \notin DOMAIN objects

HeldAt(c) ==
  /\ \A v \in DOMAIN held[c] :
       /\ v \in Ids => v \in DOMAIN idmap
       /\ v \in Ids /\ v \in DOMAIN objects => objects[v].consumer = c
       /\ v \in Ids /\ v \notin DOMAIN objects => Leaves(c, v) /\ held[c][v].refs = 1
       /\ ~held[c][v].event => v \in Ids
  /\ New(c) \subseteq DOMAIN objects \ DOMAIN held[c]
  /\ \A id \in New(c) : objects[id].consumer = c /\ objects[id].refs = 1
  /\ call[c].at # "gone" => \A id \in DOMAIN objects : objects[id].consumer = c =>
       \/ id \in New(c)
       \/ /\ id \in DOMAIN held[c]
          /\ IF Executed(c, id)
             THEN Counted(call[c].plan.fun, objects[id].refs, held[c][id].refs)
             ELSE objects[id].refs = held[c][id].refs

\* the real object that only a call refers to
Claimed(c) ==
  IF call[c].at = "post" THEN call[c].ret
  ELSE IF call[c].at = "remote" /\ Leaves(c, call[c].plan.hint) THEN idmap[call[c].plan.hint]
  ELSE Null

\* the vendor's count is the agent's
VendorInv ==
  /\ \A id \in DOMAIN objects :
       LET c == objects[id].consumer IN
       /\ id \in DOMAIN idmap /\ idmap[id] \in DOMAIN vendor
       /\ IF call[c].at = "remote" /\ call[c].plan.hint = id
          THEN Counted(call[c].plan.fun, objects[id].refs, vendor[idmap[id]].refs)
          ELSE objects[id].refs = vendor[idmap[id]].refs
       /\ \A other \in DOMAIN objects \ {id} : idmap[other] # idmap[id]
       /\ \A d \in Consumers : idmap[id] # Claimed(d)
  /\ \A c \in Consumers : Claimed(c) # Null =>
       /\ Claimed(c) \in DOMAIN vendor /\ vendor[Claimed(c)].refs = 1
       /\ \A d \in Consumers \ {c} : Claimed(d) # Claimed(c)

Running == \A c \in Consumers : CallAt(c) /\ EventAt(c) /\ MemoryAt(c) /\ HeldAt(c)

Domains == DOMAIN call = Consumers /\ DOMAIN held = Consumers /\ DOMAIN allocs = Consumers

IInv ==
  /\ TypeOK /\ NothingLeft /\ CrossingsListed /\ AssertionsExplained /\ Domains
  /\ failed = "none" => Running /\ MapInv /\ VendorInv

-----------------------------------------------------------------------------
(* Tables of objects *)

\* a table of some of the keys
LEMMA PartialIs ==
  ASSUME NEW S, NEW T, NEW f
  PROVE  f \in PartialFunctions(S, T) <=> \E D \in SUBSET S : f \in [D -> T]
BY DEF PartialFunctions

\* its keys
LEMMA PartialDomain == ASSUME NEW S, NEW T, NEW f \in PartialFunctions(S, T) PROVE DOMAIN f \subseteq S
<1>1. PICK D \in SUBSET S : f \in [D -> T]
  BY PartialIs
<1> QED BY <1>1

\* and its entries
LEMMA PartialValues ==
  ASSUME NEW S, NEW T, NEW f \in PartialFunctions(S, T), NEW x \in DOMAIN f PROVE f[x] \in T
<1>1. PICK D \in SUBSET S : f \in [D -> T]
  BY PartialIs
<1> QED BY <1>1

\* an entry is added
LEMMA PartialMore ==
  ASSUME NEW S, NEW T, NEW f \in PartialFunctions(S, T), NEW k \in S, NEW v \in T, k \notin DOMAIN f,
         NEW g, g = Merged(f, Entry(k, v))
  PROVE  g \in PartialFunctions(S, T)
<1>1. PICK D \in SUBSET S : f \in [D -> T]
  BY PartialIs
<1>2. DOMAIN g = D \union {k}
  BY <1>1, EntryDomain
<1>3. \A x \in D \union {k} : g[x] \in T
  BY <1>1, EntryValues
<1>4. g = [x \in DOMAIN g |-> g[x]]
  BY DEF Merged
<1> QED BY <1>2, <1>3, <1>4, PartialIs

\* an entry is changed
LEMMA PartialChanged ==
  ASSUME NEW S, NEW T, NEW f \in PartialFunctions(S, T), NEW k \in DOMAIN f, NEW v \in T,
         NEW g, g = [f EXCEPT ![k] = v]
  PROVE  g \in PartialFunctions(S, T)
<1>1. PICK D \in SUBSET S : f \in [D -> T]
  BY PartialIs
<1> QED BY <1>1, PartialIs

\* an entry is removed
LEMMA PartialLess ==
  ASSUME NEW S, NEW T, NEW f \in PartialFunctions(S, T), NEW k,
         NEW g, g = [x \in DOMAIN f \ {k} |-> f[x]]
  PROVE  g \in PartialFunctions(S, T)
<1>1. PICK D \in SUBSET S : f \in [D -> T]
  BY PartialIs
<1>2. D \ {k} \in SUBSET S /\ g \in [D \ {k} -> T]
  BY <1>1
<1> QED BY <1>2, PartialIs

\* the keys of a table with one entry more
LEMMA EntryMembers ==
  ASSUME NEW f, NEW k, NEW v, NEW h, h = Merged(f, Entry(k, v))
  PROVE  \A x : x \in DOMAIN h <=> x \in DOMAIN f \/ x = k
<1>1. DOMAIN h = DOMAIN f \union {k}
  BY EntryDomain
<1> QED BY <1>1

\* the count of a table's entry is changed
LEMMA RefsIs ==
  ASSUME NEW f, NEW k \in DOMAIN f, NEW n, NEW g, g = [f EXCEPT ![k].refs = n]
  PROVE  /\ DOMAIN g = DOMAIN f
         /\ \A x \in DOMAIN f \ {k} : g[x] = f[x]
         /\ g[k] = [f[k] EXCEPT !.refs = n]
OBVIOUS

\* object_release, when others refer to the object
LEMMA ReleasedOne ==
  ASSUME NEW f, NEW k \in DOMAIN f, f[k].refs # 1
  PROVE  Released(f, k) = [f EXCEPT ![k].refs = f[k].refs - 1]
BY DEF Released

-----------------------------------------------------------------------------
(* What a step of one consumer leaves to the others *)

Argument(d) == Handle(d, Argc(call[d].plan.fun))

\* a consumer whose call does not move keeps its plan
LEMMA CallStays ==
  ASSUME NEW d, call'[d] = call[d], held'[d] = held[d], CallAt(d)
  PROVE  CallAt(d)'
BY DEF CallAt, Busy

\* the place for its event
LEMMA EventStays ==
  ASSUME NEW d, call'[d] = call[d], EventAt(d),
         Busy(d) /\ WantsEvent(call[d].plan) => memory'[Argument(d)] = memory[Argument(d)]
  PROVE  EventAt(d)'
BY DEF EventAt, Busy, Argument

\* the memory for the event of a call is there
LEMMA EventThere ==
  ASSUME NEW d, CallAt(d), MemoryAt(d), Busy(d), WantsEvent(call[d].plan)
  PROVE  Argument(d) \in DOMAIN memory /\ call[d].plan.hint # Null
<1>1. PlanFacts(d, held[d], call[d].plan)
  BY DEF CallAt
<1>2. call[d].plan.hint # Null /\ Argument(d) \in Handles(d, call[d].plan)
  BY <1>1 DEF PlanFacts, WantsEvent, Argument, Handles
<1> QED BY <1>2 DEF MemoryAt

\* and its memory
LEMMA MemoryStays ==
  ASSUME NEW d, call'[d] = call[d], allocs'[d] = allocs[d], MemoryAt(d),
         \A n \in Nat : Handle(d, n) \in DOMAIN memory' <=> Handle(d, n) \in DOMAIN memory,
         Busy(d) => Positions(call[d].plan.in) \subseteq Nat
  PROVE  MemoryAt(d)'
<1>1. PICK p : p = call[d].plan
  OBVIOUS
<1>2. Busy(d)' <=> Busy(d)
  BY DEF Busy
<1>3. Handles(d, p) = {Handle(d, n) : n \in Positions(p.in)}
  BY DEF Handles, Given, Positions
<1>4. Busy(d) /\ p.hint # Null => Handles(d, p) \subseteq DOMAIN memory'
  BY <1>1, <1>3 DEF MemoryAt
<1> QED BY <1>1, <1>2, <1>4 DEF MemoryAt

\* objects of other consumers
LEMMA HeldStays ==
  ASSUME NEW d, call'[d] = call[d], held'[d] = held[d], HeldAt(d), New(d)' = New(d),
         DOMAIN idmap \intersect Ids \subseteq DOMAIN idmap',
         \A id \in DOMAIN held[d] : id \in DOMAIN objects' <=> id \in DOMAIN objects,
         \A id \in DOMAIN objects : objects[id].consumer = d =>
           id \in DOMAIN objects' /\ objects'[id] = objects[id],
         \A id \in DOMAIN objects' : objects'[id].consumer = d =>
           id \in DOMAIN objects /\ objects'[id] = objects[id]
  PROVE  HeldAt(d)'
<1>1. ASSUME NEW v \in DOMAIN held[d]
      PROVE  /\ v \in Ids => v \in DOMAIN idmap'
             /\ v \in Ids /\ v \in DOMAIN objects' => objects'[v].consumer = d
             /\ v \in Ids /\ v \notin DOMAIN objects' => Leaves(d, v)' /\ held[d][v].refs = 1
             /\ ~held[d][v].event => v \in Ids
  <2>1. /\ v \in Ids => v \in DOMAIN idmap
        /\ v \in Ids /\ v \in DOMAIN objects => objects[v].consumer = d
        /\ v \in Ids /\ v \notin DOMAIN objects => Leaves(d, v) /\ held[d][v].refs = 1
        /\ ~held[d][v].event => v \in Ids
    BY DEF HeldAt
  <2>2. v \notin DOMAIN objects' /\ Leaves(d, v) => Leaves(d, v)'
    BY DEF Leaves, Executed
  <2> QED BY <2>1, <2>2
<1>2. New(d) \subseteq DOMAIN objects' \ DOMAIN held[d]
  BY DEF HeldAt
<1>3. \A id \in New(d) : objects'[id].consumer = d /\ objects'[id].refs = 1
  BY DEF HeldAt
<1>4. ASSUME NEW id \in DOMAIN objects', objects'[id].consumer = d, call[d].at # "gone"
      PROVE  \/ id \in New(d)
             \/ /\ id \in DOMAIN held[d]
                /\ IF Executed(d, id)' THEN Counted(call[d].plan.fun, objects'[id].refs, held[d][id].refs)
                   ELSE objects'[id].refs = held[d][id].refs
  <2>1. id \in DOMAIN objects /\ objects'[id] = objects[id]
    BY <1>4
  <2>2. Executed(d, id)' <=> Executed(d, id)
    BY DEF Executed
  <2> QED BY <1>4, <2>1, <2>2 DEF HeldAt
<1> QED BY <1>1, <1>2, <1>3, <1>4 DEF HeldAt

\* what is new stays so, too
LEMMA NewStays ==
  ASSUME NEW d, call'[d] = call[d],
         Busy(d) /\ WantsEvent(call[d].plan) => memory'[Argument(d)] = memory[Argument(d)]
  PROVE  New(d)' = New(d)
<1>1. CASE call[d].at # "end"
  BY <1>1 DEF New
<1>2. CASE call[d].at = "end"
  <2>1. EventGot(d, call[d].plan)' = EventGot(d, call[d].plan)
    BY <1>2 DEF EventGot, Busy, InProgress, Argument
  <2> QED BY <1>2, <2>1 DEF New
<1> QED BY <1>1, <1>2

\* only a call of the vendor's changes what the counts of the two sides mean
LEMMA VendorStays ==
  ASSUME VendorInv, TypeOK, objects' = objects, vendor' = vendor,
         \A id \in DOMAIN objects : id \in DOMAIN idmap' /\ idmap'[id] = idmap[id],
         \A d \in Consumers : Claimed(d)' \in {Claimed(d), Null},
         \A id \in DOMAIN objects : LET d == objects[id].consumer IN
           /\ call'[d].at = "remote" /\ call'[d].plan.hint = id <=>
                call[d].at = "remote" /\ call[d].plan.hint = id
           /\ call[d].at = "remote" /\ call[d].plan.hint = id => call'[d].plan = call[d].plan
  PROVE  VendorInv'
<1>1. ASSUME NEW id \in DOMAIN objects
      PROVE  LET d == objects[id].consumer IN
             /\ id \in DOMAIN idmap' /\ idmap'[id] \in DOMAIN vendor
             /\ IF call'[d].at = "remote" /\ call'[d].plan.hint = id
                THEN Counted(call'[d].plan.fun, objects[id].refs, vendor[idmap'[id]].refs)
                ELSE objects[id].refs = vendor[idmap'[id]].refs
  BY DEF VendorInv
<1>2. ASSUME NEW id \in DOMAIN objects
      PROVE  \A other \in DOMAIN objects \ {id} : idmap'[other] # idmap'[id]
  BY DEF VendorInv
<1>3. ASSUME NEW id \in DOMAIN objects, NEW d \in Consumers
      PROVE  idmap'[id] # Claimed(d)'
  <2>1. idmap'[id] \in DOMAIN vendor /\ idmap'[id] # Claimed(d)
    BY DEF VendorInv
  <2>2. Null \notin DOMAIN vendor
    BY CallsAssumption, PartialDomain DEF TypeOK
  <2> QED BY <2>1, <2>2
<1>4. ASSUME NEW d \in Consumers, Claimed(d)' # Null
      PROVE  /\ Claimed(d)' \in DOMAIN vendor /\ vendor[Claimed(d)'].refs = 1
             /\ \A e \in Consumers \ {d} : Claimed(e)' # Claimed(d)'
  <2>1. Claimed(d)' = Claimed(d)
    BY <1>4
  <2> QED BY <1>4, <2>1 DEF VendorInv
<1> QED BY <1>1, <1>2, <1>3, <1>4 DEF VendorInv

\* all that holds of another consumer
LEMMA OthersStay ==
  ASSUME NEW d, CallAt(d), EventAt(d), MemoryAt(d), HeldAt(d),
         call'[d] = call[d], held'[d] = held[d], allocs'[d] = allocs[d],
         \A n \in Nat : Handle(d, n) \in DOMAIN memory' <=> Handle(d, n) \in DOMAIN memory,
         \A n : Handle(d, n) \in DOMAIN memory => memory'[Handle(d, n)] = memory[Handle(d, n)],
         DOMAIN idmap \intersect Ids \subseteq DOMAIN idmap',
         \A id \in DOMAIN held[d] : id \in DOMAIN objects' <=> id \in DOMAIN objects,
         \A id \in DOMAIN objects : objects[id].consumer = d =>
           id \in DOMAIN objects' /\ objects'[id] = objects[id],
         \A id \in DOMAIN objects' : objects'[id].consumer = d =>
           id \in DOMAIN objects /\ objects'[id] = objects[id]
  PROVE  CallAt(d)' /\ EventAt(d)' /\ MemoryAt(d)' /\ HeldAt(d)'
<1>1. Busy(d) /\ WantsEvent(call[d].plan) => memory'[Argument(d)] = memory[Argument(d)]
  BY EventThere DEF Argument
<1>2. Busy(d) => Positions(call[d].plan.in) \subseteq Nat
  BY DEF CallAt, PlanFacts
<1>3. New(d)' = New(d)
  BY <1>1, NewStays
<1>4. HeldAt(d)'
  BY <1>3, HeldStays
<1>5. CallAt(d)'
  BY CallStays
<1>6. EventAt(d)'
  BY <1>1, EventStays
<1>7. MemoryAt(d)'
  BY <1>2, MemoryStays
<1> QED BY <1>4, <1>5, <1>6, <1>7

\* what a consumer's call claims, as long as the ids keep their meaning
LEMMA ClaimStays ==
  ASSUME NEW d, CallAt(d), HeldAt(d), call'[d] = call[d],
         \A id \in DOMAIN held[d] : id \in DOMAIN objects' <=> id \in DOMAIN objects,
         \A id \in DOMAIN idmap \intersect Ids : idmap'[id] = idmap[id]
  PROVE  Claimed(d)' = Claimed(d)
<1>1. CASE call[d].at = "remote" /\ call[d].plan.fun \in With("release")
  <2>1. PlanFacts(d, held[d], call[d].plan) /\ (call[d].plan.hint \in DOMAIN held[d] => call[d].plan.hint \in Ids)
    BY <1>1 DEF CallAt, Busy, InProgress
  <2>2. call[d].plan.hint \in DOMAIN held[d] /\ call[d].plan.hint \in Ids
    BY <1>1, <2>1 DEF PlanFacts, Counting
  <2>3. call[d].plan.hint \in DOMAIN idmap
    BY <2>2 DEF HeldAt
  <2> QED BY <1>1, <2>2, <2>3 DEF Claimed, Leaves, Executed
<1>2. CASE ~(call[d].at = "remote" /\ call[d].plan.fun \in With("release"))
  BY <1>2 DEF Claimed, Leaves, Executed
<1> QED BY <1>1, <1>2

-----------------------------------------------------------------------------
(* The steps *)

\* memory that nobody is in a call for does not exist
LEMMA NothingLeftNext ==
  ASSUME \A c \in Consumers : MemoryAt(c)', MapInv'
  PROVE  NothingLeft'
<1> SUFFICES ASSUME NEW c \in Consumers, call'[c].at = "idle"
             PROVE  /\ allocs'[c] = {}
                    /\ \A h \in DOMAIN idmap' \ (Ids \union {Platform, Device}) : h[1] # c
  BY DEF NothingLeft
<1>1. ~(Busy(c)') /\ call'[c].at # "gone"
  BY DEF Busy, InProgress
<1>2. allocs'[c] = {}
  BY <1>1 DEF MemoryAt
<1>3. ASSUME NEW h \in DOMAIN idmap' \ (Ids \union {Platform, Device}), h[1] = c
      PROVE  FALSE
  <2>1. h \in DOMAIN memory' /\ h \in Consumers \X Nat
    BY DEF MapInv
  <2>2. PICK d \in Consumers, n \in Nat : h = <<d, n>>
    BY <2>1
  <2>3. h = Handle(c, n)
    BY <1>3, <2>2 DEF Handle
  <2> QED BY <1>1, <2>1, <2>3 DEF MemoryAt
<1> QED BY <1>2, <1>3

\* an assertion that has not failed needs no explanation
LEMMA Continues ==
  ASSUME failed' = "none", TypeOK', CrossingsListed', Domains', MapInv', VendorInv',
         \A c \in Consumers : CallAt(c)' /\ EventAt(c)' /\ MemoryAt(c)' /\ HeldAt(c)'
  PROVE  IInv'
<1>1. AssertionsExplained'
  BY DEF AssertionsExplained
<1>2. NothingLeft'
  BY NothingLeftNext
<1> QED BY <1>1, <1>2 DEF IInv, Running

\* names of memory are no ids
LEMMA HandleIs ==
  ASSUME NEW c \in Consumers, NEW n \in Nat
  PROVE  /\ Handle(c, n) \in Consumers \X Nat
         /\ Handle(c, n) \notin Ids \union Reals \union {Platform, Device, Null}
<1>1. Handle(c, n) \in Consumers \X Nat
  BY DEF Handle
<1> QED BY <1>1, CallsAssumption

\* no two positions, and no two consumers, share a name
LEMMA HandleSame ==
  \A c, d, n, m : Handle(c, n) = Handle(d, m) => c = d /\ n = m
BY DEF Handle

\* the names of the memory of a call
LEMMA HandlesIs == \A c, p : Handles(c, p) = {Handle(c, n) : n \in Positions(p.in)}
BY DEF Handles, Given, Positions

(* ALLOCATE gives a call memory of its own. *)
LEMMA AllocateIs ==
  ASSUME NEW c \in Consumers, NEW p, Allocate(c, p), MapInv, DOMAIN allocs = Consumers,
         Positions(p.in) \subseteq Nat, \A n \in Nat : Handle(c, n) \notin DOMAIN memory,
         NEW H, H = IF p.hint = Null THEN {} ELSE Handles(c, p)
  PROVE  /\ \A x : x \in DOMAIN memory' <=> x \in DOMAIN memory \union H
         /\ \A x : x \in DOMAIN idmap' <=> x \in DOMAIN idmap \union H
         /\ \A x \in DOMAIN memory : memory'[x] = memory[x]
         /\ \A n \in Positions(p.in) : p.hint # Null => memory'[Handle(c, n)] = DataOf(p, n)
         /\ \A x \in DOMAIN idmap : idmap'[x] = idmap[x]
         /\ \A x \in H : idmap'[x] = Ptr(x)
         /\ allocs' = IF p.hint = Null THEN [allocs EXCEPT ![c] = Handles(c, p)] ELSE allocs
<1>1. CASE p.hint = Null
  BY <1>1 DEF Allocate
<1>2. CASE p.hint # Null
  <2>1. H = {Handle(c, n) : n \in Positions(p.in)}
    BY <1>2, HandlesIs
  <2>2. \A x \in H : x \notin DOMAIN memory /\ x \notin DOMAIN idmap
    BY <2>1, HandleIs DEF MapInv
  <2>3. PICK f : f = WithData(c, p)
    OBVIOUS
  <2>4. DOMAIN f = H
    BY <1>2, <2>3 DEF WithData
  <2>5. \A n \in Positions(p.in) : f[Handle(c, n)] = DataOf(p, n)
    <3>1. \A n : Handle(c, n)[2] = n
      BY DEF Handle
    <3> QED BY <1>2, <2>1, <2>3, <3>1 DEF WithData
  <2>6. PICK g : g = [h \in H |-> Ptr(h)]
    OBVIOUS
  <2>7. DOMAIN g = H /\ \A x \in H : g[x] = Ptr(x)
    BY <2>6
  <2>8. memory' = Merged(memory, f) /\ idmap' = Merged(idmap, g) /\ allocs' = allocs
    BY <1>2, <2>3, <2>6 DEF Allocate, @@
  <2>9. PICK m : m = memory'
    OBVIOUS
  <2>10. PICK i : i = idmap'
    OBVIOUS
  <2>11. DOMAIN m = DOMAIN memory \union H /\ DOMAIN i = DOMAIN idmap \union H
    BY <2>4, <2>7, <2>8, <2>9, <2>10, MergedDomain
  <2>12. /\ \A x \in DOMAIN memory : m[x] = memory[x]
         /\ \A x \in DOMAIN f : x \notin DOMAIN memory => m[x] = f[x]
    BY <2>8, <2>9, MergedValues
  <2>13. /\ \A x \in DOMAIN idmap : i[x] = idmap[x]
         /\ \A x \in DOMAIN g : x \notin DOMAIN idmap => i[x] = g[x]
    BY <2>8, <2>10, MergedValues
  <2>14. \A n \in Positions(p.in) : m[Handle(c, n)] = DataOf(p, n)
    BY <2>1, <2>2, <2>4, <2>5, <2>12
  <2>15. \A x \in H : i[x] = Ptr(x)
    BY <2>2, <2>7, <2>13
  <2> QED BY <1>2, <2>8, <2>9, <2>10, <2>11, <2>12, <2>13, <2>14, <2>15
<1> QED BY <1>1, <1>2

\* in a plan's data for a position there is what is in memory of that position
LEMMA DataIs ==
  ASSUME NEW p, NEW n \in Positions(p.in)
  PROVE  \E i \in DOMAIN p.in : p.in[i].pos = n /\ DataOf(p, n) = p.in[i].data
BY DEF Positions, DataOf

\* the step that sets a field of a call
LEMMA GotoIs ==
  ASSUME NEW c \in Consumers, DOMAIN call = Consumers, NEW p, NEW r, NEW a,
         call[c] = [at |-> a, plan |-> p, ret |-> r], NEW at, Goto(c, at)
  PROVE  /\ DOMAIN call' = Consumers /\ call'[c] = [at |-> at, plan |-> p, ret |-> r]
         /\ \A d \in Consumers \ {c} : call'[d] = call[d]
<1>1. call' = [call EXCEPT ![c] = [call[c] EXCEPT !.at = at]]
  BY DEF Goto
<1>2. [call[c] EXCEPT !.at = at] = [at |-> at, plan |-> p, ret |-> r]
  OBVIOUS
<1> QED BY <1>1, <1>2

\* a call that begins
LEMMA CalledIs ==
  ASSUME NEW p, NEW a
  PROVE  Called(p, a).at = a /\ Called(p, a).plan = p /\ Called(p, a).ret = Null
BY DEF Called

\* the application calls a function, and memory is allocated
LEMMA BeginKeeps == ASSUME IInv, NEW c \in Consumers, Begin(c) PROVE IInv'
<1>1. /\ failed = "none" /\ failed' = "none" /\ call[c].at = "idle" /\ foreign' = {}
      /\ objects' = objects /\ vendor' = vendor /\ held' = held
  BY DEF Begin, InCall
<1>2. TypeOK /\ Domains /\ Running /\ MapInv /\ VendorInv
  BY <1>1 DEF IInv
<1>3. PICK p \in Calls(c) :
        /\ p.hint = Null \/ Known(p.hint)
        /\ p.fun \in With("retain") => held[c][p.hint].refs < MaxRefs
        /\ Allocate(c, p) /\ call' = [call EXCEPT ![c] = Called(p, "called")]
  BY DEF Begin
<1>4. DOMAIN held[c] \subseteq Ids \union Reals
  BY <1>2 DEF TypeOK
<1>5. PlanFacts(c, held[c], p)
  BY <1>4, Planned
<1>6. Positions(p.in) \subseteq Nat
  BY <1>5 DEF PlanFacts
<1>7. ~Busy(c)
  BY <1>1 DEF Busy, InProgress
<1>8. allocs[c] = {} /\ \A n \in Nat : Handle(c, n) \notin DOMAIN memory
  BY <1>1, <1>2, <1>7 DEF Running, MemoryAt
<1>9. /\ DOMAIN call' = Consumers /\ call'[c] = Called(p, "called")
      /\ \A d \in Consumers \ {c} : call'[d] = call[d]
  BY <1>2, <1>3 DEF Domains
<1>10. call'[c].at = "called" /\ call'[c].plan = p /\ call'[c].ret = Null
  BY <1>9, CalledIs
<1>11. PICK H : H = IF p.hint = Null THEN {} ELSE Handles(c, p)
  OBVIOUS
<1>12. /\ DOMAIN memory' = DOMAIN memory \union H
       /\ DOMAIN idmap' = DOMAIN idmap \union H
       /\ \A x \in DOMAIN memory : memory'[x] = memory[x]
       /\ \A n \in Positions(p.in) : p.hint # Null => memory'[Handle(c, n)] = DataOf(p, n)
       /\ \A x \in DOMAIN idmap : idmap'[x] = idmap[x]
       /\ \A x \in H : idmap'[x] = Ptr(x)
       /\ allocs' = IF p.hint = Null THEN [allocs EXCEPT ![c] = Handles(c, p)] ELSE allocs
  <2>1. MapInv /\ DOMAIN allocs = Consumers /\ Allocate(c, p)
    BY <1>2, <1>3 DEF Domains
  <2>2. /\ \A x : x \in DOMAIN memory' <=> x \in DOMAIN memory \union H
        /\ \A x : x \in DOMAIN idmap' <=> x \in DOMAIN idmap \union H
    BY <1>6, <1>8, <1>11, <2>1, AllocateIs
  <2>3. \A x \in DOMAIN memory : memory'[x] = memory[x]
    BY <1>6, <1>8, <1>11, <2>1, AllocateIs
  <2>4. \A n \in Positions(p.in) : p.hint # Null => memory'[Handle(c, n)] = DataOf(p, n)
    BY <1>6, <1>8, <1>11, <2>1, AllocateIs
  <2>5. \A x \in DOMAIN idmap : idmap'[x] = idmap[x]
    BY <1>6, <1>8, <1>11, <2>1, AllocateIs
  <2>6. \A x \in H : idmap'[x] = Ptr(x)
    BY <1>6, <1>8, <1>11, <2>1, AllocateIs
  <2>7. allocs' = IF p.hint = Null THEN [allocs EXCEPT ![c] = Handles(c, p)] ELSE allocs
    BY <1>6, <1>8, <1>11, <2>1, AllocateIs
  <2> QED BY <2>2, <2>3, <2>4, <2>5, <2>6, <2>7
<1>13. /\ DOMAIN allocs' = Consumers /\ \A d \in Consumers \ {c} : allocs'[d] = allocs[d]
       /\ allocs'[c] = IF p.hint = Null THEN Handles(c, p) ELSE {}
  BY <1>2, <1>8, <1>12 DEF Domains
<1>14. \A x \in H : x \in Consumers \X Nat /\ x \notin Ids \union Reals \union {Platform, Device, Null}
  BY <1>6, <1>11, HandlesIs, HandleIs
<1>15. TypeOK'
  <2>1. \A d \in Consumers : call'[d].at \in {"idle", "called", "remote", "post", "end", "gone"}
    BY <1>2, <1>9, <1>10 DEF TypeOK
  <2> QED BY <1>1, <1>2, <1>12, <2>1 DEF TypeOK
<1>16. CrossingsListed' /\ Domains'
  BY <1>1, <1>2, <1>9, <1>13 DEF CrossingsListed, Domains
<1>17. MapInv'
  <2>1. \A x \in DOMAIN memory' \union {Platform, Device} : idmap'[x] = Ptr(x)
    BY <1>2, <1>12 DEF MapInv
  <2>2. \A id \in DOMAIN idmap' \intersect Ids : idmap'[id] \in Reals
    BY <1>2, <1>12, <1>14 DEF MapInv
  <2> QED BY <1>2, <1>12, <1>14, <2>1, <2>2 DEF MapInv
<1>18. \A d \in Consumers : Claimed(d)' = Claimed(d)
  <2>1. Claimed(c) = Null /\ Claimed(c)' = Null
    BY <1>1, <1>10 DEF Claimed
  <2>2. ASSUME NEW d \in Consumers \ {c} PROVE Claimed(d)' = Claimed(d)
    <3>1. CallAt(d) /\ HeldAt(d) /\ call'[d] = call[d]
      BY <1>2, <1>9 DEF Running
    <3> QED BY <1>1, <1>12, <3>1, ClaimStays
  <2> QED BY <2>1, <2>2
<1>19. VendorInv'
  <2>1. \A id \in DOMAIN objects : id \in DOMAIN idmap' /\ idmap'[id] = idmap[id]
    BY <1>2, <1>12 DEF VendorInv
  <2>2. ASSUME NEW d
        PROVE  \/ call'[d] = call[d]
               \/ call'[d].at # "remote" /\ call[d].at # "remote"
    <3>1. CASE d = c
      BY <1>1, <1>10, <3>1
    <3>2. CASE d # c
      BY <1>2, <1>3, <3>2 DEF Domains
    <3> QED BY <3>1, <3>2
  <2> QED BY <1>1, <1>2, <1>18, <2>1, <2>2, VendorStays
<1>20. CallAt(c)'
  <2>1. call'[c] = [at |-> "called", plan |-> p, ret |-> Null]
    BY <1>9 DEF Called
  <2>2. p.hint \in DOMAIN held[c] => p.hint \in Ids
    BY <1>2, <1>3, <1>4, CallsAssumption DEF Known, MapInv, TypeOK, VendorInv, PartialFunctions
  <2> QED BY <1>1, <1>3, <1>5, <1>10, <2>1, <2>2 DEF CallAt
<1>21. EventAt(c)'
  <2>1. ASSUME WantsEvent(p) PROVE memory'[Handle(c, Argc(p.fun))] = <<>>
    <3>1. Argc(p.fun) \in Positions(p.in) /\ p.hint # Null
      BY <1>5, <2>1 DEF PlanFacts, WantsEvent, Given, Positions
    <3>2. memory'[Handle(c, Argc(p.fun))] = DataOf(p, Argc(p.fun))
      BY <1>12, <3>1
    <3>3. PICK i \in DOMAIN p.in : p.in[i].pos = Argc(p.fun) /\ DataOf(p, Argc(p.fun)) = p.in[i].data
      BY <3>1, DataIs
    <3> QED BY <1>5, <2>1, <3>2, <3>3 DEF PlanFacts, WantsEvent
  <2> QED BY <1>10, <2>1 DEF EventAt
<1>22. MemoryAt(c)'
  <2>1. ASSUME NEW n \in Nat, Handle(c, n) \in DOMAIN memory' PROVE p.hint # Null /\ n \in Positions(p.in)
    BY <1>8, <1>11, <1>12, <2>1, HandlesIs, HandleSame
  <2> QED BY <1>10, <1>11, <1>12, <1>13, <2>1 DEF MemoryAt, Busy, InProgress
<1>23. HeldAt(c)'
  <2>1. New(c) = {} /\ New(c)' = {}
    BY <1>1, <1>10 DEF New
  <2>2. \A v : ~Executed(c, v) /\ ~(Executed(c, v)')
    BY <1>1, <1>10 DEF Executed
  <2>3. ASSUME NEW v \in DOMAIN held[c]
        PROVE  /\ v \in Ids => v \in DOMAIN idmap' /\ v \in DOMAIN objects /\ objects[v].consumer = c
               /\ ~held[c][v].event => v \in Ids
    BY <1>2, <1>12, <2>2 DEF Running, HeldAt, Leaves
  <2>4. ASSUME NEW id \in DOMAIN objects, objects[id].consumer = c
        PROVE  id \in DOMAIN held[c] /\ objects[id].refs = held[c][id].refs
    BY <1>1, <1>2, <2>1, <2>2, <2>4 DEF Running, HeldAt
  <2> QED BY <1>1, <2>1, <2>2, <2>3, <2>4 DEF HeldAt
<1>24. ASSUME NEW d \in Consumers \ {c}
       PROVE  CallAt(d)' /\ EventAt(d)' /\ MemoryAt(d)' /\ HeldAt(d)'
  <2>1. CallAt(d) /\ EventAt(d) /\ MemoryAt(d) /\ HeldAt(d) /\ call'[d] = call[d] /\ held'[d] = held[d]
    BY <1>1, <1>2, <1>9 DEF Running
  <2>2. \A n \in Nat : Handle(d, n) \in DOMAIN memory' <=> Handle(d, n) \in DOMAIN memory
    BY <1>11, <1>12, HandlesIs, HandleSame
  <2> QED BY <1>1, <1>12, <1>13, <2>1, <2>2, OthersStay
<1> QED BY <1>1, <1>15, <1>16, <1>17, <1>19, <1>20, <1>21, <1>22, <1>23, <1>24, Continues

Reasons == {"hint", "retain", "handle", "list", "mapping", "event", "available", "exit"}

\* after an assertion has failed only what has been said of it has to hold
LEMMA Stops ==
  ASSUME IInv, NEW reason \in Reasons, Fails(reason), AssertionsExplained', DOMAIN call' = Consumers,
         \A c \in Consumers : \/ call'[c].at = call[c].at
                              \/ call'[c].at = "called"
  PROVE  IInv'
<1>1. /\ failed' = reason /\ objects' = objects /\ allocs' = allocs /\ idmap' = idmap
      /\ memory' = memory /\ vendor' = vendor /\ held' = held /\ foreign' = foreign
  BY DEF Fails
<1>2. failed' # "none" /\ TypeOK /\ NothingLeft /\ CrossingsListed /\ Domains
  BY <1>1 DEF IInv, Reasons
<1>3. TypeOK'
  <2>1. \A d \in Consumers : call'[d].at \in {"idle", "called", "remote", "post", "end", "gone"}
    BY <1>2 DEF TypeOK
  <2> QED BY <1>1, <1>2, <2>1 DEF TypeOK, Reasons
<1>4. NothingLeft'
  BY <1>1, <1>2 DEF NothingLeft
<1>5. CrossingsListed' /\ Domains'
  BY <1>1, <1>2 DEF CrossingsListed, Domains
<1> QED BY <1>2, <1>3, <1>4, <1>5 DEF IInv

\* the only hints the agent does not know are the events of clEnqueueMarker
LEMMA AsksUnknownKeeps == ASSUME IInv, NEW c \in Consumers, AsksUnknown(c) PROVE IInv'
<1>1. failed = "none" /\ call[c].at = "idle" /\ Fails("hint")
  BY DEF AsksUnknown, InCall
<1>2. TypeOK /\ Domains /\ Running
  BY <1>1 DEF IInv
<1>3. PICK p \in Calls(c) : /\ p.hint # Null /\ ~Known(p.hint)
                            /\ call' = [call EXCEPT ![c] = Called(p, "called")]
  BY DEF AsksUnknown
<1>4. DOMAIN held[c] \subseteq Ids \union Reals
  BY <1>2 DEF TypeOK
<1>5. PlanFacts(c, held[c], p)
  BY <1>4, Planned
<1>6. p.hint \in DOMAIN held[c] /\ p.hint \notin DOMAIN objects
  BY <1>3, <1>5 DEF PlanFacts, Known
<1>7. p.hint \in Reals
  BY <1>1, <1>2, <1>4, <1>6 DEF Running, HeldAt, Leaves, Executed
<1>8. /\ DOMAIN call' = Consumers /\ call'[c] = Called(p, "called")
      /\ \A d \in Consumers \ {c} : call'[d] = call[d]
  BY <1>2, <1>3 DEF Domains
<1>9. call'[c].at = "called" /\ call'[c].plan = p
  BY <1>8, CalledIs
<1>10. AssertionsExplained'
  BY <1>1, <1>7, <1>9 DEF AssertionsExplained, Fails
<1> QED BY <1>1, <1>8, <1>9, <1>10, Stops DEF Reasons

\* the question for CL_DEVICE_AVAILABLE
LEMMA AsksAvailableKeeps == ASSUME IInv, NEW c \in Consumers, AsksAvailable(c) PROVE IInv'
<1>1. Fails("available") /\ call' = call /\ failed = "none"
  BY DEF AsksAvailable, Posting, InCall
<1>2. AssertionsExplained'
  BY <1>1 DEF AssertionsExplained, Fails
<1>3. DOMAIN call = Consumers
  BY DEF IInv, Domains
<1> QED BY <1>1, <1>2, <1>3, Stops DEF Reasons

\* the application ends, and what it holds is gone with it
LEMMA GoneKeeps == ASSUME IInv, NEW c \in Consumers, Gone(c) PROVE IInv'
<1>1. failed = "none" /\ call[c].at \in {"idle", "called", "end"}
  BY DEF Gone, InCall
<1>2. TypeOK /\ Domains /\ Running /\ MapInv /\ VendorInv /\ CrossingsListed
  BY <1>1 DEF IInv
<1>3. CASE allocs[c] # {}
  <2>1. Fails("exit") /\ call' = call
    BY <1>3 DEF Gone
  <2>2. call[c].at # "idle"
    BY <1>2, <1>3 DEF Running, MemoryAt, Busy, InProgress
  <2>3. AssertionsExplained'
    BY <1>1, <2>1, <2>2 DEF AssertionsExplained, Fails
  <2> QED BY <1>2, <2>1, <2>3, Stops DEF Reasons, Domains
<1>4. CASE allocs[c] = {}
  <2>1. /\ call' = [call EXCEPT ![c] = [at |-> "gone"]] /\ held' = [held EXCEPT ![c] = <<>>]
        /\ objects' = objects /\ allocs' = allocs /\ idmap' = idmap /\ memory' = memory
        /\ vendor' = vendor /\ failed' = failed /\ foreign' = foreign
    BY <1>4 DEF Gone
  <2>2. /\ DOMAIN call' = Consumers /\ DOMAIN held' = Consumers /\ call'[c].at = "gone"
        /\ held'[c] = <<>> /\ \A d \in Consumers \ {c} : call'[d] = call[d] /\ held'[d] = held[d]
    BY <1>2, <2>1 DEF Domains
  <2>3. DOMAIN held'[c] = {}
    BY <2>2
  <2>4. TypeOK'
    <3>1. \A d \in Consumers :
            /\ DOMAIN held'[d] \subseteq Ids \union Reals
            /\ \A v \in DOMAIN held'[d] : held'[d][v] \in [event : BOOLEAN, refs : 1 .. MaxRefs]
            /\ call'[d].at \in {"idle", "called", "remote", "post", "end", "gone"}
      BY <1>2, <2>2, <2>3 DEF TypeOK
    <3> QED BY <1>2, <2>1, <3>1 DEF TypeOK
  <2>5. CrossingsListed' /\ Domains' /\ MapInv'
    BY <1>2, <2>1, <2>2 DEF CrossingsListed, Domains, MapInv
  <2>6. VendorInv'
    <3>1. Claimed(c)' = Null
      BY <2>2 DEF Claimed
    <3>2. ASSUME NEW d \in Consumers \ {c} PROVE Claimed(d)' = Claimed(d)
      BY <2>1, <2>2 DEF Claimed, Leaves, Executed
    <3>3. ASSUME NEW d
          PROVE  \/ call'[d] = call[d]
                 \/ call'[d].at # "remote" /\ call[d].at # "remote"
      <4>1. CASE d = c
        BY <1>1, <2>2, <4>1
      <4>2. CASE d # c
        BY <1>2, <2>1, <4>2 DEF Domains
      <4> QED BY <4>1, <4>2
    <3>4. \A id \in DOMAIN objects : id \in DOMAIN idmap' /\ idmap'[id] = idmap[id]
      BY <1>2, <2>1 DEF VendorInv
    <3> QED BY <1>2, <2>1, <3>1, <3>2, <3>3, <3>4, VendorStays
  <2>7. CallAt(c)' /\ EventAt(c)'
    BY <2>2 DEF CallAt, EventAt, Busy, InProgress
  <2>8. MemoryAt(c)'
    BY <1>4, <2>1, <2>2 DEF MemoryAt, Busy, InProgress
  <2>9. HeldAt(c)'
    <3>1. New(c)' = {}
      BY <2>2 DEF New
    <3> QED BY <2>2, <2>3, <3>1 DEF HeldAt
  <2>10. ASSUME NEW d \in Consumers \ {c}
         PROVE  CallAt(d)' /\ EventAt(d)' /\ MemoryAt(d)' /\ HeldAt(d)'
    <3>1. CallAt(d) /\ EventAt(d) /\ MemoryAt(d) /\ HeldAt(d) /\ call'[d] = call[d] /\ held'[d] = held[d]
      BY <1>2, <2>2 DEF Running
    <3> QED BY <2>1, <3>1, OthersStay
  <2> QED BY <1>1, <2>1, <2>4, <2>5, <2>6, <2>7, <2>8, <2>9, <2>10, Continues
<1> QED BY <1>3, <1>4

\* a consumer whose call moves on while nobody else is concerned
LEMMA OthersUntouched ==
  ASSUME Running, Domains, NEW c \in Consumers,
         \A d \in Consumers \ {c} : call'[d] = call[d],
         objects' = objects, allocs' = allocs, held' = held, idmap' = idmap,
         \A x \in DOMAIN memory : (\A n : x # Handle(c, n)) => memory'[x] = memory[x],
         DOMAIN memory' = DOMAIN memory
  PROVE  \A d \in Consumers \ {c} : /\ CallAt(d)' /\ EventAt(d)' /\ MemoryAt(d)' /\ HeldAt(d)'
                                    /\ Claimed(d)' = Claimed(d)
<1> SUFFICES ASSUME NEW d \in Consumers \ {c}
             PROVE  CallAt(d)' /\ EventAt(d)' /\ MemoryAt(d)' /\ HeldAt(d)' /\ Claimed(d)' = Claimed(d)
  OBVIOUS
<1>1. CallAt(d) /\ EventAt(d) /\ MemoryAt(d) /\ HeldAt(d) /\ call'[d] = call[d]
  BY DEF Running
<1>2. \A n : Handle(d, n) \in DOMAIN memory => memory'[Handle(d, n)] = memory[Handle(d, n)]
  BY HandleSame
<1>3. Claimed(d)' = Claimed(d)
  BY <1>1, ClaimStays
<1> QED BY <1>1, <1>2, <1>3, OthersStay

\* the call of c ends with nothing that the agent has to map
LEMMA EndsKeeps ==
  ASSUME IInv, failed = "none", NEW c \in Consumers, call[c].at = "post", Goto(c, "end"), failed' = "none",
         objects' = objects, idmap' = idmap, allocs' = allocs, memory' = memory,
         vendor' = vendor, held' = held, foreign' = foreign,
         call[c].plan.fun \in With("create") => call[c].ret = Null,
         WantsEvent(call[c].plan) => call[c].plan.fun = "clEnqueueMarker"
  PROVE  IInv'
<1>1. /\ failed = "none" /\ failed' = "none" /\ call[c].at = "post"
      /\ objects' = objects /\ idmap' = idmap /\ allocs' = allocs /\ memory' = memory
      /\ vendor' = vendor /\ held' = held /\ foreign' = foreign /\ Goto(c, "end")
  OBVIOUS
<1>2. TypeOK /\ Domains /\ Running /\ MapInv /\ VendorInv /\ CrossingsListed
  BY <1>1 DEF IInv
<1>3. PICK p : p = call[c].plan
  OBVIOUS
<1>4. PICK r : r = call[c].ret
  OBVIOUS
<1>5. CallAt(c) /\ EventAt(c) /\ MemoryAt(c) /\ HeldAt(c) /\ Busy(c)
  BY <1>1, <1>2 DEF Running, Busy, InProgress
<1>6. call[c] = [at |-> "post", plan |-> p, ret |-> r]
  BY <1>1, <1>3, <1>4, <1>5 DEF CallAt
<1>7. /\ DOMAIN call' = Consumers /\ call'[c] = [at |-> "end", plan |-> p, ret |-> r]
      /\ \A d \in Consumers \ {c} : call'[d] = call[d]
  BY <1>1, <1>2, <1>6, GotoIs DEF Domains
<1>8. call'[c].at = "end" /\ call'[c].plan = p /\ call'[c].ret = r
  BY <1>7
<1>9. (p.fun \in With("create") => r = Null) /\ (WantsEvent(p) => p.fun = "clEnqueueMarker")
  BY <1>3, <1>4
<1>10. TypeOK'
  <2>1. \A d \in Consumers : call'[d].at \in {"idle", "called", "remote", "post", "end", "gone"}
    BY <1>2, <1>7, <1>8 DEF TypeOK
  <2> QED BY <1>1, <1>2, <2>1 DEF TypeOK
<1>11. CrossingsListed' /\ Domains' /\ MapInv'
  BY <1>1, <1>2, <1>7 DEF CrossingsListed, Domains, MapInv
<1>12. CallAt(c)'
  <2>1. /\ PlanFacts(c, held[c], p) /\ (p.hint \in DOMAIN held[c] => p.hint \in Ids)
        /\ (p.fun \in With("retain") => held[c][p.hint].refs < MaxRefs)
    BY <1>3, <1>5 DEF CallAt
  <2> QED BY <1>1, <1>7, <1>8, <1>9, <2>1 DEF CallAt
<1>13. ASSUME WantsEvent(p) PROVE Range(memory[Handle(c, Argc(p.fun))]) \subseteq Reals
  <2>1. memory[Handle(c, Argc(p.fun))] = IF r = Null THEN <<>> ELSE <<r>>
    BY <1>1, <1>3, <1>4, <1>5, <1>13 DEF EventAt
  <2>2. r = Null \/ r \in Reals
    BY <1>1, <1>4, <1>5 DEF CallAt
  <2> QED BY <2>1, <2>2 DEF Range
<1>14. EventAt(c)'
  BY <1>1, <1>8, <1>9, <1>13 DEF EventAt
<1>15. MemoryAt(c)'
  BY <1>1, <1>3, <1>5, <1>8 DEF MemoryAt, Busy, InProgress
<1>16. HeldAt(c)'
  <2>1. New(c) = {} /\ New(c)' = {}
    BY <1>1, <1>8, <1>9, <1>13, CallsAssumption DEF New, EventGot
  <2>2. \A v : Executed(c, v)' <=> Executed(c, v)
    BY <1>1, <1>3, <1>8 DEF Executed
  <2>3. \A v : Leaves(c, v)' <=> Leaves(c, v)
    BY <1>1, <1>3, <1>8, <2>2 DEF Leaves
  <2>4. ASSUME NEW v \in DOMAIN held[c]
        PROVE  /\ v \in Ids => v \in DOMAIN idmap
               /\ v \in Ids /\ v \in DOMAIN objects => objects[v].consumer = c
               /\ v \in Ids /\ v \notin DOMAIN objects => Leaves(c, v)' /\ held[c][v].refs = 1
               /\ ~held[c][v].event => v \in Ids
    BY <1>5, <2>3 DEF HeldAt
  <2>5. ASSUME NEW id \in DOMAIN objects, objects[id].consumer = c
        PROVE  /\ id \in DOMAIN held[c]
               /\ IF Executed(c, id)' THEN Counted(p.fun, objects[id].refs, held[c][id].refs)
                  ELSE objects[id].refs = held[c][id].refs
    BY <1>1, <1>3, <1>5, <2>1, <2>2, <2>5 DEF HeldAt
  <2> QED BY <1>1, <1>8, <2>1, <2>4, <2>5 DEF HeldAt
<1>17. \A d \in Consumers \ {c} : /\ CallAt(d)' /\ EventAt(d)' /\ MemoryAt(d)' /\ HeldAt(d)'
                                  /\ Claimed(d)' = Claimed(d)
  BY <1>1, <1>2, <1>7, OthersUntouched
<1>18. VendorInv'
  <2>1. Claimed(c)' = Null
    BY <1>8 DEF Claimed
  <2>2. ASSUME NEW d
        PROVE  \/ call'[d] = call[d]
               \/ call'[d].at # "remote" /\ call[d].at # "remote"
    <3>1. CASE d = c
      BY <1>1, <1>8, <3>1
    <3>2. CASE d # c
      BY <1>1, <3>2 DEF Goto
    <3> QED BY <3>1, <3>2
  <2>3. \A id \in DOMAIN objects : id \in DOMAIN idmap' /\ idmap'[id] = idmap[id]
    BY <1>1, <1>2 DEF VendorInv
  <2> QED BY <1>1, <1>2, <1>17, <2>1, <2>2, <2>3, VendorStays
<1> QED BY <1>1, <1>10, <1>11, <1>12, <1>14, <1>15, <1>16, <1>17, <1>18, Continues

\* functions without an entry, and queries
LEMMA PostOtherKeeps == ASSUME IInv, NEW c \in Consumers, PostOther(c) PROVE IInv'
<1>1. /\ failed = "none" /\ failed' = "none" /\ call[c].at = "post"
      /\ objects' = objects /\ idmap' = idmap /\ allocs' = allocs /\ memory' = memory
      /\ vendor' = vendor /\ held' = held /\ foreign' = foreign /\ Goto(c, "end")
  BY DEF PostOther, InCall
<1>2. PICK f : f = call[c].plan.fun
  OBVIOUS
<1>3. f \notin With("create") /\ (f \in With("event") => f = "clEnqueueMarker")
  BY <1>2, Dispatch DEF PostOther
<1> QED BY <1>1, <1>2, <1>3, EndsKeeps DEF WantsEvent

\* what both sides do to a table of objects when a function counts
CountsIn(f, g, k, fun) ==
  CASE fun \in With("retain") -> g = [f EXCEPT ![k].refs = f[k].refs + 1]
    [] fun \in With("release") -> g = Released(f, k)
    [] OTHER -> g = f

\* g is f with one more or one less for k, or without it
OneCounted(f, g, k, fun) ==
  /\ DOMAIN f \ {k} \subseteq DOMAIN g /\ DOMAIN g \subseteq DOMAIN f
  /\ \A x \in DOMAIN f \ {k} : g[x] = f[x]
  /\ k \in DOMAIN g => Counted(fun, g[k].refs, f[k].refs)
  /\ k \in DOMAIN g => g[k] = [f[k] EXCEPT !.refs = g[k].refs]
  /\ k \in DOMAIN f /\ k \notin DOMAIN g => fun \in With("release") /\ f[k].refs = 1
  /\ k \in DOMAIN g /\ fun \in With("release") => f[k].refs # 1

\* records that count references
Countable(T) ==
  \A r \in T : /\ r.refs \in 1 .. MaxRefs /\ r = [r EXCEPT !.refs = r.refs]
               /\ \A n \in 1 .. MaxRefs : [r EXCEPT !.refs = n] \in T /\ [r EXCEPT !.refs = n].refs = n

\* those of the agent, of the vendor and of an application
LEMMA CountableRecords ==
  /\ Countable([consumer : Consumers, refs : 1 .. MaxRefs])
  /\ Countable([refs : 1 .. MaxRefs])
  /\ Countable([event : BOOLEAN, refs : 1 .. MaxRefs])
<1>1. ASSUME NEW r \in [consumer : Consumers, refs : 1 .. MaxRefs]
      PROVE  /\ r.refs \in 1 .. MaxRefs /\ r = [r EXCEPT !.refs = r.refs]
             /\ \A n \in 1 .. MaxRefs : /\ [r EXCEPT !.refs = n] \in [consumer : Consumers, refs : 1 .. MaxRefs]
                                        /\ [r EXCEPT !.refs = n].refs = n
  OBVIOUS
<1>2. ASSUME NEW r \in [refs : 1 .. MaxRefs]
      PROVE  /\ r.refs \in 1 .. MaxRefs /\ r = [r EXCEPT !.refs = r.refs]
             /\ \A n \in 1 .. MaxRefs : /\ [r EXCEPT !.refs = n] \in [refs : 1 .. MaxRefs]
                                        /\ [r EXCEPT !.refs = n].refs = n
  OBVIOUS
<1>3. ASSUME NEW r \in [event : BOOLEAN, refs : 1 .. MaxRefs]
      PROVE  /\ r.refs \in 1 .. MaxRefs /\ r = [r EXCEPT !.refs = r.refs]
             /\ \A n \in 1 .. MaxRefs : /\ [r EXCEPT !.refs = n] \in [event : BOOLEAN, refs : 1 .. MaxRefs]
                                        /\ [r EXCEPT !.refs = n].refs = n
  OBVIOUS
<1> QED BY <1>1, <1>2, <1>3 DEF Countable

\* counting keeps a table what it is, with references between 1 and MaxRefs
LEMMA CountedTable ==
  ASSUME NEW T, Countable(T),
         NEW S, NEW f \in PartialFunctions(S, T), NEW fun, NEW k, fun \in Counting => k \in DOMAIN f,
         fun \in With("retain") => f[k].refs < MaxRefs,
         NEW g, CountsIn(f, g, k, fun)
  PROVE  g \in PartialFunctions(S, T) /\ OneCounted(f, g, k, fun)
<1>1. \A x \in DOMAIN f : f[x] \in T
  BY PartialValues
<1>2. \A x \in DOMAIN f : f[x].refs \in 1 .. MaxRefs
  BY <1>1 DEF Countable
<1>3. ASSUME NEW n \in 1 .. MaxRefs, k \in DOMAIN f, g = [f EXCEPT ![k].refs = n],
             Counted(fun, n, f[k].refs), fun \in With("release") => f[k].refs # 1
      PROVE  g \in PartialFunctions(S, T) /\ OneCounted(f, g, k, fun)
  <2>1. PICK r : r = f[k]
    OBVIOUS
  <2>2. PICK s : s = [r EXCEPT !.refs = n]
    OBVIOUS
  <2>3. s.refs = n /\ s \in T
    BY <1>1, <1>3, <2>1, <2>2 DEF Countable
  <2>4. DOMAIN g = DOMAIN f /\ g[k] = s /\ \A x \in DOMAIN f \ {k} : g[x] = f[x]
    BY <1>3, <2>1, <2>2, RefsIs
  <2>5. g = [f EXCEPT ![k] = s]
    BY <1>3, <2>1, <2>2
  <2>6. g \in PartialFunctions(S, T)
    BY <1>3, <2>3, <2>5, PartialChanged
  <2>7. g[k] = [f[k] EXCEPT !.refs = g[k].refs]
    BY <2>1, <2>2, <2>3, <2>4
  <2>8. OneCounted(f, g, k, fun)
    BY <1>3, <2>3, <2>4, <2>7 DEF OneCounted
  <2> QED BY <2>6, <2>8
<1>4. CASE fun \in With("retain")
  <2>1. k \in DOMAIN f /\ fun \notin With("release") /\ g = [f EXCEPT ![k].refs = f[k].refs + 1]
    BY <1>4, Disjoint DEF CountsIn, Counting
  <2>2. PICK n : n = f[k].refs + 1
    OBVIOUS
  <2>3. n \in 1 .. MaxRefs
    BY <1>2, <1>4, <2>1, <2>2, CallsAssumption
  <2>4. Counted(fun, n, f[k].refs)
    BY <1>4, <2>2 DEF Counted
  <2>5. g = [f EXCEPT ![k].refs = n]
    BY <2>1, <2>2
  <2> QED BY <1>3, <2>1, <2>3, <2>4, <2>5
<1>5. CASE fun \in With("release")
  <2>1. k \in DOMAIN f /\ fun \notin With("retain") /\ g = Released(f, k)
    BY <1>5, Disjoint DEF CountsIn, Counting
  <2>2. CASE f[k].refs = 1
    <3>1. /\ DOMAIN g = DOMAIN f \ {k} /\ g = [x \in DOMAIN f \ {k} |-> f[x]]
          /\ \A x \in DOMAIN f \ {k} : g[x] = f[x]
      <4>1. g = [x \in DOMAIN f \ {k} |-> f[x]]
        BY <2>1, <2>2 DEF Released
      <4> QED BY <4>1
    <3>2. g \in PartialFunctions(S, T)
      BY <3>1, PartialLess
    <3>3. OneCounted(f, g, k, fun)
      BY <1>5, <2>2, <3>1 DEF OneCounted
    <3> QED BY <3>2, <3>3
  <2>3. CASE f[k].refs # 1
    <3>1. PICK n : n = f[k].refs - 1
      OBVIOUS
    <3>2. g = [f EXCEPT ![k].refs = n]
      BY <2>1, <2>3, <3>1, ReleasedOne
    <3>3. n \in 1 .. MaxRefs /\ f[k].refs = n + 1
      BY <1>2, <2>1, <2>3, <3>1, CallsAssumption
    <3>4. Counted(fun, n, f[k].refs)
      BY <1>5, <2>1, <3>3 DEF Counted
    <3> QED BY <1>3, <2>1, <2>3, <3>2, <3>3, <3>4
  <2> QED BY <2>2, <2>3
<1>6. CASE fun \notin Counting
  <2>1. g = f
    BY <1>6 DEF CountsIn, Counting
  <2>2. k \in DOMAIN g => g[k] = [f[k] EXCEPT !.refs = g[k].refs]
    BY <1>1, <2>1 DEF Countable
  <2> QED BY <1>6, <2>1, <2>2 DEF OneCounted, Counted, Counting
<1> QED BY <1>4, <1>5, <1>6 DEF Counting

\* counting does not change whom an object belongs to
LEMMA OwnersStay ==
  ASSUME NEW S, NEW f \in PartialFunctions(S, [consumer : Consumers, refs : 1 .. MaxRefs]),
         NEW g, NEW k, NEW fun, OneCounted(f, g, k, fun), NEW x \in DOMAIN g
  PROVE  g[x].consumer = f[x].consumer
<1>1. x \in DOMAIN f
  BY DEF OneCounted
<1>2. f[x] \in [consumer : Consumers, refs : 1 .. MaxRefs]
  BY <1>1, PartialValues
<1>3. CASE x = k
  <2>1. PICK n : n = g[k].refs
    OBVIOUS
  <2>2. g[x] = [f[x] EXCEPT !.refs = n]
    BY <1>3, <2>1 DEF OneCounted
  <2> QED BY <1>2, <2>2
<1>4. CASE x # k
  BY <1>1, <1>4 DEF OneCounted
<1> QED BY <1>3, <1>4

\* an object whose count a call changes belongs to the call's consumer
LEMMA HintIs ==
  ASSUME NEW c \in Consumers, Running, TypeOK, Busy(c), call[c].plan.hint \in DOMAIN objects
  PROVE  /\ call[c].plan.hint \in DOMAIN held[c] /\ objects[call[c].plan.hint].consumer = c
         /\ call[c].plan.hint \in Ids
<1>1. PICK p : p = call[c].plan
  OBVIOUS
<1>2. CallAt(c) /\ HeldAt(c)
  BY DEF Running
<1>3. p.hint \in DOMAIN held[c] \union {Platform, Null}
  BY <1>1, <1>2 DEF CallAt, PlanFacts
<1>4. p.hint \in Ids
  BY <1>1, PartialDomain DEF TypeOK
<1>5. p.hint \in DOMAIN held[c]
  BY <1>3, <1>4, CallsAssumption
<1> QED BY <1>1, <1>2, <1>4, <1>5 DEF HeldAt

\* the agent counts before the provider does; the last release leaves the id to the call
LEMMA ExecuteKeeps == ASSUME IInv, NEW c \in Consumers, Execute(c) PROVE IInv'
<1>1. failed = "none" /\ call[c].at = "called"
  BY DEF Execute, InCall
<1>2. TypeOK /\ Domains /\ Running /\ MapInv /\ VendorInv /\ CrossingsListed
  BY <1>1 DEF IInv
<1>3. PICK p : p = call[c].plan
  OBVIOUS
<1>4. PICK r : r = call[c].ret
  OBVIOUS
<1>5. CallAt(c) /\ EventAt(c) /\ MemoryAt(c) /\ HeldAt(c) /\ Busy(c)
  BY <1>1, <1>2 DEF Running, Busy, InProgress
<1>6. call[c] = [at |-> "called", plan |-> p, ret |-> r] /\ r = Null
  BY <1>1, <1>3, <1>4, <1>5 DEF CallAt
<1>7. /\ PlanFacts(c, held[c], p) /\ (p.hint \in DOMAIN held[c] => p.hint \in Ids)
      /\ (p.fun \in With("retain") => held[c][p.hint].refs < MaxRefs)
  BY <1>3, <1>5 DEF CallAt
<1>8. \A v : ~Executed(c, v) /\ ~Leaves(c, v)
  BY <1>1 DEF Executed, Leaves
<1>9. New(c) = {}
  BY <1>1 DEF New
<1>10. ASSUME p.fun \in Counting
       PROVE  /\ p.hint \in DOMAIN objects /\ p.hint # Null
              /\ objects[p.hint].consumer = c /\ objects[p.hint].refs = held[c][p.hint].refs
  <2>1. p.hint \in DOMAIN held[c] /\ p.hint \in Ids
    BY <1>7, <1>10 DEF PlanFacts
  <2>2. p.hint \in DOMAIN objects /\ objects[p.hint].consumer = c
    BY <1>5, <1>8, <2>1 DEF HeldAt
  <2>3. objects[p.hint].refs = held[c][p.hint].refs
    BY <1>1, <1>5, <1>8, <1>9, <2>2 DEF HeldAt
  <2> QED BY <2>1, <2>2, <2>3, CallsAssumption
<1>11. PreTable(p.fun) # "none" => objects[p.hint].consumer = c
  BY <1>10, Dispatch
<1>12. PICK b \in {"remote", "post"} :
         /\ b = IF p.hint # Null \/ PostTable(p.fun) = "unload" THEN "remote" ELSE "post"
         /\ Goto(c, b)
  BY <1>3, <1>11 DEF Execute
<1>13. /\ allocs' = allocs /\ idmap' = idmap /\ memory' = memory /\ vendor' = vendor
       /\ held' = held /\ failed' = failed /\ foreign' = foreign
  BY <1>3, <1>11 DEF Execute
<1>14. CountsIn(objects, objects', p.hint, p.fun)
  <2>1. objects' = CASE PreTable(p.fun) = "retain" -> [objects EXCEPT ![p.hint].refs = @ + 1]
                     [] PreTable(p.fun) = "release" -> Released(objects, p.hint)
                     [] OTHER -> objects
    BY <1>3, <1>11 DEF Execute
  <2>2. CASE p.fun \in With("retain")
    BY <2>1, <2>2, Dispatch, Disjoint DEF CountsIn
  <2>3. CASE p.fun \in With("release")
    BY <2>1, <2>3, Dispatch, Disjoint DEF CountsIn
  <2>4. CASE p.fun \notin Counting
    BY <2>1, <2>4, Dispatch DEF CountsIn, Counting
  <2> QED BY <2>2, <2>3, <2>4 DEF Counting
<1>15. PICK T : T = [consumer : Consumers, refs : 1 .. MaxRefs]
  OBVIOUS
<1>16. objects \in PartialFunctions(Ids, T)
  BY <1>2, <1>15 DEF TypeOK
<1>17. /\ objects' \in PartialFunctions(Ids, T) /\ OneCounted(objects, objects', p.hint, p.fun)
       /\ \A id \in DOMAIN objects' : objects'[id].consumer = objects[id].consumer
  <2>1. PICK g : g = objects'
    OBVIOUS
  <2>2. PICK f : f = objects
    OBVIOUS
  <2>3. p.fun \in With("retain") => f[p.hint].refs < MaxRefs
    BY <1>7, <1>10, <2>2 DEF Counting
  <2>4. CountsIn(f, g, p.hint, p.fun) /\ f \in PartialFunctions(Ids, T)
    BY <1>14, <1>16, <2>1, <2>2
  <2>5. p.fun \in Counting => p.hint \in DOMAIN f
    BY <1>10, <2>2
  <2>6. PICK k : k = p.hint
    OBVIOUS
  <2>7. PICK fun : fun = p.fun
    OBVIOUS
  <2>8. /\ CountsIn(f, g, k, fun) /\ (fun \in Counting => k \in DOMAIN f)
        /\ (fun \in With("retain") => f[k].refs < MaxRefs)
    BY <2>3, <2>4, <2>5, <2>6, <2>7
  <2>9. Countable(T)
    BY <1>15, CountableRecords
  <2>10. g \in PartialFunctions(Ids, T)
    BY <2>4, <2>8, <2>9, CountedTable
  <2>11. OneCounted(f, g, k, fun)
    BY <2>4, <2>8, <2>9, CountedTable
  <2>12. \A id \in DOMAIN g : g[id].consumer = f[id].consumer
    BY <1>15, <2>4, <2>11, OwnersStay
  <2> QED BY <2>1, <2>2, <2>6, <2>7, <2>10, <2>11, <2>12
<1>18. /\ DOMAIN call' = Consumers /\ call'[c] = [at |-> b, plan |-> p, ret |-> r]
       /\ \A d \in Consumers \ {c} : call'[d] = call[d]
  BY <1>2, <1>6, <1>12, GotoIs DEF Domains
<1>19. call'[c].at = b /\ call'[c].plan = p /\ call'[c].ret = Null
  BY <1>6, <1>18
<1>20. /\ \A id \in DOMAIN objects' : id \in DOMAIN objects
       /\ \A id \in DOMAIN objects : id # p.hint => id \in DOMAIN objects' /\ objects'[id] = objects[id]
  BY <1>17 DEF OneCounted
<1>21. p.hint \in DOMAIN objects => objects[p.hint].consumer = c
  BY <1>2, <1>3, <1>5, HintIs
<1>22. TypeOK'
  <2>1. \A d \in Consumers : call'[d].at \in {"idle", "called", "remote", "post", "end", "gone"}
    BY <1>2, <1>18, <1>19 DEF TypeOK
  <2>2. objects' \in PartialFunctions(Ids, [consumer : Consumers, refs : 1 .. MaxRefs])
    BY <1>15, <1>17
  <2> QED BY <1>2, <1>13, <2>1, <2>2 DEF TypeOK
<1>23. CrossingsListed' /\ Domains' /\ MapInv'
  BY <1>2, <1>13, <1>18 DEF CrossingsListed, Domains, MapInv
<1>24. CallAt(c)'
  <2>1. b = "remote" => p.hint # Null \/ p.fun \in With("unload")
    BY <1>12, Dispatch
  <2>2. call'[c] = [at |-> b, plan |-> p, ret |-> Null]
    BY <1>6, <1>18
  <2> QED BY <1>7, <1>13, <1>19, <2>1, <2>2 DEF CallAt
<1>25. EventAt(c)'
  <2>1. WantsEvent(p) => memory[Handle(c, Argc(p.fun))] = <<>>
    BY <1>1, <1>3, <1>5 DEF EventAt
  <2> QED BY <1>13, <1>19, <2>1 DEF EventAt
<1>26. MemoryAt(c)'
  BY <1>3, <1>5, <1>13, <1>19 DEF MemoryAt, Busy, InProgress
<1>27. New(c)' = {} /\ \A v : Executed(c, v)' <=> v = p.hint
  BY <1>19 DEF New, Executed
<1>28. HeldAt(c)'
  <2>1. ASSUME NEW v \in DOMAIN held[c]
        PROVE  /\ v \in Ids => v \in DOMAIN idmap
               /\ v \in Ids /\ v \in DOMAIN objects' => objects'[v].consumer = c
               /\ v \in Ids /\ v \notin DOMAIN objects' => Leaves(c, v)' /\ held[c][v].refs = 1
               /\ ~held[c][v].event => v \in Ids
    <3>1. /\ v \in Ids => v \in DOMAIN idmap /\ v \in DOMAIN objects /\ objects[v].consumer = c
          /\ ~held[c][v].event => v \in Ids
      BY <1>5, <1>8 DEF HeldAt
    <3>2. ASSUME v \in Ids, v \notin DOMAIN objects' PROVE Leaves(c, v)' /\ held[c][v].refs = 1
      <4>1. v = p.hint
        BY <1>20, <3>1, <3>2
      <4>2. p.fun \in With("release") /\ objects[v].refs = 1
        BY <1>17, <3>1, <3>2, <4>1 DEF OneCounted
      <4>3. held[c][v].refs = 1
        BY <1>10, <4>1, <4>2 DEF Counting
      <4> QED BY <1>19, <1>27, <3>2, <4>1, <4>2, <4>3 DEF Leaves
    <3> QED BY <1>17, <3>1, <3>2
  <2>2. ASSUME NEW id \in DOMAIN objects', objects'[id].consumer = c
        PROVE  /\ id \in DOMAIN held[c]
               /\ IF id = p.hint THEN Counted(p.fun, objects'[id].refs, held[c][id].refs)
                  ELSE objects'[id].refs = held[c][id].refs
    <3>1. id \in DOMAIN objects /\ objects[id].consumer = c
      BY <1>17, <1>20, <2>2
    <3>2. id \in DOMAIN held[c] /\ objects[id].refs = held[c][id].refs
      BY <1>1, <1>5, <1>8, <1>9, <3>1 DEF HeldAt
    <3>3. CASE id = p.hint
      BY <1>17, <3>2, <3>3 DEF OneCounted
    <3>4. CASE id # p.hint
      BY <1>20, <3>1, <3>2, <3>4
    <3> QED BY <3>3, <3>4
  <2> QED BY <1>13, <1>19, <1>27, <2>1, <2>2 DEF HeldAt
<1>29. ASSUME NEW d \in Consumers \ {c}
       PROVE  CallAt(d)' /\ EventAt(d)' /\ MemoryAt(d)' /\ HeldAt(d)' /\ Claimed(d)' = Claimed(d)
  <2>1. CallAt(d) /\ EventAt(d) /\ MemoryAt(d) /\ HeldAt(d) /\ call'[d] = call[d]
    BY <1>2, <1>18 DEF Running
  <2>2. \A id \in DOMAIN held[d] : id \in DOMAIN objects' <=> id \in DOMAIN objects
    <3>1. ASSUME NEW id \in DOMAIN held[d], id \in DOMAIN objects PROVE id # p.hint
      <4>1. id \in Ids
        BY <1>16, <3>1, PartialDomain
      <4> QED BY <1>21, <2>1, <3>1, <4>1 DEF HeldAt
    <3> QED BY <1>20, <3>1
  <2>3. \A id \in DOMAIN objects : objects[id].consumer = d => id \in DOMAIN objects' /\ objects'[id] = objects[id]
    BY <1>20, <1>21
  <2>4. \A id \in DOMAIN objects' : objects'[id].consumer = d => id \in DOMAIN objects /\ objects'[id] = objects[id]
    BY <1>17, <1>20, <1>21
  <2>5. CallAt(d)' /\ EventAt(d)' /\ MemoryAt(d)' /\ HeldAt(d)'
    BY <1>13, <2>1, <2>2, <2>3, <2>4, OthersStay
  <2>6. Claimed(d)' = Claimed(d)
    BY <1>13, <2>1, <2>2, ClaimStays
  <2> QED BY <2>5, <2>6
<1>30. Claimed(c) = Null /\ (Claimed(c)' # Null =>
         /\ p.hint \in DOMAIN objects \ DOMAIN objects' /\ Claimed(c)' = idmap[p.hint] /\ objects[p.hint].refs = 1)
  <2>1. Claimed(c) = Null
    BY <1>1 DEF Claimed
  <2>2. ASSUME Claimed(c)' # Null
        PROVE  /\ p.hint \in DOMAIN objects \ DOMAIN objects' /\ Claimed(c)' = idmap[p.hint]
               /\ objects[p.hint].refs = 1
    <3>1. Leaves(c, p.hint)' /\ Claimed(c)' = idmap[p.hint]
      BY <1>13, <1>19, <2>2 DEF Claimed
    <3>2. p.fun \in With("release") /\ p.hint \notin DOMAIN objects'
      BY <1>19, <3>1 DEF Leaves
    <3>3. p.hint \in DOMAIN objects
      BY <1>10, <3>2 DEF Counting
    <3> QED BY <1>17, <3>1, <3>2, <3>3 DEF OneCounted
  <2> QED BY <2>1, <2>2
<1>31. VendorInv'
  <2>1. ASSUME NEW id \in DOMAIN objects'
        PROVE  LET d == objects'[id].consumer IN
               /\ id \in DOMAIN idmap /\ idmap[id] \in DOMAIN vendor
               /\ IF call'[d].at = "remote" /\ call'[d].plan.hint = id
                  THEN Counted(call'[d].plan.fun, objects'[id].refs, vendor[idmap[id]].refs)
                  ELSE objects'[id].refs = vendor[idmap[id]].refs
    <3>1. PICK d : d = objects[id].consumer
      OBVIOUS
    <3>2. id \in DOMAIN objects /\ d = objects'[id].consumer /\ d \in Consumers
      <4>1. id \in DOMAIN objects /\ d = objects'[id].consumer
        BY <1>17, <1>20, <3>1
      <4>2. objects[id] \in T
        BY <1>16, <4>1, PartialValues
      <4> QED BY <1>15, <3>1, <4>1, <4>2
    <3>3. /\ id \in DOMAIN idmap /\ idmap[id] \in DOMAIN vendor
          /\ IF call[d].at = "remote" /\ call[d].plan.hint = id
             THEN Counted(call[d].plan.fun, objects[id].refs, vendor[idmap[id]].refs)
             ELSE objects[id].refs = vendor[idmap[id]].refs
      BY <1>2, <3>1, <3>2 DEF VendorInv
    <3>4. CASE id = p.hint
      <4>1. d = c /\ b = "remote"
        BY <1>12, <1>21, <3>1, <3>2, <3>4, <1>16, CallsAssumption, PartialDomain
      <4>2. Counted(p.fun, objects'[id].refs, objects[id].refs)
        BY <1>17, <3>4 DEF OneCounted
      <4> QED BY <1>1, <1>19, <3>2, <3>3, <3>4, <4>1, <4>2
    <3>5. CASE id # p.hint
      <4>1. objects'[id] = objects[id]
        BY <1>20, <3>2, <3>5
      <4>2. CASE d = c
        BY <1>1, <1>19, <3>2, <3>3, <3>5, <4>1, <4>2
      <4>3. CASE d # c
        BY <1>18, <3>2, <3>3, <4>1, <4>3
      <4> QED BY <4>2, <4>3
    <3> QED BY <3>4, <3>5
  <2>2. ASSUME NEW id \in DOMAIN objects'
        PROVE  \A other \in DOMAIN objects' \ {id} : idmap[other] # idmap[id]
    BY <1>2, <1>20 DEF VendorInv
  <2>3. ASSUME NEW id \in DOMAIN objects', NEW d \in Consumers PROVE idmap[id] # Claimed(d)'
    <3>1. id \in DOMAIN objects /\ idmap[id] \in DOMAIN vendor /\ idmap[id] # Claimed(d)
      BY <1>2, <1>20 DEF VendorInv
    <3>2. Null \notin DOMAIN vendor
      BY <1>2, CallsAssumption, PartialDomain DEF TypeOK
    <3>3. CASE d # c
      BY <1>29, <3>1, <3>3
    <3>4. CASE d = c
      BY <1>2, <1>30, <3>1, <3>2, <3>4 DEF VendorInv
    <3> QED BY <3>3, <3>4
  <2>4. ASSUME NEW d \in Consumers, Claimed(d)' # Null
        PROVE  /\ Claimed(d)' \in DOMAIN vendor /\ vendor[Claimed(d)'].refs = 1
               /\ \A e \in Consumers \ {d} : Claimed(e)' # Claimed(d)'
    <3>1. CASE d = c
      <4>1. /\ p.hint \in DOMAIN objects /\ Claimed(c)' = idmap[p.hint] /\ objects[p.hint].refs = 1
            /\ objects[p.hint].consumer = c
        BY <1>21, <1>30, <2>4, <3>1
      <4>2. idmap[p.hint] \in DOMAIN vendor /\ vendor[idmap[p.hint]].refs = 1
        BY <1>1, <1>2, <4>1 DEF VendorInv
      <4>3. \A e \in Consumers : Claimed(e) # idmap[p.hint]
        BY <1>2, <4>1 DEF VendorInv
      <4> QED BY <1>29, <3>1, <4>1, <4>2, <4>3
    <3>2. CASE d # c
      <4>1. Claimed(d)' = Claimed(d) /\ Claimed(d) # Null
        BY <1>29, <2>4, <3>2
      <4>2. /\ Claimed(d) \in DOMAIN vendor /\ vendor[Claimed(d)].refs = 1
            /\ \A e \in Consumers \ {d} : Claimed(e) # Claimed(d)
        BY <1>2, <4>1 DEF VendorInv
      <4>3. Claimed(c)' # Claimed(d)
        <5>1. CASE Claimed(c)' = Null
          BY <4>1, <5>1
        <5>2. CASE Claimed(c)' # Null
          <6>1. p.hint \in DOMAIN objects /\ Claimed(c)' = idmap[p.hint]
            BY <1>30, <5>2
          <6> QED BY <1>2, <6>1 DEF VendorInv
        <5> QED BY <5>1, <5>2
      <4> QED BY <1>29, <4>1, <4>2, <4>3
    <3> QED BY <3>1, <3>2
  <2> QED BY <1>13, <2>1, <2>2, <2>3, <2>4 DEF VendorInv
<1> QED BY <1>1, <1>13, <1>22, <1>23, <1>24, <1>25, <1>26, <1>28, <1>29, <1>31, Continues

-----------------------------------------------------------------------------
(* The provider *)

\* what is known of a call that the provider executes
LEMMA RemoteIs ==
  ASSUME IInv, failed = "none", NEW c \in Consumers, call[c].at = "remote", NEW p, p = call[c].plan
  PROVE  /\ TypeOK /\ Domains /\ Running /\ MapInv /\ VendorInv /\ CrossingsListed
         /\ CallAt(c) /\ EventAt(c) /\ MemoryAt(c) /\ HeldAt(c) /\ Busy(c)
         /\ PlanFacts(c, held[c], p) /\ (p.hint \in DOMAIN held[c] => p.hint \in Ids)
         /\ (p.hint # Null \/ p.fun \in With("unload"))
         /\ call[c] = [at |-> "remote", plan |-> p, ret |-> Null]
<1>1. TypeOK /\ Domains /\ Running /\ MapInv /\ VendorInv /\ CrossingsListed
  BY DEF IInv
<1>2. CallAt(c) /\ EventAt(c) /\ MemoryAt(c) /\ HeldAt(c) /\ Busy(c)
  BY <1>1 DEF Running, Busy, InProgress
<1> QED BY <1>1, <1>2 DEF CallAt

\* an application's id stands for an object of the vendor's
LEMMA IdIsVendor ==
  ASSUME IInv, failed = "none", NEW c \in Consumers, call[c].at = "remote",
         NEW v \in DOMAIN held[c], v \in Ids
  PROVE  v \in DOMAIN idmap /\ idmap[v] \in DOMAIN vendor
<1>1. TypeOK /\ MapInv /\ VendorInv /\ HeldAt(c)
  BY RemoteIs
<1>2. v \in DOMAIN idmap /\ idmap[v] \in Reals
  BY <1>1 DEF HeldAt, MapInv
<1>3. CASE v \in DOMAIN objects
  BY <1>1, <1>2, <1>3 DEF VendorInv
<1>4. CASE v \notin DOMAIN objects
  <2>1. Leaves(c, v)
    BY <1>1, <1>4 DEF HeldAt
  <2>2. Claimed(c) = idmap[v]
    BY <2>1 DEF Claimed, Leaves, Executed
  <2> QED BY <1>1, <1>2, <2>2, CallsAssumption DEF VendorInv
<1> QED BY <1>3, <1>4

\* what the provider can be asked to translate
Nameable(c) == (DOMAIN held[c] \intersect Ids) \union {Platform, Device} \union DOMAIN memory

\* and can be used by the vendor once it is translated
LEMMA UsableIs ==
  ASSUME IInv, failed = "none", NEW c \in Consumers, call[c].at = "remote", NEW v \in Nameable(c)
  PROVE  v \in DOMAIN idmap /\ Usable(idmap[v])
<1>1. CASE v \in DOMAIN held[c] /\ v \in Ids
  <2>1. v \in DOMAIN idmap /\ idmap[v] \in DOMAIN vendor
    BY <1>1, IdIsVendor
  <2> QED BY <2>1 DEF Usable
<1>2. CASE v \in {Platform, Device} \union DOMAIN memory
  <2>1. MapInv
    BY RemoteIs
  <2>2. v \in DOMAIN idmap /\ idmap[v] = Ptr(v)
    BY <1>2, <2>1 DEF MapInv
  <2> QED BY <1>2, <2>2 DEF Usable
<1> QED BY <1>1, <1>2 DEF Nameable

\* every argument has a name the provider knows
LEMMA ArgumentIs ==
  ASSUME IInv, failed = "none", NEW c \in Consumers, call[c].at = "remote", NEW p, p = call[c].plan,
         NEW pos \in DOMAIN p.ids \union Given(p)
  PROVE  ArgOf(c, p)[pos] \in Nameable(c)
<1>1. /\ PlanFacts(c, held[c], p) /\ (p.hint \in DOMAIN held[c] => p.hint \in Ids)
      /\ (p.hint # Null \/ p.fun \in With("unload")) /\ MemoryAt(c) /\ HeldAt(c) /\ Busy(c)
  BY RemoteIs
<1>2. p.hint # Null
  BY <1>1 DEF PlanFacts, Given
<1>3. PICK f : f = [n \in Given(p) |-> Handle(c, n)]
  OBVIOUS
<1>4. PICK g : g = Merged(p.ids, f)
  OBVIOUS
<1>5. ArgOf(c, p) = g
  BY <1>3, <1>4 DEF ArgOf, @@
<1>6. CASE pos \in DOMAIN p.ids
  <2>1. g[pos] = p.ids[pos]
    BY <1>4, <1>6, MergedValues
  <2>2. p.ids[pos] \in ObjectsOf(held[c]) \union {p.hint, Platform, Device}
    BY <1>1, <1>2, <1>6 DEF PlanFacts
  <2>3. \A v \in ObjectsOf(held[c]) : v \in DOMAIN held[c] /\ v \in Ids
    BY <1>1 DEF ObjectsOf, HeldAt
  <2>4. p.hint \in DOMAIN held[c] \union {Platform}
    BY <1>1, <1>2 DEF PlanFacts
  <2> QED BY <1>1, <1>5, <2>1, <2>2, <2>3, <2>4 DEF Nameable
<1>7. CASE pos \notin DOMAIN p.ids
  <2>1. pos \in Given(p) /\ DOMAIN f = Given(p) /\ f[pos] = Handle(c, pos)
    BY <1>3, <1>7
  <2>2. g[pos] = f[pos]
    BY <1>4, <1>7, <2>1, MergedValues
  <2>3. Handle(c, pos) \in DOMAIN memory
    BY <1>1, <1>2, <2>1 DEF MemoryAt, Handles
  <2> QED BY <1>5, <2>1, <2>2, <2>3 DEF Nameable
<1> QED BY <1>6, <1>7

\* what is in a list or in memory
LEMMA ItemIs ==
  ASSUME IInv, failed = "none", NEW c \in Consumers, call[c].at = "remote", NEW p, p = call[c].plan,
         NEW n \in Given(p), NEW v \in Range(DataOf(p, n))
  PROVE  v \in ItemsAt(p.in, n) /\ v \in Nameable(c) \union Reals
<1>1. PlanFacts(c, held[c], p) /\ TypeOK /\ MemoryAt(c) /\ Busy(c) /\ (p.hint # Null \/ p.fun \in With("unload"))
  BY RemoteIs
<1>2. p.hint # Null
  BY <1>1 DEF PlanFacts, Given
<1>3. n \in Positions(p.in) /\ n \in Nat
  BY <1>1 DEF PlanFacts, Given, Positions
<1>4. PICK i \in DOMAIN p.in : p.in[i].pos = n /\ DataOf(p, n) = p.in[i].data
  BY <1>3, DataIs
<1>5. v \in ItemsAt(p.in, n)
  BY <1>4 DEF ItemsAt
<1>6. v \in DOMAIN held[c] \union {Platform, Device} \union Handles(c, p)
  BY <1>1, <1>3, <1>5 DEF PlanFacts
<1>7. Handles(c, p) \subseteq DOMAIN memory
  BY <1>1, <1>2 DEF MemoryAt
<1>8. DOMAIN held[c] \subseteq Ids \union Reals
  BY <1>1 DEF TypeOK
<1> QED BY <1>5, <1>6, <1>7, <1>8 DEF Nameable

\* the vendor gets nothing that it cannot use, with the exceptions
LEMMA Crosses ==
  ASSUME IInv, failed = "none", NEW c \in Consumers, call[c].at = "remote", NEW p, p = call[c].plan,
         ItemsOf(p, ListsOf(p.fun)) \subseteq DOMAIN idmap, p.fun \notin Listed, NEW v \in Passed(c, p)
  PROVE  Usable(v)
<1>1. /\ PlanFacts(c, held[c], p) /\ (p.hint # Null \/ p.fun \in With("unload"))
      /\ MapInv /\ HeldAt(c)
  BY RemoteIs
<1>2. CASE p.hint = Null
  <2>1. DOMAIN p.ids = {} /\ Given(p) = {}
    BY <1>1, <1>2 DEF PlanFacts, Given
  <2> QED BY <2>1 DEF Passed, ItemsOf
<1>3. CASE p.hint # Null
  <2>1. Covers(p)
    BY <1>1, <1>3 DEF PlanFacts
  <2>2. PICK translated : translated = ListsOf(p.fun) \union GuessedOf(p.fun)
    OBVIOUS
  <2>3. \/ \E pos \in (DOMAIN p.ids \union Given(p)) \intersect (1 .. Argc(p.fun)) :
             v = IF pos \in Masked(p) THEN Translated(ArgOf(c, p)[pos]) ELSE ArgOf(c, p)[pos]
        \/ \E w \in ItemsOf(p, translated) : v = Translated(w)
        \/ v \in ItemsOf(p, (1 .. Argc(p.fun)) \ translated)
    BY <2>2 DEF Passed
  <2>4. ASSUME NEW pos \in (DOMAIN p.ids \union Given(p)) \intersect (1 .. Argc(p.fun)),
               v = IF pos \in Masked(p) THEN Translated(ArgOf(c, p)[pos]) ELSE ArgOf(c, p)[pos]
        PROVE  Usable(v)
    <3>1. pos \in Masked(p)
      BY <2>1, <2>4 DEF Masked, Covers, Given, Positions
    <3>2. PICK w : w = ArgOf(c, p)[pos]
      OBVIOUS
    <3>3. w \in Nameable(c)
      BY <2>4, <3>2, ArgumentIs
    <3> QED BY <2>4, <3>1, <3>2, <3>3, UsableIs DEF Translated
  <2>5. ASSUME NEW w \in ItemsOf(p, translated), v = Translated(w) PROVE Usable(v)
    <3>1. PICK n \in translated \intersect Given(p) : w \in Range(DataOf(p, n))
      BY <2>5 DEF ItemsOf
    <3>2. w \in ItemsAt(p.in, n) /\ w \in Nameable(c) \union Reals
      BY <3>1, ItemIs
    <3>3. CASE n \in ListsOf(p.fun)
      <4>1. w \in DOMAIN idmap
        BY <3>1, <3>3 DEF ItemsOf
      <4>2. w \notin Reals
        BY <1>1, <4>1, CallsAssumption DEF MapInv
      <4> QED BY <2>5, <3>2, <4>2, UsableIs DEF Translated
    <3>4. CASE n \in GuessedOf(p.fun)
      <4>1. p.fun = "clSetKernelArg" /\ n = 4
        BY <3>4 DEF GuessedOf
      <4>2. w \in ObjectsOf(held[c])
        BY <1>1, <3>2, <4>1 DEF PlanFacts
      <4>3. w \in DOMAIN held[c] /\ w \in Ids
        BY <1>1, <4>2 DEF ObjectsOf, HeldAt
      <4>4. w \in Nameable(c)
        BY <4>3 DEF Nameable
      <4> QED BY <2>5, <4>4, UsableIs DEF Translated
    <3> QED BY <2>2, <3>1, <3>3, <3>4
  <2>6. ASSUME v \in ItemsOf(p, (1 .. Argc(p.fun)) \ translated) PROVE FALSE
    <3>1. PICK n \in ((1 .. Argc(p.fun)) \ translated) \intersect Given(p) : v \in Range(DataOf(p, n))
      BY <2>6 DEF ItemsOf
    <3>2. v \in ItemsAt(p.in, n)
      BY <3>1, ItemIs
    <3>3. n \in (DOMAIN p.ids \union Positions(p.in)) \intersect (1 .. Argc(p.fun))
      BY <3>1 DEF Given, Positions
    <3> QED BY <2>1, <2>2, <3>1, <3>2, <3>3 DEF Covers
  <2> QED BY <2>3, <2>4, <2>5, <2>6
<1> QED BY <1>2, <1>3

\* the vendor has answered: what all answers have in common
LEMMA ReturnsIs ==
  ASSUME IInv, failed = "none", NEW c \in Consumers, call[c].at = "remote", NEW p, p = call[c].plan,
         NEW result, Returns(c, result)
  PROVE  /\ call'[c] = [at |-> "post", plan |-> p, ret |-> result] /\ DOMAIN call' = Consumers
         /\ \A d \in Consumers \ {c} : call'[d] = call[d]
         /\ call'[c].at = "post" /\ call'[c].plan = p /\ call'[c].ret = result
         /\ objects' = objects /\ allocs' = allocs /\ idmap' = idmap /\ held' = held /\ failed' = "none"
<1>1. call[c] = [at |-> "remote", plan |-> p, ret |-> Null] /\ DOMAIN call = Consumers
  BY RemoteIs DEF Domains
<1>2. call' = [call EXCEPT ![c] = [call[c] EXCEPT !.at = "post", !.ret = result]]
  BY DEF Returns
<1>3. [call[c] EXCEPT !.at = "post", !.ret = result] = [at |-> "post", plan |-> p, ret |-> result]
  <2>1. PICK s : s = [call[c] EXCEPT !.at = "post", !.ret = result]
    OBVIOUS
  <2>2. DOMAIN s = {"at", "plan", "ret"} /\ s.at = "post" /\ s.plan = p /\ s.ret = result
    BY <1>1, <2>1
  <2> QED BY <1>1, <2>1, <2>2
<1> QED BY <1>1, <1>2, <1>3 DEF Returns

\* the other consumers do not notice
LEMMA ReturnsToOne ==
  ASSUME IInv, failed = "none", NEW c \in Consumers, call[c].at = "remote",
         NEW result, Returns(c, result), DOMAIN memory' = DOMAIN memory,
         \A x \in DOMAIN memory : (\A n : x # Handle(c, n)) => memory'[x] = memory[x],
         NEW d \in Consumers \ {c}
  PROVE  CallAt(d)' /\ EventAt(d)' /\ MemoryAt(d)' /\ HeldAt(d)' /\ Claimed(d)' = Claimed(d)
<1>1. Running /\ Domains
  BY RemoteIs
<1>2. /\ \A e \in Consumers \ {c} : call'[e] = call[e]
      /\ objects' = objects /\ allocs' = allocs /\ idmap' = idmap /\ held' = held
  BY ReturnsIs
<1> QED BY <1>1, <1>2, OthersUntouched

\* the rest of the invariant after an answer of the vendor
LEMMA ReturnsKeeps ==
  ASSUME IInv, failed = "none", NEW c \in Consumers, call[c].at = "remote", NEW p, p = call[c].plan,
         ItemsOf(p, ListsOf(p.fun)) \subseteq DOMAIN idmap,
         NEW result, Returns(c, result), result # Null => MakesObject(p) /\ result \in Reals,
         DOMAIN memory' = DOMAIN memory,
         \A x \in DOMAIN memory : (\A n : x # Handle(c, n)) => memory'[x] = memory[x],
         WantsEvent(p) => memory'[Handle(c, Argc(p.fun))] = IF result = Null THEN <<>> ELSE <<result>>,
         vendor' \in PartialFunctions(Reals, [refs : 1 .. MaxRefs]), VendorInv'
  PROVE  IInv'
<1>1. /\ TypeOK /\ Domains /\ Running /\ MapInv /\ VendorInv /\ CrossingsListed
      /\ CallAt(c) /\ EventAt(c) /\ MemoryAt(c) /\ HeldAt(c) /\ Busy(c)
      /\ PlanFacts(c, held[c], p) /\ (p.hint \in DOMAIN held[c] => p.hint \in Ids)
  BY RemoteIs
<1>2. /\ call'[c] = [at |-> "post", plan |-> p, ret |-> result] /\ DOMAIN call' = Consumers
      /\ \A d \in Consumers \ {c} : call'[d] = call[d]
      /\ call'[c].at = "post" /\ call'[c].plan = p /\ call'[c].ret = result
      /\ objects' = objects /\ allocs' = allocs /\ idmap' = idmap /\ held' = held /\ failed' = "none"
  BY ReturnsIs
<1>3. TypeOK'
  <2>1. \A d \in Consumers : call'[d].at \in {"idle", "called", "remote", "post", "end", "gone"}
    BY <1>1, <1>2 DEF TypeOK
  <2> QED BY <1>1, <1>2, <2>1 DEF TypeOK
<1>4. CrossingsListed'
  <2>1. foreign' = IF \A v \in Passed(c, p) : Usable(v) THEN {} ELSE {p.fun}
    BY DEF Returns
  <2>2. p.fun \notin Listed => \A v \in Passed(c, p) : Usable(v)
    BY Crosses
  <2> QED BY <2>1, <2>2 DEF CrossingsListed, Listed
<1>5. Domains' /\ MapInv'
  BY <1>1, <1>2 DEF Domains, MapInv
<1>6. CallAt(c)'
  <2>1. p.fun \in With("retain") => held[c][p.hint].refs < MaxRefs
    BY <1>1 DEF CallAt
  <2> QED BY <1>1, <1>2, <2>1 DEF CallAt
<1>7. EventAt(c)'
  BY <1>2 DEF EventAt
<1>8. MemoryAt(c)'
  BY <1>1, <1>2 DEF MemoryAt, Busy, InProgress
<1>9. HeldAt(c)'
  <2>1. New(c) = {} /\ New(c)' = {}
    BY <1>2 DEF New
  <2>2. \A v : Executed(c, v)' <=> Executed(c, v)
    BY <1>2 DEF Executed
  <2>3. \A v : Leaves(c, v)' <=> Leaves(c, v)
    BY <1>2, <2>2 DEF Leaves
  <2>4. ASSUME NEW v \in DOMAIN held[c]
        PROVE  /\ v \in Ids => v \in DOMAIN idmap
               /\ v \in Ids /\ v \in DOMAIN objects => objects[v].consumer = c
               /\ v \in Ids /\ v \notin DOMAIN objects => Leaves(c, v)' /\ held[c][v].refs = 1
               /\ ~held[c][v].event => v \in Ids
    BY <1>1, <2>3 DEF HeldAt
  <2>5. ASSUME NEW id \in DOMAIN objects, objects[id].consumer = c
        PROVE  /\ id \in DOMAIN held[c]
               /\ IF Executed(c, id)' THEN Counted(p.fun, objects[id].refs, held[c][id].refs)
                  ELSE objects[id].refs = held[c][id].refs
    BY <1>1, <2>1, <2>2, <2>5 DEF HeldAt
  <2> QED BY <1>2, <2>1, <2>4, <2>5 DEF HeldAt
<1>10. \A d \in Consumers \ {c} : CallAt(d)' /\ EventAt(d)' /\ MemoryAt(d)' /\ HeldAt(d)'
  BY ReturnsToOne
<1> QED BY <1>2, <1>3, <1>4, <1>5, <1>6, <1>7, <1>8, <1>9, <1>10, Continues

\* the invariant of the vendor's objects, as it is after an answer
LEMMA ReturnsVendor ==
  ASSUME IInv, failed = "none", NEW c \in Consumers, call[c].at = "remote",
         NEW result, Returns(c, result), DOMAIN memory' = DOMAIN memory,
         \A x \in DOMAIN memory : (\A n : x # Handle(c, n)) => memory'[x] = memory[x],
         \A id \in DOMAIN objects :
           IF call[c].plan.hint = id
           THEN idmap[id] \in DOMAIN vendor' /\ objects[id].refs = vendor'[idmap[id]].refs
           ELSE idmap[id] \in DOMAIN vendor' /\ vendor'[idmap[id]] = vendor[idmap[id]],
         \A d \in Consumers \ {c} : Claimed(d) # Null =>
           Claimed(d) \in DOMAIN vendor' /\ vendor'[Claimed(d)] = vendor[Claimed(d)],
         result # Null => /\ result \notin DOMAIN vendor
                          /\ result \in DOMAIN vendor' /\ vendor'[result].refs = 1
  PROVE  VendorInv'
<1>1. VendorInv /\ TypeOK /\ Running
  BY RemoteIs
<1>2. /\ \A d \in Consumers \ {c} : call'[d] = call[d]
      /\ call'[c].at = "post" /\ call'[c].ret = result /\ objects' = objects /\ idmap' = idmap
  BY ReturnsIs
<1>3. Claimed(c)' = result /\ \A d \in Consumers \ {c} : Claimed(d)' = Claimed(d)
  <2>1. Claimed(c)' = result
    BY <1>2 DEF Claimed
  <2> QED BY <2>1, ReturnsToOne
<1>4. Null \notin DOMAIN vendor
  BY <1>1, CallsAssumption, PartialDomain DEF TypeOK
<1>5. ASSUME NEW id \in DOMAIN objects
      PROVE  LET d == objects[id].consumer IN
             /\ id \in DOMAIN idmap /\ idmap[id] \in DOMAIN vendor'
             /\ IF call'[d].at = "remote" /\ call'[d].plan.hint = id
                THEN Counted(call'[d].plan.fun, objects[id].refs, vendor'[idmap[id]].refs)
                ELSE objects[id].refs = vendor'[idmap[id]].refs
  <2>1. PICK d : d = objects[id].consumer
    OBVIOUS
  <2>2. d \in Consumers
    <3>1. objects[id] \in [consumer : Consumers, refs : 1 .. MaxRefs]
      BY <1>1, PartialValues DEF TypeOK
    <3> QED BY <2>1, <3>1
  <2>3. /\ id \in DOMAIN idmap /\ idmap[id] \in DOMAIN vendor
        /\ IF call[d].at = "remote" /\ call[d].plan.hint = id
           THEN Counted(call[d].plan.fun, objects[id].refs, vendor[idmap[id]].refs)
           ELSE objects[id].refs = vendor[idmap[id]].refs
    BY <1>1, <2>1 DEF VendorInv
  <2>4. CASE call[c].plan.hint = id
    <3>1. Busy(c)
      BY RemoteIs
    <3>2. d = c
      BY <1>1, <2>1, <2>4, <3>1, HintIs
    <3> QED BY <1>2, <2>1, <2>3, <2>4, <3>2
  <2>5. CASE call[c].plan.hint # id
    BY <1>2, <2>1, <2>2, <2>3, <2>5
  <2> QED BY <2>4, <2>5
<1>6. ASSUME NEW id \in DOMAIN objects PROVE \A other \in DOMAIN objects \ {id} : idmap[other] # idmap[id]
  BY <1>1 DEF VendorInv
<1>7. ASSUME NEW id \in DOMAIN objects, NEW d \in Consumers PROVE idmap[id] # Claimed(d)'
  <2>1. idmap[id] \in DOMAIN vendor /\ idmap[id] # Claimed(d)
    BY <1>1 DEF VendorInv
  <2>2. idmap[id] # result
    BY <1>4, <2>1
  <2> QED BY <1>3, <2>1, <2>2
<1>8. ASSUME NEW d \in Consumers, Claimed(d)' # Null
      PROVE  /\ Claimed(d)' \in DOMAIN vendor' /\ vendor'[Claimed(d)'].refs = 1
             /\ \A e \in Consumers \ {d} : Claimed(e)' # Claimed(d)'
  <2>1. \A e \in Consumers : Claimed(e) # Null =>
          /\ Claimed(e) \in DOMAIN vendor /\ vendor[Claimed(e)].refs = 1
          /\ \A o \in Consumers \ {e} : Claimed(o) # Claimed(e)
    BY <1>1 DEF VendorInv
  <2>2. CASE d = c
    BY <1>3, <1>8, <2>1, <2>2
  <2>3. CASE d # c
    BY <1>3, <1>8, <2>1, <2>3
  <2> QED BY <2>2, <2>3
<1> QED BY <1>2, <1>5, <1>6, <1>7, <1>8 DEF VendorInv

\* the vendor refuses to create or to enqueue
LEMMA VendorFailsKeeps ==
  ASSUME IInv, failed = "none", NEW c \in Consumers, call[c].at = "remote", NEW p, p = call[c].plan,
         ItemsOf(p, ListsOf(p.fun)) \subseteq DOMAIN idmap, VendorFails(c, p)
  PROVE  IInv'
<1>1. vendor' = vendor /\ memory' = memory /\ Returns(c, Null) /\ MakesObject(p)
  BY DEF VendorFails
<1>2. TypeOK /\ VendorInv /\ EventAt(c) /\ Busy(c)
  BY RemoteIs
<1>3. WantsEvent(p) => memory[Handle(c, Argc(p.fun))] = <<>>
  BY <1>2 DEF EventAt
<1>4. \A d \in Consumers : Claimed(d) # Null => Claimed(d) \in DOMAIN vendor
  BY <1>2 DEF VendorInv
<1>5. p.fun \notin Counting
  BY <1>1, Disjoint DEF MakesObject, WantsEvent
<1>6. ASSUME NEW id \in DOMAIN objects
      PROVE  /\ idmap[id] \in DOMAIN vendor
             /\ p.hint = id => objects[id].refs = vendor[idmap[id]].refs
  <2>1. p.hint = id => objects[id].consumer = c
    BY <1>2, RemoteIs, HintIs
  <2>2. p.hint = id => Counted(p.fun, objects[id].refs, vendor[idmap[id]].refs)
    BY <1>2, <2>1 DEF VendorInv
  <2>3. idmap[id] \in DOMAIN vendor
    BY <1>2 DEF VendorInv
  <2> QED BY <1>5, <2>2, <2>3 DEF Counted, Counting
<1>7. VendorInv'
  BY <1>1, <1>4, <1>6, ReturnsVendor
<1>8. vendor' \in PartialFunctions(Reals, [refs : 1 .. MaxRefs])
  BY <1>1, <1>2 DEF TypeOK
<1> QED BY <1>1, <1>3, <1>7, <1>8, ReturnsKeeps

\* the vendor makes an object, which belongs to the call for now
LEMMA VendorMakesKeeps ==
  ASSUME IInv, failed = "none", NEW c \in Consumers, call[c].at = "remote", NEW p, p = call[c].plan,
         ItemsOf(p, ListsOf(p.fun)) \subseteq DOMAIN idmap, VendorMakes(c, p)
  PROVE  IInv'
<1>1. PICK real \in Reals \ DOMAIN vendor :
        /\ vendor' = vendor @@ real :> [refs |-> 1]
        /\ memory' = IF WantsEvent(p) THEN [memory EXCEPT ![Handle(c, Argc(p.fun))] = <<real>>] ELSE memory
        /\ Returns(c, real) /\ MakesObject(p)
  BY DEF VendorMakes
<1>2. TypeOK /\ VendorInv /\ CallAt(c) /\ MemoryAt(c) /\ Busy(c)
  BY RemoteIs
<1>3. PICK g : g = vendor'
  OBVIOUS
<1>4. PICK one : one = [refs |-> 1]
  OBVIOUS
<1>5. g = Merged(vendor, Entry(real, one))
  BY <1>1, <1>3, <1>4 DEF @@, :>
<1>6. DOMAIN g = DOMAIN vendor \union {real}
  BY <1>5, EntryDomain
<1>7. g[real] = one /\ \A x \in DOMAIN vendor : g[x] = vendor[x]
  BY <1>1, <1>5, EntryValues
<1>8. g \in PartialFunctions(Reals, [refs : 1 .. MaxRefs])
  <2>1. one \in [refs : 1 .. MaxRefs]
    BY <1>4, CallsAssumption
  <2>2. vendor \in PartialFunctions(Reals, [refs : 1 .. MaxRefs])
    BY <1>2 DEF TypeOK
  <2> QED BY <1>1, <1>5, <2>1, <2>2, PartialMore
<1>9. DOMAIN memory' = DOMAIN memory
  BY <1>1
<1>10. \A x \in DOMAIN memory : (\A n : x # Handle(c, n)) => memory'[x] = memory[x]
  BY <1>1
<1>11. WantsEvent(p) => memory'[Handle(c, Argc(p.fun))] = <<real>>
  <2>1. WantsEvent(p) => Handle(c, Argc(p.fun)) \in DOMAIN memory
    BY <1>2, EventThere DEF Argument
  <2> QED BY <1>1, <2>1
<1>12. \A d \in Consumers : Claimed(d) # Null => Claimed(d) \in DOMAIN vendor
  BY <1>2 DEF VendorInv
<1>13. p.fun \notin Counting
  BY <1>1, Disjoint DEF MakesObject, WantsEvent
<1>14. ASSUME NEW id \in DOMAIN objects
       PROVE  /\ idmap[id] \in DOMAIN vendor
              /\ p.hint = id => objects[id].refs = vendor[idmap[id]].refs
  <2>1. p.hint = id => objects[id].consumer = c
    BY <1>2, RemoteIs, HintIs
  <2>2. p.hint = id => Counted(p.fun, objects[id].refs, vendor[idmap[id]].refs)
    BY <1>2, <2>1 DEF VendorInv
  <2>3. idmap[id] \in DOMAIN vendor
    BY <1>2 DEF VendorInv
  <2> QED BY <1>13, <2>2, <2>3 DEF Counted, Counting
<1>15. \A id \in DOMAIN objects :
         IF p.hint = id THEN idmap[id] \in DOMAIN vendor' /\ objects[id].refs = vendor'[idmap[id]].refs
         ELSE idmap[id] \in DOMAIN vendor' /\ vendor'[idmap[id]] = vendor[idmap[id]]
  BY <1>3, <1>6, <1>7, <1>14
<1>16. \A d \in Consumers \ {c} : Claimed(d) # Null =>
         Claimed(d) \in DOMAIN vendor' /\ vendor'[Claimed(d)] = vendor[Claimed(d)]
  BY <1>3, <1>6, <1>7, <1>12
<1>17. real \in DOMAIN vendor' /\ vendor'[real].refs = 1 /\ real # Null
  BY <1>3, <1>4, <1>6, <1>7, CallsAssumption
<1>18. VendorInv'
  BY <1>1, <1>9, <1>10, <1>15, <1>16, <1>17, ReturnsVendor
<1>19. WantsEvent(p) => memory'[Handle(c, Argc(p.fun))] = IF real = Null THEN <<>> ELSE <<real>>
  BY <1>11, <1>17
<1>20. vendor' \in PartialFunctions(Reals, [refs : 1 .. MaxRefs])
  BY <1>3, <1>8
<1> QED BY <1>1, <1>9, <1>10, <1>18, <1>19, <1>20, ReturnsKeeps

\* the vendor counts as the agent has done, or answers a query
LEMMA VendorDoesKeeps ==
  ASSUME IInv, failed = "none", NEW c \in Consumers, call[c].at = "remote", NEW p, p = call[c].plan,
         ItemsOf(p, ListsOf(p.fun)) \subseteq DOMAIN idmap, VendorDoes(c, p)
  PROVE  IInv'
<1>1. ~MakesObject(p) /\ Returns(c, Null)
  BY DEF VendorDoes
<1>2. /\ TypeOK /\ VendorInv /\ Running /\ CallAt(c) /\ HeldAt(c) /\ Busy(c)
      /\ PlanFacts(c, held[c], p) /\ (p.hint \in DOMAIN held[c] => p.hint \in Ids)
  BY RemoteIs
<1>3. PICK real : real = idmap[p.hint]
  OBVIOUS
<1>4. CountsIn(vendor, vendor', real, p.fun)
  <2>1. vendor' = CASE p.fun \in With("retain") -> [vendor EXCEPT ![real].refs = @ + 1]
                    [] p.fun \in With("release") -> Released(vendor, real)
                    [] OTHER -> vendor
    BY <1>3 DEF VendorDoes
  <2>2. CASE p.fun \in With("retain")
    BY <2>1, <2>2, Disjoint DEF CountsIn
  <2>3. CASE p.fun \in With("release")
    BY <2>1, <2>3, Disjoint DEF CountsIn
  <2>4. CASE p.fun \notin Counting
    BY <2>1, <2>4 DEF CountsIn, Counting
  <2> QED BY <2>2, <2>3, <2>4 DEF Counting
<1>5. /\ DOMAIN memory' = DOMAIN memory
      /\ \A x \in DOMAIN memory : (\A n : x # Handle(c, n)) => memory'[x] = memory[x]
  <2>1. CASE IsAnswered(p)
    <3>1. PICK a \in Answers(c, p) : memory' = [memory EXCEPT ![Handle(c, 4)] = a]
      BY <2>1 DEF VendorDoes
    <3> QED BY <3>1
  <2>2. CASE ~IsAnswered(p)
    BY <2>2 DEF VendorDoes
  <2> QED BY <2>1, <2>2
<1>6. ASSUME NEW id \in DOMAIN objects
      PROVE  /\ idmap[id] \in DOMAIN vendor
             /\ p.hint = id => Counted(p.fun, objects[id].refs, vendor[idmap[id]].refs)
             /\ p.hint # id /\ p.fun \in Counting => idmap[id] # real
             /\ objects[id].refs \in 1 .. MaxRefs
  <2>1. p.hint = id => objects[id].consumer = c
    BY <1>2, HintIs
  <2>2. p.hint = id => Counted(p.fun, objects[id].refs, vendor[idmap[id]].refs)
    BY <1>2, <2>1 DEF VendorInv
  <2>3. idmap[id] \in DOMAIN vendor
    BY <1>2 DEF VendorInv
  <2>4. ASSUME p.hint # id, p.fun \in Counting PROVE idmap[id] # real
    <3>1. CASE p.hint \in DOMAIN objects
      BY <1>2, <1>3, <2>4, <3>1 DEF VendorInv
    <3>2. CASE p.hint \notin DOMAIN objects
      <4>1. p.hint \in DOMAIN held[c] /\ p.hint \in Ids
        BY <1>2, <2>4 DEF PlanFacts
      <4>2. Leaves(c, p.hint)
        BY <1>2, <3>2, <4>1 DEF HeldAt
      <4>3. Claimed(c) = real
        BY <1>3, <4>2 DEF Claimed
      <4> QED BY <1>2, <4>3 DEF VendorInv
    <3> QED BY <3>1, <3>2
  <2>5. objects[id].refs \in 1 .. MaxRefs
    <3>1. objects[id] \in [consumer : Consumers, refs : 1 .. MaxRefs]
      BY <1>2, PartialValues DEF TypeOK
    <3> QED BY <3>1
  <2> QED BY <2>2, <2>3, <2>4, <2>5
<1>7. ASSUME p.fun \in Counting
      PROVE  real \in DOMAIN vendor /\ (p.fun \in With("retain") => vendor[real].refs < MaxRefs)
  <2>1. p.hint \in DOMAIN held[c] /\ p.hint \in Ids
    BY <1>2, <1>7 DEF PlanFacts
  <2>2. real \in DOMAIN vendor
    BY <1>3, <2>1, IdIsVendor
  <2>3. ASSUME p.fun \in With("retain") PROVE vendor[real].refs < MaxRefs
    <3>1. p.hint \in DOMAIN objects
      <4>1. ~Leaves(c, p.hint)
        BY <2>3, Disjoint DEF Leaves
      <4> QED BY <1>2, <2>1, <4>1 DEF HeldAt
    <3>2. objects[p.hint].refs = vendor[real].refs + 1 /\ objects[p.hint].refs \in 1 .. MaxRefs
      BY <1>3, <1>6, <2>3, <3>1 DEF Counted
    <3>3. vendor[real].refs \in 1 .. MaxRefs
      <4>1. vendor[real] \in [refs : 1 .. MaxRefs]
        BY <1>2, <2>2, PartialValues DEF TypeOK
      <4> QED BY <4>1
    <3> QED BY <3>2, <3>3, CallsAssumption
  <2> QED BY <2>2, <2>3
<1>8. PICK T : T = [refs : 1 .. MaxRefs]
  OBVIOUS
<1>9. PICK g : g = vendor'
  OBVIOUS
<1>10. g \in PartialFunctions(Reals, T) /\ OneCounted(vendor, g, real, p.fun)
  <2>1. PICK fun : fun = p.fun
    OBVIOUS
  <2>2. vendor \in PartialFunctions(Reals, T) /\ Countable(T) /\ CountsIn(vendor, g, real, fun)
    BY <1>2, <1>4, <1>8, <1>9, <2>1, CountableRecords DEF TypeOK
  <2>3. /\ fun \in Counting => real \in DOMAIN vendor
        /\ fun \in With("retain") => vendor[real].refs < MaxRefs
    BY <1>7, <2>1 DEF Counting
  <2> QED BY <2>1, <2>2, <2>3, CountedTable
<1>11. p.fun \notin Counting => g = vendor
  BY <1>4, <1>9 DEF CountsIn, Counting
<1>12. ASSUME NEW x \in DOMAIN vendor, p.fun \in Counting => x # real
       PROVE  x \in DOMAIN g /\ g[x] = vendor[x]
  BY <1>10, <1>11, <1>12 DEF OneCounted
<1>13. ASSUME NEW id \in DOMAIN objects, p.hint = id
       PROVE  idmap[id] \in DOMAIN g /\ objects[id].refs = g[idmap[id]].refs
  <2>1. real \in DOMAIN vendor /\ Counted(p.fun, objects[id].refs, vendor[real].refs) /\ real = idmap[id]
        /\ objects[id].refs \in 1 .. MaxRefs
    BY <1>3, <1>6, <1>13
  <2>2. vendor[real].refs \in 1 .. MaxRefs
    <3>1. vendor[real] \in [refs : 1 .. MaxRefs]
      BY <1>2, <2>1, PartialValues DEF TypeOK
    <3> QED BY <3>1
  <2>3. real \in DOMAIN g
    <3>1. SUFFICES ASSUME real \notin DOMAIN g PROVE FALSE
      OBVIOUS
    <3>2. p.fun \in With("release") /\ vendor[real].refs = 1
      BY <1>10, <2>1, <3>1 DEF OneCounted
    <3>3. 1 = objects[id].refs + 1
      BY <2>1, <3>2, Disjoint DEF Counted
    <3> QED BY <2>1, <3>3, CallsAssumption
  <2>4. Counted(p.fun, g[real].refs, vendor[real].refs)
    BY <1>10, <2>3 DEF OneCounted
  <2>5. g[real].refs \in 1 .. MaxRefs
    <3>1. g[real] \in T
      BY <1>10, <2>3, PartialValues
    <3> QED BY <1>8, <3>1
  <2>6. objects[id].refs = g[real].refs
    BY <2>1, <2>2, <2>4, <2>5, CallsAssumption DEF Counted
  <2> QED BY <2>1, <2>3, <2>6
<1>14. ASSUME NEW d \in Consumers \ {c}, Claimed(d) # Null
       PROVE  Claimed(d) \in DOMAIN vendor /\ (p.fun \in Counting => Claimed(d) # real)
  <2>1. /\ Claimed(d) \in DOMAIN vendor
        /\ \A e \in Consumers \ {d} : Claimed(e) # Claimed(d)
    BY <1>2, <1>14 DEF VendorInv
  <2>2. ASSUME p.fun \in Counting PROVE Claimed(d) # real
    <3>1. CASE p.hint \in DOMAIN objects
      BY <1>2, <1>3, <3>1 DEF VendorInv
    <3>2. CASE p.hint \notin DOMAIN objects
      <4>1. p.hint \in DOMAIN held[c] /\ p.hint \in Ids
        BY <1>2, <2>2 DEF PlanFacts
      <4>2. Leaves(c, p.hint)
        BY <1>2, <3>2, <4>1 DEF HeldAt
      <4>3. Claimed(c) = real
        BY <1>3, <4>2 DEF Claimed
      <4> QED BY <2>1, <4>3
    <3> QED BY <3>1, <3>2
  <2> QED BY <2>1, <2>2
<1>15. \A id \in DOMAIN objects :
         IF p.hint = id THEN idmap[id] \in DOMAIN vendor' /\ objects[id].refs = vendor'[idmap[id]].refs
         ELSE idmap[id] \in DOMAIN vendor' /\ vendor'[idmap[id]] = vendor[idmap[id]]
  BY <1>6, <1>9, <1>12, <1>13
<1>16. \A d \in Consumers \ {c} : Claimed(d) # Null =>
         Claimed(d) \in DOMAIN vendor' /\ vendor'[Claimed(d)] = vendor[Claimed(d)]
  BY <1>9, <1>12, <1>14
<1>17. VendorInv'
  BY <1>1, <1>5, <1>15, <1>16, ReturnsVendor
<1>18. vendor' \in PartialFunctions(Reals, [refs : 1 .. MaxRefs]) /\ ~WantsEvent(p)
  BY <1>1, <1>8, <1>9, <1>10 DEF MakesObject
<1> QED BY <1>1, <1>5, <1>17, <1>18, ReturnsKeeps

\* the provider executes the function, or asserts
LEMMA RemoteKeeps == ASSUME IInv, NEW c \in Consumers, Remote(c) PROVE IInv'
<1>1. failed = "none" /\ call[c].at = "remote"
  BY DEF Remote, InCall
<1>2. PICK p : p = call[c].plan
  OBVIOUS
<1>3. ASSUME NEW pos \in Masked(p) PROVE ArgOf(c, p)[pos] \in DOMAIN idmap
  <2>1. pos \in DOMAIN p.ids \union Given(p)
    BY <1>3 DEF Masked
  <2>2. PICK v : v = ArgOf(c, p)[pos]
    OBVIOUS
  <2>3. v \in Nameable(c)
    BY <1>1, <1>2, <2>1, <2>2, ArgumentIs
  <2> QED BY <1>1, <2>2, <2>3, UsableIs
<1>4. CASE ~(ItemsOf(p, ListsOf(p.fun)) \subseteq DOMAIN idmap)
  <2>1. Fails("list") /\ call' = call
    BY <1>2, <1>3, <1>4 DEF Remote
  <2>2. PICK v \in ItemsOf(p, ListsOf(p.fun)) : v \notin DOMAIN idmap
    BY <1>4
  <2>3. v \in Nameable(c) \union Reals
    <3>1. PICK n \in Given(p) : v \in Range(DataOf(p, n))
      BY DEF ItemsOf
    <3> QED BY <1>1, <1>2, <3>1, ItemIs
  <2>4. v \in Reals
    BY <1>1, <2>2, <2>3, UsableIs
  <2>5. AssertionsExplained'
    <3>1. failed' = "list"
      BY <2>1 DEF Fails
    <3> QED BY <1>1, <1>2, <2>1, <2>2, <2>4, <3>1 DEF AssertionsExplained
  <2>6. DOMAIN call' = Consumers
    BY <2>1 DEF IInv, Domains
  <2> QED BY <2>1, <2>5, <2>6, Stops DEF Reasons
<1>5. CASE ItemsOf(p, ListsOf(p.fun)) \subseteq DOMAIN idmap
  <2>1. VendorFails(c, p) \/ VendorMakes(c, p) \/ VendorDoes(c, p)
    BY <1>2, <1>3, <1>5 DEF Remote
  <2> QED BY <1>1, <1>2, <1>5, <2>1, VendorFailsKeeps, VendorMakesKeeps, VendorDoesKeeps
<1> QED BY <1>4, <1>5

-----------------------------------------------------------------------------
(* The agent, after the provider *)

\* a new object gets an id on both sides
LEMMA MapsKeeps ==
  ASSUME IInv, failed = "none", NEW c \in Consumers, call[c].at = "post", NEW p, p = call[c].plan,
         NEW real, real = call[c].ret, real # Null,
         NEW id \in Ids \ DOMAIN objects, id \notin DOMAIN idmap, Maps(c, id, real),
         NEW r, call' = [call EXCEPT ![c] = [at |-> "end", plan |-> p, ret |-> r]],
         p.fun \in With("create") => r = id,
         WantsEvent(p) => p.fun # "clEnqueueMarker" /\ memory'[Handle(c, Argc(p.fun))] = <<id>>,
         DOMAIN memory' = DOMAIN memory,
         \A x \in DOMAIN memory : (\A n : x # Handle(c, n)) => memory'[x] = memory[x],
         allocs' = allocs, vendor' = vendor, held' = held, failed' = "none", foreign' = foreign
  PROVE  IInv'
<1>1. TypeOK /\ Domains /\ Running /\ MapInv /\ VendorInv /\ CrossingsListed
  BY DEF IInv
<1>2. CallAt(c) /\ EventAt(c) /\ MemoryAt(c) /\ HeldAt(c) /\ Busy(c)
  BY <1>1 DEF Running, Busy, InProgress
<1>3. /\ PlanFacts(c, held[c], p) /\ (p.hint \in DOMAIN held[c] => p.hint \in Ids)
      /\ (p.fun \in With("retain") => held[c][p.hint].refs < MaxRefs)
      /\ MakesObject(p) /\ real \in Reals
  BY <1>2 DEF CallAt
<1>4. /\ DOMAIN call' = Consumers /\ call'[c] = [at |-> "end", plan |-> p, ret |-> r]
      /\ \A d \in Consumers \ {c} : call'[d] = call[d]
  BY <1>1 DEF Domains
<1>5. call'[c].at = "end" /\ call'[c].plan = p /\ call'[c].ret = r
  BY <1>4
<1>6. PICK o : o = objects'
  OBVIOUS
<1>7. PICK m : m = idmap'
  OBVIOUS
<1>8. PICK one : one = [consumer |-> c, refs |-> 1]
  OBVIOUS
<1>9. o = Merged(objects, Entry(id, one)) /\ m = Merged(idmap, Entry(id, real))
  BY <1>6, <1>7, <1>8 DEF Maps, @@, :>
<1>10. DOMAIN o = DOMAIN objects \union {id} /\ DOMAIN m = DOMAIN idmap \union {id}
  <2>1. DOMAIN o = DOMAIN objects \union {id}
    <3>1. PICK f : f = objects
      OBVIOUS
    <3>2. o = Merged(f, Entry(id, one))
      BY <1>9, <3>1
    <3>3. \A x : x \in DOMAIN o <=> x \in DOMAIN f \/ x = id
      BY <3>2, EntryMembers
    <3> QED BY <3>1, <3>3
  <2>2. DOMAIN m = DOMAIN idmap \union {id}
    <3>1. PICK f : f = idmap
      OBVIOUS
    <3>2. m = Merged(f, Entry(id, real))
      BY <1>9, <3>1
    <3>3. \A x : x \in DOMAIN m <=> x \in DOMAIN f \/ x = id
      BY <3>2, EntryMembers
    <3> QED BY <3>1, <3>3
  <2> QED BY <2>1, <2>2
<1>11. o[id] = one /\ \A x \in DOMAIN objects : o[x] = objects[x]
  BY <1>9, EntryValues
<1>12. m[id] = real /\ \A x \in DOMAIN idmap : m[x] = idmap[x]
  BY <1>9, EntryValues
<1>13. o[id].consumer = c /\ o[id].refs = 1
  BY <1>8, <1>11
<1>14. \A d \in Consumers : id \notin DOMAIN held[d]
  BY <1>1 DEF Running, HeldAt
<1>15. TypeOK'
  <2>1. \A d \in Consumers : call'[d].at \in {"idle", "called", "remote", "post", "end", "gone"}
    BY <1>1, <1>4, <1>5 DEF TypeOK
  <2>2. PICK T : T = [consumer : Consumers, refs : 1 .. MaxRefs]
    OBVIOUS
  <2>3. one \in T
    BY <1>8, <2>2, CallsAssumption
  <2>4. objects \in PartialFunctions(Ids, T)
    BY <1>1, <2>2 DEF TypeOK
  <2>5. o \in PartialFunctions(Ids, T)
    BY <1>9, <2>3, <2>4, PartialMore
  <2>6. objects' \in PartialFunctions(Ids, [consumer : Consumers, refs : 1 .. MaxRefs])
    BY <1>6, <2>2, <2>5
  <2>7. DOMAIN memory' \subseteq DOMAIN idmap'
    BY <1>1, <1>7, <1>10 DEF TypeOK
  <2> QED BY <1>1, <2>1, <2>6, <2>7 DEF TypeOK
<1>16. CrossingsListed' /\ Domains'
  BY <1>1, <1>4 DEF CrossingsListed, Domains
<1>17. MapInv'
  <2>1. DOMAIN m \subseteq Ids \union {Platform, Device} \union DOMAIN memory
    BY <1>1, <1>10 DEF MapInv
  <2>2. \A x \in DOMAIN memory \union {Platform, Device} : x \in DOMAIN m /\ m[x] = Ptr(x)
    BY <1>1, <1>10, <1>12 DEF MapInv
  <2>3. \A x \in DOMAIN m \intersect Ids : m[x] \in Reals
    BY <1>1, <1>3, <1>10, <1>12 DEF MapInv
  <2> QED BY <1>1, <1>7, <2>1, <2>2, <2>3 DEF MapInv
<1>18. CallAt(c)'
  BY <1>3, <1>4, <1>5 DEF CallAt
<1>19. EventAt(c)'
  BY <1>5 DEF EventAt
<1>20. MemoryAt(c)'
  BY <1>2, <1>5 DEF MemoryAt, Busy, InProgress
<1>21. New(c)' = {id}
  <2>1. CASE p.fun \in With("create")
    BY <1>5, <2>1 DEF New
  <2>2. CASE p.fun \notin With("create")
    <3>1. WantsEvent(p)
      BY <1>3, <2>2 DEF MakesObject
    <3>2. EventGot(c, p)' = {id}
      BY <3>1 DEF EventGot, Range
    <3> QED BY <1>5, <2>2, <3>2 DEF New
  <2> QED BY <2>1, <2>2
<1>22. HeldAt(c)'
  <2>1. New(c) = {} /\ \A v : ~Leaves(c, v)
    BY <1>3, Disjoint DEF New, Leaves, MakesObject, WantsEvent, Counting
  <2>2. \A v : Executed(c, v)' <=> Executed(c, v)
    BY <1>5 DEF Executed
  <2>3. ASSUME NEW v \in DOMAIN held[c]
        PROVE  /\ v \in Ids => v \in DOMAIN m /\ v \in DOMAIN o /\ o[v].consumer = c
               /\ ~held[c][v].event => v \in Ids
    BY <1>2, <1>10, <1>11, <2>1 DEF HeldAt
  <2>4. ASSUME NEW x \in DOMAIN o, o[x].consumer = c, x # id
        PROVE  /\ x \in DOMAIN held[c]
               /\ IF Executed(c, x) THEN Counted(p.fun, o[x].refs, held[c][x].refs)
                  ELSE o[x].refs = held[c][x].refs
    <3>1. x \in DOMAIN objects /\ o[x] = objects[x]
      BY <1>10, <1>11, <2>4
    <3> QED BY <1>2, <2>1, <2>4, <3>1 DEF HeldAt
  <2> QED BY <1>5, <1>6, <1>7, <1>10, <1>13, <1>14, <1>21, <2>2, <2>3, <2>4 DEF HeldAt
<1>23. ASSUME NEW d \in Consumers \ {c}
       PROVE  CallAt(d)' /\ EventAt(d)' /\ MemoryAt(d)' /\ HeldAt(d)' /\ Claimed(d)' = Claimed(d)
  <2>1. CallAt(d) /\ EventAt(d) /\ MemoryAt(d) /\ HeldAt(d) /\ call'[d] = call[d]
    BY <1>1, <1>4 DEF Running
  <2>2. \A n : Handle(d, n) \in DOMAIN memory => memory'[Handle(d, n)] = memory[Handle(d, n)]
    BY HandleSame
  <2>3. \A v \in DOMAIN held[d] : v \in DOMAIN objects' <=> v \in DOMAIN objects
    BY <1>6, <1>10, <1>14
  <2>4. \A x \in DOMAIN objects : x \in DOMAIN objects' /\ objects'[x] = objects[x]
    BY <1>6, <1>10, <1>11
  <2>5. \A x \in DOMAIN objects' : objects'[x].consumer = d => x \in DOMAIN objects /\ objects'[x] = objects[x]
    BY <1>6, <1>10, <1>11, <1>13
  <2>6. \A x \in DOMAIN idmap : x \in DOMAIN idmap' /\ idmap'[x] = idmap[x]
    BY <1>7, <1>10, <1>12
  <2>7. CallAt(d)' /\ EventAt(d)' /\ MemoryAt(d)' /\ HeldAt(d)'
    BY <2>1, <2>2, <2>3, <2>4, <2>5, <2>6, OthersStay
  <2>8. Claimed(d)' = Claimed(d)
    BY <2>1, <2>3, <2>6, ClaimStays
  <2> QED BY <2>7, <2>8
<1>24. VendorInv'
  <2>1. Claimed(c) = real /\ Claimed(c)' = Null
    BY <1>5 DEF Claimed
  <2>2. real \in DOMAIN vendor /\ vendor[real].refs = 1 /\ \A d \in Consumers \ {c} : Claimed(d) # real
    BY <1>1, <2>1 DEF VendorInv
  <2>3. \A x \in DOMAIN objects : /\ x \in DOMAIN idmap /\ idmap[x] \in DOMAIN vendor
                                  /\ idmap[x] # real /\ \A d \in Consumers : idmap[x] # Claimed(d)
    BY <1>1, <2>1 DEF VendorInv
  <2>4. ASSUME NEW x \in DOMAIN o
        PROVE  LET d == o[x].consumer IN
               /\ x \in DOMAIN m /\ m[x] \in DOMAIN vendor
               /\ IF call'[d].at = "remote" /\ call'[d].plan.hint = x
                  THEN Counted(call'[d].plan.fun, o[x].refs, vendor[m[x]].refs)
                  ELSE o[x].refs = vendor[m[x]].refs
    <3>1. CASE x = id
      BY <1>5, <1>10, <1>12, <1>13, <2>2, <3>1
    <3>2. CASE x # id
      <4>1. x \in DOMAIN objects /\ o[x] = objects[x] /\ m[x] = idmap[x] /\ x \in DOMAIN m
        BY <1>10, <1>11, <1>12, <2>3, <3>2
      <4>2. PICK d : d = objects[x].consumer
        OBVIOUS
      <4>3. d \in Consumers
        <5>1. objects[x] \in [consumer : Consumers, refs : 1 .. MaxRefs]
          BY <1>1, <4>1, PartialValues DEF TypeOK
        <5> QED BY <4>2, <5>1
      <4>4. /\ idmap[x] \in DOMAIN vendor
            /\ IF call[d].at = "remote" /\ call[d].plan.hint = x
               THEN Counted(call[d].plan.fun, objects[x].refs, vendor[idmap[x]].refs)
               ELSE objects[x].refs = vendor[idmap[x]].refs
        BY <1>1, <4>1, <4>2 DEF VendorInv
      <4>5. CASE d = c
        BY <1>5, <4>1, <4>2, <4>4, <4>5
      <4>6. CASE d # c
        BY <1>4, <4>1, <4>2, <4>3, <4>4, <4>6
      <4> QED BY <4>5, <4>6
    <3> QED BY <3>1, <3>2
  <2>5. ASSUME NEW x \in DOMAIN o PROVE \A y \in DOMAIN o \ {x} : m[y] # m[x]
    <3>1. \A y, z \in DOMAIN objects : y # z => idmap[y] # idmap[z]
      BY <1>1 DEF VendorInv
    <3> QED BY <1>10, <1>12, <2>3, <3>1
  <2>6. ASSUME NEW x \in DOMAIN o, NEW d \in Consumers PROVE m[x] # Claimed(d)'
    <3>1. m[x] # Null
      <4>1. m[x] \in DOMAIN vendor
        BY <2>4
      <4> QED BY <1>1, <4>1, CallsAssumption, PartialDomain DEF TypeOK
    <3>2. CASE d = c
      BY <2>1, <3>1, <3>2
    <3>3. CASE d # c
      BY <1>10, <1>12, <1>23, <2>2, <2>3, <3>3
    <3> QED BY <3>2, <3>3
  <2>7. ASSUME NEW d \in Consumers, Claimed(d)' # Null
        PROVE  /\ Claimed(d)' \in DOMAIN vendor /\ vendor[Claimed(d)'].refs = 1
               /\ \A e \in Consumers \ {d} : Claimed(e)' # Claimed(d)'
    <3>1. d # c /\ Claimed(d)' = Claimed(d) /\ Claimed(d) # Null
      BY <1>23, <2>1, <2>7
    <3>2. /\ Claimed(d) \in DOMAIN vendor /\ vendor[Claimed(d)].refs = 1
          /\ \A e \in Consumers \ {d} : Claimed(e) # Claimed(d)
      BY <1>1, <3>1 DEF VendorInv
    <3> QED BY <1>23, <2>1, <3>1, <3>2
  <2> QED BY <1>6, <1>7, <2>4, <2>5, <2>6, <2>7 DEF VendorInv
<1> QED BY <1>15, <1>16, <1>17, <1>18, <1>19, <1>20, <1>22, <1>23, <1>24, Continues

\* no mapping where there is one already
LEMMA MappingFails ==
  ASSUME IInv, NEW id \in Ids \ DOMAIN objects, id \in DOMAIN idmap, Fails("mapping"), call' = call
  PROVE  IInv'
<1>1. failed' = "mapping" /\ idmap' = idmap /\ objects' = objects
  BY DEF Fails
<1>2. AssertionsExplained'
  BY <1>1 DEF AssertionsExplained
<1>3. DOMAIN call' = Consumers
  BY DEF IInv, Domains
<1> QED BY <1>2, <1>3, Stops DEF Reasons

\* the new object gets an id, unless there is none
LEMMA PostCreateKeeps == ASSUME IInv, NEW c \in Consumers, PostCreate(c) PROVE IInv'
<1>1. failed = "none" /\ call[c].at = "post" /\ PostTable(call[c].plan.fun) = "create"
  BY DEF PostCreate, Posting, InCall
<1>2. PICK p : p = call[c].plan
  OBVIOUS
<1>3. PICK real : real = call[c].ret
  OBVIOUS
<1>4. p.fun \in With("create") /\ ~WantsEvent(p)
  BY <1>1, <1>2, Dispatch, Disjoint DEF WantsEvent
<1>5. CallAt(c) /\ Busy(c) /\ DOMAIN call = Consumers
  BY <1>1 DEF IInv, Running, Domains, Busy, InProgress
<1>6. CASE real = Null
  <2>1. /\ Goto(c, "end") /\ objects' = objects /\ idmap' = idmap /\ allocs' = allocs
        /\ memory' = memory /\ vendor' = vendor /\ held' = held /\ failed' = failed /\ foreign' = foreign
    BY <1>3, <1>6 DEF PostCreate
  <2> QED BY <1>1, <1>2, <1>3, <1>4, <1>6, <2>1, EndsKeeps
<1>7. CASE real # Null
  <2>1. PICK id \in Ids \ DOMAIN objects :
          IF id \in DOMAIN idmap
          THEN Fails("mapping") /\ UNCHANGED call
          ELSE /\ Maps(c, id, real)
               /\ call' = [call EXCEPT ![c] = [@ EXCEPT !.at = "end", !.ret = id]]
               /\ UNCHANGED <<allocs, memory, vendor, held, failed, foreign>>
    BY <1>3, <1>7 DEF PostCreate
  <2>2. CASE id \in DOMAIN idmap
    BY <2>1, <2>2, MappingFails
  <2>3. CASE id \notin DOMAIN idmap
    <3>1. /\ Maps(c, id, real) /\ allocs' = allocs /\ memory' = memory /\ vendor' = vendor
          /\ held' = held /\ failed' = "none" /\ foreign' = foreign
      BY <1>1, <2>1, <2>3
    <3>2. PICK s : s = [call[c] EXCEPT !.at = "end", !.ret = id]
      OBVIOUS
    <3>3. call[c] = [at |-> "post", plan |-> p, ret |-> real]
      BY <1>1, <1>2, <1>3, <1>5 DEF CallAt
    <3>4. DOMAIN s = {"at", "plan", "ret"} /\ s.at = "end" /\ s.plan = p /\ s.ret = id
      BY <3>2, <3>3
    <3>5. s = [at |-> "end", plan |-> p, ret |-> id]
      BY <3>2, <3>3, <3>4
    <3>6. call' = [call EXCEPT ![c] = [at |-> "end", plan |-> p, ret |-> id]]
      BY <2>1, <2>3, <3>2, <3>5
    <3> QED BY <1>1, <1>2, <1>3, <1>4, <1>7, <2>3, <3>1, <3>6, MapsKeeps
  <2> QED BY <2>2, <2>3
<1> QED BY <1>6, <1>7

\* the event gets an id, unless nothing was enqueued
LEMMA PostEventKeeps == ASSUME IInv, NEW c \in Consumers, PostEvent(c) PROVE IInv'
<1>1. failed = "none" /\ call[c].at = "post" /\ PostTable(call[c].plan.fun) = "event"
  BY DEF PostEvent, Posting, InCall
<1>2. PICK p : p = call[c].plan
  OBVIOUS
<1>3. PICK real : real = call[c].ret
  OBVIOUS
<1>4. /\ p.fun \in With("event") /\ p.fun # "clEnqueueMarker" /\ p.fun \notin With("create")
      /\ MapArg(p.fun) = Argc(p.fun)
  BY <1>1, <1>2, Dispatch, Disjoint, LastArgument
<1>5. /\ CallAt(c) /\ EventAt(c) /\ MemoryAt(c) /\ Busy(c) /\ DOMAIN call = Consumers
  BY <1>1 DEF IInv, Running, Domains, Busy, InProgress
<1>6. PICK h : h = Handle(c, Argc(p.fun))
  OBVIOUS
<1>7. h \in Handles(c, p) <=> WantsEvent(p)
  BY <1>4, <1>6, HandleSame DEF Handles, WantsEvent
<1>8. CASE ~WantsEvent(p)
  <2>1. /\ Goto(c, "end") /\ objects' = objects /\ idmap' = idmap /\ allocs' = allocs
        /\ memory' = memory /\ vendor' = vendor /\ held' = held /\ failed' = failed /\ foreign' = foreign
    BY <1>2, <1>4, <1>6, <1>7, <1>8 DEF PostEvent
  <2> QED BY <1>1, <1>2, <1>4, <1>8, <2>1, EndsKeeps
<1>9. CASE WantsEvent(p)
  <2>1. PICK id \in Ids \ DOMAIN objects :
          CASE id \in DOMAIN idmap -> Fails("mapping") /\ UNCHANGED call
            [] id \notin DOMAIN idmap /\ memory[h] = <<>> -> Fails("event") /\ UNCHANGED call
            [] OTHER -> /\ Maps(c, id, memory[h][1])
                        /\ memory' = [memory EXCEPT ![h] = <<id>>]
                        /\ Goto(c, "end")
                        /\ UNCHANGED <<allocs, vendor, held, failed, foreign>>
    BY <1>2, <1>4, <1>6, <1>7, <1>9 DEF PostEvent
  <2>2. memory[h] = IF real = Null THEN <<>> ELSE <<real>>
    BY <1>1, <1>2, <1>3, <1>5, <1>6, <1>9 DEF EventAt
  <2>3. CASE id \in DOMAIN idmap
    BY <2>1, <2>3, MappingFails
  <2>4. CASE id \notin DOMAIN idmap /\ memory[h] = <<>>
    <3>1. Fails("event") /\ call' = call
      BY <2>1, <2>4
    <3>2. real = Null
      BY <2>2, <2>4
    <3>3. AssertionsExplained'
      BY <1>1, <1>3, <3>1, <3>2 DEF AssertionsExplained, Fails
    <3> QED BY <1>5, <3>1, <3>3, Stops DEF Reasons
  <2>5. CASE id \notin DOMAIN idmap /\ memory[h] # <<>>
    <3>1. real # Null /\ memory[h][1] = real
      BY <2>2, <2>5
    <3>2. /\ Maps(c, id, real) /\ memory' = [memory EXCEPT ![h] = <<id>>] /\ Goto(c, "end")
          /\ allocs' = allocs /\ vendor' = vendor /\ held' = held /\ failed' = "none" /\ foreign' = foreign
      BY <1>1, <2>1, <2>5, <3>1
    <3>3. h \in DOMAIN memory
      BY <1>2, <1>5, <1>6, <1>9, EventThere DEF Argument
    <3>4. /\ DOMAIN memory' = DOMAIN memory /\ memory'[h] = <<id>>
          /\ \A x \in DOMAIN memory : (\A n : x # Handle(c, n)) => memory'[x] = memory[x]
      BY <1>6, <3>2, <3>3
    <3>5. call[c] = [at |-> "post", plan |-> p, ret |-> real]
      BY <1>1, <1>2, <1>3, <1>5 DEF CallAt
    <3>6. [call[c] EXCEPT !.at = "end"] = [at |-> "end", plan |-> p, ret |-> real]
      BY <3>5
    <3>7. call' = [call EXCEPT ![c] = [at |-> "end", plan |-> p, ret |-> real]]
      BY <3>2, <3>6 DEF Goto
    <3> QED BY <1>1, <1>2, <1>3, <1>4, <1>6, <2>5, <3>1, <3>2, <3>4, <3>7, MapsKeeps, ZenonT(60)
  <2> QED BY <2>3, <2>4, <2>5
<1> QED BY <1>8, <1>9

-----------------------------------------------------------------------------
(* What the application has got *)

Value == [event : BOOLEAN, refs : 1 .. MaxRefs]

\* the application counts as the agent and the vendor have done
LEMMA GotCounted ==
  ASSUME IInv, failed = "none", NEW c \in Consumers, call[c].at = "end", NEW p, p = call[c].plan,
         p.fun \in Counting
  PROVE  /\ OneCounted(held[c], Got(c), p.hint, p.fun)
         /\ p.hint \in DOMAIN Got(c) => Got(c)[p.hint] \in Value
<1>1. /\ TypeOK /\ CallAt(c) /\ Busy(c)
  BY DEF IInv, Running, Busy, InProgress
<1>2. /\ p.hint \in DOMAIN held[c] /\ (p.fun \in With("retain") => held[c][p.hint].refs < MaxRefs)
  BY <1>1 DEF CallAt, PlanFacts
<1>3. PICK h : h = held[c]
  OBVIOUS
<1>4. DOMAIN h \subseteq Ids \union Reals /\ \A v \in DOMAIN h : h[v] \in Value
  BY <1>1, <1>3 DEF TypeOK, Value
<1>5. PICK f : f = [v \in DOMAIN h |-> h[v]]
  OBVIOUS
<1>6. DOMAIN f = DOMAIN h /\ \A v \in DOMAIN h : f[v] = h[v]
  BY <1>5
<1>7. f \in PartialFunctions(Ids \union Reals, Value)
  BY <1>4, <1>5, PartialIs
<1>8. PICK g : g = Got(c)
  OBVIOUS
<1>9. PICK k : k = p.hint
  OBVIOUS
<1>10. PICK fun : fun = p.fun
  OBVIOUS
<1>11. p.fun \notin With("create") /\ p.fun \notin With("event")
  BY Disjoint
<1>12. CountsIn(f, g, k, fun)
  <2>1. CASE fun \in With("retain")
    <3>1. g = [h EXCEPT ![k].refs = h[k].refs + 1]
      BY <1>3, <1>8, <1>9, <1>10, <1>11, <2>1, Disjoint DEF Got
    <3>2. [h EXCEPT ![k].refs = h[k].refs + 1] = [f EXCEPT ![k].refs = f[k].refs + 1]
      BY <1>2, <1>3, <1>5, <1>9
    <3>3. g = [f EXCEPT ![k].refs = f[k].refs + 1]
      BY <3>1, <3>2
    <3> QED BY <2>1, <3>3, Disjoint DEF CountsIn
  <2>2. CASE fun \in With("release")
    <3>1. g = Released(h, k) /\ fun \notin With("retain")
      BY <1>3, <1>8, <1>9, <1>10, <1>11, <2>2, Disjoint DEF Got
    <3>2. Released(h, k) = Released(f, k)
      <4>1. CASE h[k].refs = 1
        BY <1>2, <1>3, <1>6, <1>9, <4>1 DEF Released
      <4>2. CASE h[k].refs # 1
        <5>1. [h EXCEPT ![k].refs = h[k].refs - 1] = [f EXCEPT ![k].refs = f[k].refs - 1]
          BY <1>2, <1>3, <1>5, <1>9
        <5> QED BY <1>2, <1>3, <1>6, <1>9, <4>2, <5>1 DEF Released
      <4> QED BY <4>1, <4>2
    <3> QED BY <2>2, <3>1, <3>2 DEF CountsIn
  <2> QED BY <1>10, <2>1, <2>2 DEF Counting
<1>13. g \in PartialFunctions(Ids \union Reals, Value) /\ OneCounted(f, g, k, fun)
  <2>1. PICK T : T = Value
    OBVIOUS
  <2>2. PICK S : S = Ids \union Reals
    OBVIOUS
  <2>3. Countable(T) /\ f \in PartialFunctions(S, T)
    BY <1>7, <2>1, <2>2, CountableRecords DEF Value
  <2>4. /\ fun \in Counting => k \in DOMAIN f
        /\ fun \in With("retain") => f[k].refs < MaxRefs
    BY <1>2, <1>3, <1>6, <1>9, <1>10
  <2>5. g \in PartialFunctions(S, T) /\ OneCounted(f, g, k, fun)
    BY <1>12, <2>3, <2>4, CountedTable
  <2> QED BY <2>1, <2>2, <2>5
<1>14. OneCounted(h, g, k, fun)
  BY <1>2, <1>3, <1>6, <1>9, <1>13 DEF OneCounted
<1>15. k \in DOMAIN g => g[k] \in Value
  BY <1>13, PartialValues
<1> QED BY <1>3, <1>8, <1>9, <1>10, <1>14, <1>15

\* what is new has one reference
LEMMA GotMore ==
  ASSUME IInv, failed = "none", NEW c \in Consumers, call[c].at = "end", NEW p, p = call[c].plan,
         p.fun \notin Counting
  PROVE  /\ \A v \in DOMAIN held[c] : v \in DOMAIN Got(c) /\ Got(c)[v] = held[c][v]
         /\ \A v \in DOMAIN Got(c) \ DOMAIN held[c] :
              /\ v \in New(c) \union Reals /\ Got(c)[v] \in Value /\ Got(c)[v].refs = 1
              /\ ~Got(c)[v].event => v \in Ids
         /\ New(c) \subseteq DOMAIN Got(c)
<1>1. CallAt(c) /\ EventAt(c) /\ HeldAt(c) /\ Busy(c)
  BY DEF IInv, Running, Busy, InProgress
<1>2. PICK g : g = Got(c)
  OBVIOUS
<1>3. PICK h : h = held[c]
  OBVIOUS
<1>4. PICK N : N = New(c)
  OBVIOUS
<1>5. /\ \A v \in DOMAIN h : v \in DOMAIN g /\ g[v] = h[v]
      /\ \A v \in DOMAIN g \ DOMAIN h :
           /\ v \in N \union Reals /\ g[v] \in Value /\ g[v].refs = 1
           /\ ~g[v].event => v \in Ids
      /\ N \subseteq DOMAIN g
  <2>1. /\ p.fun \notin With("retain") /\ p.fun \notin With("release")
        /\ ~(p.fun \in With("create") /\ p.fun \in With("event"))
    BY Disjoint DEF Counting
  <2>2. CASE p.fun \in With("create")
    <3>1. PICK r : r = call[c].ret
      OBVIOUS
    <3>2. r \in Ids \union {Null} /\ N = {r} \intersect Ids
      BY <1>1, <1>4, <2>2, <3>1 DEF CallAt, New
    <3>3. CASE r = Null
      <4>1. N = {}
        BY <3>2, <3>3, CallsAssumption
      <4>2. g = h
        BY <1>2, <1>3, <2>2, <2>1, <3>1, <3>3 DEF Got
      <4> QED BY <4>1, <4>2
    <3>4. CASE r # Null
      <4>1. PICK one : one = [event |-> FALSE, refs |-> 1]
        OBVIOUS
      <4>2. g = Merged(h, Entry(r, one))
        <5>1. g = h @@ r :> one
          BY <1>2, <1>3, <2>2, <2>1, <3>1, <3>4, <4>1 DEF Got
        <5> QED BY <5>1 DEF @@, :>
      <4>3. DOMAIN g = DOMAIN h \union {r}
        BY <4>2, EntryDomain
      <4>4. r \notin DOMAIN h
        BY <1>1, <1>3, <1>4, <3>2, <3>4 DEF HeldAt
      <4>5. g[r] = one /\ \A v \in DOMAIN h : g[v] = h[v]
        BY <4>2, <4>4, EntryValues
      <4>6. one \in Value /\ one.refs = 1
        BY <4>1, CallsAssumption DEF Value
      <4> QED BY <3>2, <3>4, <4>3, <4>5, <4>6
    <3> QED BY <3>3, <3>4
  <2>3. CASE p.fun \in With("event")
    <3>1. p.fun \notin With("create")
      BY <2>3, Disjoint
    <3>2. PICK E : E = EventGot(c, p)
      OBVIOUS
    <3>3. N = E \intersect Ids
      BY <1>4, <3>1, <3>2 DEF New
    <3>4. E \subseteq Ids \union Reals
      <4>1. CASE WantsEvent(p)
        <5>1. Range(memory[Handle(c, Argc(p.fun))]) \subseteq Ids \union Reals
          BY <1>1, <4>1 DEF EventAt, Range
        <5> QED BY <3>2, <4>1, <5>1 DEF EventGot
      <4>2. CASE ~WantsEvent(p)
        BY <3>2, <4>2 DEF EventGot
      <4> QED BY <4>1, <4>2
    <3>5. PICK f : f = [e \in E |-> [event |-> TRUE, refs |-> 1]]
      OBVIOUS
    <3>6. DOMAIN f = E /\ \A e \in E : f[e] \in Value /\ f[e].refs = 1 /\ f[e].event = TRUE
      BY <3>5, CallsAssumption DEF Value
    <3>7. g = Merged(h, f)
      <4>1. g = h @@ f
        BY <1>2, <1>3, <2>3, <2>1, <3>1, <3>2, <3>5 DEF Got
      <4> QED BY <4>1 DEF @@
    <3>8. DOMAIN g = DOMAIN h \union E
      BY <3>6, <3>7, MergedDomain
    <3>9. /\ \A v \in DOMAIN h : g[v] = h[v]
          /\ \A v \in DOMAIN f : v \notin DOMAIN h => g[v] = f[v]
      BY <3>7, MergedValues
    <3> QED BY <3>3, <3>4, <3>6, <3>8, <3>9
  <2>4. CASE p.fun \notin With("create") \union With("event")
    <3>1. g = h
      BY <1>2, <1>3, <2>1, <2>4 DEF Got, Counting
    <3>2. N = {}
      BY <1>4, <2>4 DEF New, EventGot, WantsEvent
    <3> QED BY <3>1, <3>2
  <2> QED BY <2>2, <2>3, <2>4
<1> QED BY <1>2, <1>3, <1>4, <1>5

\* FETCH and FREE: the memory of the call is given back, and the application goes on
LEMMA FinishIs ==
  ASSUME IInv, NEW c \in Consumers, Finish(c), NEW p, p = call[c].plan
  PROVE  /\ failed = "none" /\ call[c].at = "end" /\ failed' = "none"
         /\ objects' = objects /\ vendor' = vendor
         /\ DOMAIN call' = Consumers /\ call'[c].at = "idle" /\ \A d \in Consumers \ {c} : call'[d] = call[d]
         /\ DOMAIN held' = Consumers /\ held'[c] = Got(c) /\ \A d \in Consumers \ {c} : held'[d] = held[d]
         /\ DOMAIN allocs' = Consumers /\ allocs'[c] = {} /\ \A d \in Consumers \ {c} : allocs'[d] = allocs[d]
         /\ \A x : x \in DOMAIN memory' <=> x \in DOMAIN memory /\ x \notin Handles(c, p)
         /\ \A x : x \in DOMAIN idmap' <=> x \in DOMAIN idmap /\ x \notin Handles(c, p)
         /\ \A x \in DOMAIN memory' : memory'[x] = memory[x]
         /\ \A x \in DOMAIN idmap' : idmap'[x] = idmap[x]
         /\ \A x \in Handles(c, p) : x \in Consumers \X Nat /\ x \notin Ids \union {Platform, Device}
<1>1. failed = "none" /\ call[c].at = "end"
  BY DEF Finish, InCall
<1>2. Domains /\ MemoryAt(c) /\ CallAt(c) /\ Busy(c)
  BY <1>1 DEF IInv, Running, Busy, InProgress
<1>3. Positions(p.out) = Positions(p.in) /\ Positions(p.in) \subseteq Nat
  BY <1>2 DEF CallAt, PlanFacts
<1>4. PICK out : out = {Handle(c, p.out[i].pos) : i \in DOMAIN p.out}
  OBVIOUS
<1>5. out = Handles(c, p)
  <2>1. out = {Handle(c, n) : n \in Positions(p.out)}
    BY <1>4 DEF Positions
  <2> QED BY <1>3, <2>1, HandlesIs
<1>6. /\ allocs' = [allocs EXCEPT ![c] = @ \ out]
      /\ memory' = Without(memory, out) /\ idmap' = Without(idmap, out)
      /\ held' = [held EXCEPT ![c] = Got(c)] /\ call' = [call EXCEPT ![c] = Idle]
      /\ objects' = objects /\ vendor' = vendor /\ failed' = failed
  BY <1>4 DEF Finish
<1>7. allocs[c] \ out = {}
  BY <1>2, <1>5 DEF MemoryAt
<1>8. DOMAIN allocs' = Consumers /\ allocs'[c] = {} /\ \A d \in Consumers \ {c} : allocs'[d] = allocs[d]
  BY <1>2, <1>6, <1>7 DEF Domains
<1>9. DOMAIN call' = Consumers /\ call'[c].at = "idle" /\ \A d \in Consumers \ {c} : call'[d] = call[d]
  BY <1>2, <1>6 DEF Domains, Idle
<1>10. DOMAIN held' = Consumers /\ held'[c] = Got(c) /\ \A d \in Consumers \ {c} : held'[d] = held[d]
  BY <1>2, <1>6 DEF Domains
<1>11. /\ \A x : x \in DOMAIN memory' <=> x \in DOMAIN memory /\ x \notin Handles(c, p)
       /\ \A x : x \in DOMAIN idmap' <=> x \in DOMAIN idmap /\ x \notin Handles(c, p)
       /\ \A x \in DOMAIN memory' : memory'[x] = memory[x]
       /\ \A x \in DOMAIN idmap' : idmap'[x] = idmap[x]
  BY <1>5, <1>6 DEF Without
<1>12. \A x \in Handles(c, p) : x \in Consumers \X Nat /\ x \notin Ids \union {Platform, Device}
  BY <1>3, HandlesIs, HandleIs
<1> QED BY <1>1, <1>6, <1>8, <1>9, <1>10, <1>11, <1>12

\* what the application has got refers to the objects the agent has for it
LEMMA GotAgrees ==
  ASSUME IInv, failed = "none", NEW c \in Consumers, call[c].at = "end"
  PROVE  /\ DOMAIN Got(c) \subseteq Ids \union Reals /\ \A v \in DOMAIN Got(c) : Got(c)[v] \in Value
         /\ \A v \in DOMAIN Got(c) :
              /\ v \in Ids => v \in DOMAIN idmap /\ v \in DOMAIN objects /\ objects[v].consumer = c
              /\ ~Got(c)[v].event => v \in Ids
         /\ \A id \in DOMAIN objects : objects[id].consumer = c =>
              id \in DOMAIN Got(c) /\ objects[id].refs = Got(c)[id].refs
<1>1. TypeOK /\ VendorInv /\ HeldAt(c)
  BY DEF IInv, Running
<1>2. PICK p : p = call[c].plan
  OBVIOUS
<1>3. PICK g : g = Got(c)
  OBVIOUS
<1>4. PICK h : h = held[c]
  OBVIOUS
<1>5. DOMAIN h \subseteq Ids \union Reals /\ \A v \in DOMAIN h : h[v] \in Value
  BY <1>1, <1>4 DEF TypeOK, Value
<1>6. \A v : Executed(c, v) <=> v = p.hint
  BY <1>2 DEF Executed
<1>7. \A v \in DOMAIN h : /\ v \in Ids => v \in DOMAIN idmap
                          /\ v \in Ids /\ v \in DOMAIN objects => objects[v].consumer = c
                          /\ v \in Ids /\ v \notin DOMAIN objects => Leaves(c, v) /\ h[v].refs = 1
                          /\ ~h[v].event => v \in Ids
  BY <1>1, <1>4 DEF HeldAt
<1>8. /\ \A id \in New(c) : /\ id \in DOMAIN objects /\ id \notin DOMAIN h
                            /\ objects[id].consumer = c /\ objects[id].refs = 1
      /\ \A id \in DOMAIN objects : objects[id].consumer = c /\ id \notin New(c) =>
           /\ id \in DOMAIN h
           /\ IF id = p.hint THEN Counted(p.fun, objects[id].refs, h[id].refs)
              ELSE objects[id].refs = h[id].refs
  BY <1>1, <1>2, <1>4, <1>6 DEF HeldAt
<1>9. \A id \in DOMAIN objects : id \in DOMAIN idmap /\ id \in Ids /\ objects[id].refs \in 1 .. MaxRefs
  <2>1. \A id \in DOMAIN objects : id \in DOMAIN idmap
    BY <1>1 DEF VendorInv
  <2>2. \A id \in DOMAIN objects : id \in Ids
    BY <1>1, PartialDomain DEF TypeOK
  <2>3. ASSUME NEW id \in DOMAIN objects PROVE objects[id].refs \in 1 .. MaxRefs
    <3>1. objects[id] \in [consumer : Consumers, refs : 1 .. MaxRefs]
      BY <1>1, PartialValues DEF TypeOK
    <3> QED BY <3>1
  <2> QED BY <2>1, <2>2, <2>3
<1>10. CASE p.fun \in Counting
  <2>1. PICK k : k = p.hint
    OBVIOUS
  <2>2. OneCounted(h, g, k, p.fun) /\ (k \in DOMAIN g => g[k] \in Value)
    BY <1>2, <1>3, <1>4, <1>10, <2>1, GotCounted
  <2>3. New(c) = {}
    BY <1>2, <1>10, Disjoint DEF New, EventGot, WantsEvent
  <2>4. /\ DOMAIN g \subseteq DOMAIN h /\ \A v \in DOMAIN h \ {k} : v \in DOMAIN g /\ g[v] = h[v]
        /\ k \in DOMAIN g => Counted(p.fun, g[k].refs, h[k].refs) /\ g[k] = [h[k] EXCEPT !.refs = g[k].refs]
        /\ k \in DOMAIN h /\ k \notin DOMAIN g => p.fun \in With("release") /\ h[k].refs = 1
        /\ k \in DOMAIN g /\ p.fun \in With("release") => h[k].refs # 1
    BY <2>2 DEF OneCounted
  <2>5. DOMAIN g \subseteq Ids \union Reals /\ \A v \in DOMAIN g : g[v] \in Value
    BY <1>5, <2>2, <2>4
  <2>6. ASSUME NEW v \in DOMAIN g
        PROVE  /\ v \in Ids => v \in DOMAIN idmap /\ v \in DOMAIN objects /\ objects[v].consumer = c
               /\ ~g[v].event => v \in Ids
    <3>1. v \in DOMAIN h
      BY <2>4
    <3>2. ASSUME v \in Ids PROVE v \in DOMAIN objects
      <4>1. SUFFICES ASSUME v \notin DOMAIN objects PROVE FALSE
        OBVIOUS
      <4>2. Leaves(c, v) /\ h[v].refs = 1
        BY <1>7, <3>1, <3>2, <4>1
      <4>3. v = k /\ p.fun \in With("release")
        BY <1>2, <1>6, <2>1, <4>2 DEF Leaves
      <4> QED BY <2>4, <4>2, <4>3
    <3>3. g[v].event = h[v].event
      <4>1. CASE v = k
        <5>1. PICK n : n = g[k].refs
          OBVIOUS
        <5>2. g[v] = [h[v] EXCEPT !.refs = n] /\ h[v] \in Value
          BY <1>5, <2>4, <3>1, <4>1, <5>1
        <5> QED BY <5>2 DEF Value
      <4>2. CASE v # k
        BY <2>4, <3>1, <4>2
      <4> QED BY <4>1, <4>2
    <3> QED BY <1>7, <3>1, <3>2, <3>3
  <2>7. ASSUME NEW id \in DOMAIN objects, objects[id].consumer = c
        PROVE  id \in DOMAIN g /\ objects[id].refs = g[id].refs
    <3>1. CASE id # k
      BY <1>8, <2>1, <2>3, <2>4, <2>7, <3>1
    <3>2. CASE id = k
      <4>1. /\ k \in DOMAIN h /\ Counted(p.fun, objects[k].refs, h[k].refs)
            /\ objects[k].refs \in 1 .. MaxRefs
        BY <1>8, <1>9, <2>1, <2>3, <2>7, <3>2
      <4>2. h[k].refs \in 1 .. MaxRefs
        BY <1>5, <4>1 DEF Value
      <4>3. k \in DOMAIN g
        <5>1. SUFFICES ASSUME k \notin DOMAIN g PROVE FALSE
          OBVIOUS
        <5>2. p.fun \in With("release") /\ p.fun \notin With("retain") /\ h[k].refs = 1
          BY <2>4, <4>1, <5>1, Disjoint
        <5>3. 1 = objects[k].refs + 1
          BY <4>1, <5>2 DEF Counted
        <5> QED BY <4>1, <5>3, CallsAssumption
      <4>4. Counted(p.fun, g[k].refs, h[k].refs) /\ g[k].refs \in 1 .. MaxRefs
        BY <2>4, <2>5, <4>3 DEF Value
      <4>5. objects[k].refs = g[k].refs
        BY <4>1, <4>2, <4>4, CallsAssumption DEF Counted
      <4> QED BY <3>2, <4>3, <4>5
    <3> QED BY <3>1, <3>2
  <2> QED BY <1>3, <2>5, <2>6, <2>7
<1>11. CASE p.fun \notin Counting
  <2>1. \A v \in DOMAIN h : v \in DOMAIN g /\ g[v] = h[v]
    BY <1>2, <1>3, <1>4, <1>11, GotMore
  <2>2. \A v \in DOMAIN g \ DOMAIN h :
          /\ v \in New(c) \union Reals /\ g[v] \in Value /\ g[v].refs = 1
          /\ ~g[v].event => v \in Ids
    BY <1>2, <1>3, <1>4, <1>11, GotMore
  <2>3. New(c) \subseteq DOMAIN g
    BY <1>2, <1>3, <1>11, GotMore
  <2>4. New(c) \subseteq Ids
    BY <1>8, <1>9
  <2>5. DOMAIN g \subseteq Ids \union Reals /\ \A v \in DOMAIN g : g[v] \in Value
    BY <1>5, <2>1, <2>2, <2>4
  <2>6. \A v : ~Leaves(c, v)
    BY <1>2, <1>11 DEF Leaves, Counting
  <2>7. ASSUME NEW v \in DOMAIN g
        PROVE  /\ v \in Ids => v \in DOMAIN idmap /\ v \in DOMAIN objects /\ objects[v].consumer = c
               /\ ~g[v].event => v \in Ids
    <3>1. CASE v \in DOMAIN h
      BY <1>7, <2>1, <2>6, <3>1
    <3>2. CASE v \notin DOMAIN h
      <4>1. v \in Ids => v \in New(c)
        BY <2>2, <3>2, CallsAssumption
      <4> QED BY <1>8, <1>9, <2>2, <3>2, <4>1
    <3> QED BY <3>1, <3>2
  <2>8. ASSUME NEW id \in DOMAIN objects, objects[id].consumer = c
        PROVE  id \in DOMAIN g /\ objects[id].refs = g[id].refs
    <3>1. CASE id \in New(c)
      BY <1>8, <2>2, <2>3, <3>1
    <3>2. CASE id \notin New(c)
      <4>1. /\ id \in DOMAIN h
            /\ IF id = p.hint THEN Counted(p.fun, objects[id].refs, h[id].refs)
               ELSE objects[id].refs = h[id].refs
        BY <1>8, <2>8, <3>2
      <4>2. objects[id].refs = h[id].refs
        BY <1>11, <4>1 DEF Counted, Counting
      <4> QED BY <2>1, <4>1, <4>2
    <3> QED BY <3>1, <3>2
  <2> QED BY <1>3, <2>5, <2>7, <2>8
<1> QED BY <1>10, <1>11

\* the application goes on with what it has got
LEMMA FinishKeeps == ASSUME IInv, NEW c \in Consumers, Finish(c) PROVE IInv'
<1>1. PICK p : p = call[c].plan
  OBVIOUS
<1>2. PICK H : H = Handles(c, p)
  OBVIOUS
<1>3. /\ failed = "none" /\ call[c].at = "end" /\ failed' = "none"
      /\ objects' = objects /\ vendor' = vendor
      /\ DOMAIN call' = Consumers /\ call'[c].at = "idle" /\ \A d \in Consumers \ {c} : call'[d] = call[d]
      /\ DOMAIN held' = Consumers /\ held'[c] = Got(c) /\ \A d \in Consumers \ {c} : held'[d] = held[d]
      /\ DOMAIN allocs' = Consumers /\ allocs'[c] = {} /\ \A d \in Consumers \ {c} : allocs'[d] = allocs[d]
  BY <1>1, FinishIs
<1>4. /\ \A x : x \in DOMAIN memory' <=> x \in DOMAIN memory /\ x \notin H
      /\ \A x : x \in DOMAIN idmap' <=> x \in DOMAIN idmap /\ x \notin H
  BY <1>1, <1>2, FinishIs
<1>5. /\ \A x \in DOMAIN memory' : memory'[x] = memory[x]
      /\ \A x \in DOMAIN idmap' : idmap'[x] = idmap[x]
  BY <1>1, FinishIs
<1>6. \A x \in H : x \in Consumers \X Nat /\ x \notin Ids \union {Platform, Device}
  BY <1>1, <1>2, FinishIs
<1>7. TypeOK /\ Domains /\ Running /\ MapInv /\ VendorInv /\ CrossingsListed
  BY <1>3 DEF IInv
<1>8. CallAt(c) /\ EventAt(c) /\ MemoryAt(c) /\ HeldAt(c) /\ Busy(c)
  BY <1>3, <1>7 DEF Running, Busy, InProgress
<1>9. PICK g : g = Got(c)
  OBVIOUS
<1>10. DOMAIN g \subseteq Ids \union Reals /\ \A v \in DOMAIN g : g[v] \in Value
  BY <1>3, <1>9, GotAgrees
<1>11. \A v \in DOMAIN g :
         /\ v \in Ids => v \in DOMAIN idmap /\ v \in DOMAIN objects /\ objects[v].consumer = c
         /\ ~g[v].event => v \in Ids
  BY <1>3, <1>9, GotAgrees
<1>12. \A id \in DOMAIN objects : objects[id].consumer = c => id \in DOMAIN g /\ objects[id].refs = g[id].refs
  BY <1>3, <1>9, GotAgrees
<1>13. \A x : x \in Ids \union {Platform, Device} => (x \in DOMAIN idmap' <=> x \in DOMAIN idmap)
  BY <1>4, <1>6
<1>14. \A d, n : d # c => Handle(d, n) \notin H
  BY <1>2, HandlesIs, HandleSame
<1>15. TypeOK'
  <2>1. \A d \in Consumers :
          /\ DOMAIN held'[d] \subseteq Ids \union Reals
          /\ \A v \in DOMAIN held'[d] : held'[d][v] \in [event : BOOLEAN, refs : 1 .. MaxRefs]
          /\ call'[d].at \in {"idle", "called", "remote", "post", "end", "gone"}
    <3>1. ASSUME NEW d \in Consumers \ {c}
          PROVE  /\ DOMAIN held'[d] \subseteq Ids \union Reals
                 /\ \A v \in DOMAIN held'[d] : held'[d][v] \in [event : BOOLEAN, refs : 1 .. MaxRefs]
                 /\ call'[d].at \in {"idle", "called", "remote", "post", "end", "gone"}
      BY <1>3, <1>7 DEF TypeOK
    <3>2. /\ DOMAIN held'[c] \subseteq Ids \union Reals
          /\ \A v \in DOMAIN held'[c] : held'[c][v] \in [event : BOOLEAN, refs : 1 .. MaxRefs]
      BY <1>3, <1>9, <1>10 DEF Value
    <3> QED BY <1>3, <3>1, <3>2
  <2>2. DOMAIN memory' \subseteq DOMAIN idmap'
    BY <1>4, <1>7 DEF TypeOK
  <2> QED BY <1>3, <1>7, <2>1, <2>2 DEF TypeOK
<1>16. CrossingsListed'
  <2>1. foreign' = IF EventGot(c, p) \subseteq Ids /\ AnswerGot(c, p) \subseteq Objects(c) THEN {} ELSE {p.fun}
    BY <1>1 DEF Finish
  <2>2. p.fun \notin Listed => AnswerGot(c, p) = {}
    BY DEF AnswerGot, IsAnswered, Listed
  <2>3. ASSUME p.fun \notin Listed PROVE EventGot(c, p) \subseteq Ids
    <3>1. CASE WantsEvent(p)
      <4>1. \E id \in Ids : memory[Handle(c, Argc(p.fun))] = <<id>>
        BY <1>1, <1>3, <1>8, <2>3, <3>1 DEF EventAt, Listed
      <4> QED BY <3>1, <4>1 DEF EventGot, Range
    <3>2. CASE ~WantsEvent(p)
      BY <3>2 DEF EventGot
    <3> QED BY <3>1, <3>2
  <2> QED BY <2>1, <2>2, <2>3 DEF CrossingsListed, Listed
<1>17. Domains' /\ CallAt(c)' /\ EventAt(c)'
  BY <1>3 DEF Domains, CallAt, EventAt, Busy, InProgress
<1>18. MapInv'
  <2>1. DOMAIN memory' \subseteq Consumers \X Nat
    BY <1>4, <1>7 DEF MapInv
  <2>2. DOMAIN idmap' \subseteq Ids \union {Platform, Device} \union DOMAIN memory'
    BY <1>4, <1>7 DEF MapInv
  <2>3. \A x \in DOMAIN memory' \union {Platform, Device} : x \in DOMAIN idmap' /\ idmap'[x] = Ptr(x)
    BY <1>4, <1>5, <1>6, <1>7 DEF MapInv
  <2>4. \A id \in DOMAIN idmap' \intersect Ids : idmap'[id] \in Reals
    BY <1>4, <1>5, <1>7 DEF MapInv
  <2> QED BY <2>1, <2>2, <2>3, <2>4 DEF MapInv
<1>19. MemoryAt(c)'
  <2>1. ASSUME NEW n \in Nat PROVE Handle(c, n) \notin DOMAIN memory'
    <3>1. Handle(c, n) \in DOMAIN memory => n \in Positions(p.in)
      BY <1>1, <1>3, <1>8 DEF MemoryAt
    <3> QED BY <1>2, <1>4, <3>1, HandlesIs
  <2> QED BY <1>3, <2>1 DEF MemoryAt, Busy, InProgress
<1>20. HeldAt(c)'
  <2>1. New(c)' = {}
    BY <1>3 DEF New
  <2>2. \A v : ~(Executed(c, v)')
    BY <1>3 DEF Executed
  <2>3. \A v \in DOMAIN g : v \in Ids => v \in DOMAIN idmap'
    BY <1>11, <1>13
  <2> QED BY <1>3, <1>9, <1>11, <1>12, <2>1, <2>2, <2>3 DEF HeldAt
<1>21. ASSUME NEW d \in Consumers \ {c}
       PROVE  CallAt(d)' /\ EventAt(d)' /\ MemoryAt(d)' /\ HeldAt(d)' /\ Claimed(d)' = Claimed(d)
  <2>1. CallAt(d) /\ EventAt(d) /\ MemoryAt(d) /\ HeldAt(d) /\ call'[d] = call[d] /\ held'[d] = held[d]
    BY <1>3, <1>7 DEF Running
  <2>2. \A n : Handle(d, n) \in DOMAIN memory' <=> Handle(d, n) \in DOMAIN memory
    BY <1>4, <1>14
  <2>3. \A n : Handle(d, n) \in DOMAIN memory => memory'[Handle(d, n)] = memory[Handle(d, n)]
    BY <1>5, <2>2
  <2>4. DOMAIN idmap \intersect Ids \subseteq DOMAIN idmap'
    BY <1>13
  <2>5. \A id \in DOMAIN idmap \intersect Ids : idmap'[id] = idmap[id]
    BY <1>5, <2>4
  <2>6. CallAt(d)' /\ EventAt(d)' /\ MemoryAt(d)' /\ HeldAt(d)'
    BY <1>3, <2>1, <2>2, <2>3, <2>4, OthersStay
  <2>7. Claimed(d)' = Claimed(d)
    BY <1>3, <2>1, <2>5, ClaimStays
  <2> QED BY <2>6, <2>7
<1>22. VendorInv'
  <2>1. Claimed(c)' = Null
    BY <1>3 DEF Claimed
  <2>2. ASSUME NEW id \in DOMAIN objects PROVE id \in DOMAIN idmap' /\ idmap'[id] = idmap[id]
    <3>1. id \in Ids /\ id \in DOMAIN idmap
      BY <1>7, PartialDomain DEF TypeOK, VendorInv
    <3> QED BY <1>5, <1>13, <3>1
  <2>3. ASSUME NEW d \in Consumers
        PROVE  \/ call'[d] = call[d]
               \/ call'[d].at # "remote" /\ call[d].at # "remote"
    BY <1>3
  <2>4. ASSUME NEW id \in DOMAIN objects PROVE objects[id].consumer \in Consumers
    <3>1. objects[id] \in [consumer : Consumers, refs : 1 .. MaxRefs]
      BY <1>7, PartialValues DEF TypeOK
    <3> QED BY <3>1
  <2> QED BY <1>3, <1>7, <1>21, <2>1, <2>2, <2>3, <2>4, VendorStays
<1> QED BY <1>3, <1>15, <1>16, <1>17, <1>18, <1>19, <1>20, <1>21, <1>22, Continues

-----------------------------------------------------------------------------
(* The theorems *)

\* nobody is in a call, and there are no objects
LEMMA InitHolds == ASSUME Init PROVE IInv
<1>1. /\ objects = <<>> /\ memory = <<>> /\ vendor = <<>>
      /\ allocs = [c \in Consumers |-> {}]
      /\ idmap = [id \in {Platform, Device} |-> Ptr(id)]
      /\ held = [c \in Consumers |-> <<>>]
      /\ call = [c \in Consumers |-> Idle]
      /\ failed = "none" /\ foreign = {}
  BY DEF Init
<1>2. DOMAIN objects = {} /\ DOMAIN memory = {} /\ DOMAIN vendor = {}
  BY <1>1
<1>3. \A c \in Consumers : /\ call[c].at = "idle" /\ allocs[c] = {} /\ held[c] = <<>>
                           /\ DOMAIN held[c] = {}
  BY <1>1 DEF Idle
<1>4. \A S, T : <<>> \in PartialFunctions(S, T)
  <2>1. ASSUME NEW S, NEW T PROVE \E D \in SUBSET S : <<>> \in [D -> T]
    <3>1. {} \in SUBSET S /\ <<>> \in [{} -> T]
      OBVIOUS
    <3> QED BY <3>1
  <2> QED BY <2>1, PartialIs
<1>5. TypeOK
  BY <1>1, <1>2, <1>3, <1>4 DEF TypeOK
<1>6. MapInv
  BY <1>1, <1>2, CallsAssumption DEF MapInv
<1>7. ASSUME NEW c \in Consumers
      PROVE  CallAt(c) /\ EventAt(c) /\ MemoryAt(c) /\ HeldAt(c) /\ Claimed(c) = Null
  <2>1. ~Busy(c) /\ call[c].at = "idle"
    BY <1>3 DEF Busy, InProgress
  <2>2. New(c) = {} /\ Claimed(c) = Null
    BY <2>1 DEF New, Claimed
  <2>3. CallAt(c) /\ EventAt(c)
    BY <2>1 DEF CallAt, EventAt
  <2>4. MemoryAt(c)
    BY <1>2, <1>3, <2>1 DEF MemoryAt
  <2>5. HeldAt(c)
    BY <1>2, <1>3, <2>2 DEF HeldAt
  <2> QED BY <2>2, <2>3, <2>4, <2>5
<1>8. VendorInv
  BY <1>2, <1>7 DEF VendorInv
<1>9. NothingLeft /\ CrossingsListed /\ AssertionsExplained /\ Domains
  BY <1>1, <1>3 DEF NothingLeft, CrossingsListed, AssertionsExplained, Domains
<1> QED BY <1>5, <1>6, <1>7, <1>8, <1>9 DEF IInv, Running

\* every step keeps the invariant
LEMMA NextKeeps == ASSUME IInv, [Next]_vars PROVE IInv'
<1>1. CASE UNCHANGED vars
  <2>1. TypeOK' /\ NothingLeft' /\ CrossingsListed' /\ AssertionsExplained' /\ Domains'
    BY <1>1 DEF IInv, vars, TypeOK, NothingLeft, CrossingsListed, AssertionsExplained, Domains
  <2>2. MapInv => MapInv'
    BY <1>1 DEF vars, MapInv
  <2>3. \A c, v : (Leaves(c, v)' <=> Leaves(c, v)) /\ (Executed(c, v)' <=> Executed(c, v))
    BY <1>1 DEF vars, Leaves, Executed
  <2>4. \A c : New(c)' = New(c) /\ Claimed(c)' = Claimed(c)
    BY <1>1 DEF vars, New, EventGot, Claimed, Leaves, Executed
  <2>5. VendorInv => VendorInv'
    BY <1>1, <2>4 DEF vars, VendorInv
  <2>6. ASSUME NEW c, CallAt(c), EventAt(c), MemoryAt(c) PROVE CallAt(c)' /\ EventAt(c)' /\ MemoryAt(c)'
    BY <1>1, <2>6 DEF vars, CallAt, EventAt, MemoryAt, Busy
  <2>7. ASSUME NEW c, HeldAt(c) PROVE HeldAt(c)'
    BY <1>1, <2>3, <2>4, <2>7 DEF vars, HeldAt
  <2>8. Running => Running'
    BY <2>6, <2>7 DEF Running
  <2>9. failed' = failed
    BY <1>1 DEF vars
  <2> QED BY <2>1, <2>2, <2>5, <2>8, <2>9 DEF IInv
<1>2. CASE Next
  <2>1. PICK c \in Consumers :
          \/ Begin(c) \/ AsksUnknown(c) \/ Execute(c) \/ Remote(c)
          \/ PostCreate(c) \/ PostEvent(c) \/ AsksAvailable(c) \/ PostOther(c)
          \/ Finish(c) \/ Gone(c)
    BY <1>2 DEF Next
  <2>2. CASE Begin(c)
    BY <2>2, BeginKeeps
  <2>3. CASE AsksUnknown(c)
    BY <2>3, AsksUnknownKeeps
  <2>4. CASE Execute(c)
    BY <2>4, ExecuteKeeps
  <2>5. CASE Remote(c)
    BY <2>5, RemoteKeeps
  <2>6. CASE PostCreate(c)
    BY <2>6, PostCreateKeeps
  <2>7. CASE PostEvent(c)
    BY <2>7, PostEventKeeps
  <2>8. CASE AsksAvailable(c)
    BY <2>8, AsksAvailableKeeps
  <2>9. CASE PostOther(c)
    BY <2>9, PostOtherKeeps
  <2>10. CASE Finish(c)
    BY <2>10, FinishKeeps
  <2>11. CASE Gone(c)
    BY <2>11, GoneKeeps
  <2> QED BY <2>1, <2>2, <2>3, <2>4, <2>5, <2>6, <2>7, <2>8, <2>9, <2>10, <2>11
<1> QED BY <1>1, <1>2

(* The invariant holds of whatever the applications call: what an          *)
(* application holds, what the agent and the vendor count and what the     *)
(* provider maps follow a call step by step.                               *)
THEOREM InvariantHolds == Spec => []IInv
<1>1. Init => IInv
  BY InitHolds
<1>2. IInv /\ [Next]_vars => IInv'
  BY NextKeeps
<1> QED BY <1>1, <1>2, PTL DEF Spec

(* The tables of the agent, the vendor, the provider and the applications  *)
(* have the types the handlers of consumer_handler.c, provider.c and       *)
(* opencl_*.c take for granted; all memory in the provider is mapped.      *)
THEOREM TypeCorrect == Spec => []TypeOK
<1>1. IInv => TypeOK
  BY DEF IInv
<1> QED BY <1>1, InvariantHolds, PTL

(* No stub of consumer/src/opencl_*.c leaves memory behind, whatever it is *)
(* asked for: MALLOC is matched by FETCH or FREE with the same hint.       *)
THEOREM NothingLeftHolds == Spec => []NothingLeft
<1>1. IInv => NothingLeft
  BY DEF IInv
<1> QED BY <1>1, InvariantHolds, PTL

(* The vendor gets a pointer for every id and handle, and the application  *)
(* no pointer, except for the listed functions (provider_id_map and the    *)
(* provider's opencl_*.c).                                                 *)
THEOREM CrossingsListedHolds == Spec => []CrossingsListed
<1>1. IInv => CrossingsListed
  BY DEF IInv
<1> QED BY <1>1, InvariantHolds, PTL

(* The assertions in the agent's and the provider's handlers of a call     *)
(* fail for the listed reasons only: "handle" and "retain" never.          *)
THEOREM AssertionsExplainedHolds == Spec => []AssertionsExplained
<1>1. IInv => AssertionsExplained
  BY DEF IInv
<1> QED BY <1>1, InvariantHolds, PTL

\* the invariant says it of the consumers that are not in the middle of a call
LEMMA Agree == ASSUME IInv PROVE ReferencesAgree
<1> SUFFICES ASSUME failed = "none"
             PROVE  /\ \A id \in DOMAIN objects :
                         LET c == objects[id].consumer IN
                         call[c].at \in {"idle", "called", "gone"} =>
                           /\ id \in DOMAIN idmap /\ idmap[id] \in DOMAIN vendor
                           /\ vendor[idmap[id]].refs = objects[id].refs
                           /\ call[c].at # "gone" =>
                                id \in DOMAIN held[c] /\ held[c][id].refs = objects[id].refs
                           /\ \A other \in DOMAIN objects \ {id} : idmap[other] # idmap[id]
                    /\ \A c \in Consumers : call[c].at = "idle" =>
                         DOMAIN held[c] \intersect Ids \subseteq DOMAIN objects
  BY DEF ReferencesAgree
<1>1. TypeOK /\ Running /\ VendorInv
  BY DEF IInv
<1>2. ASSUME NEW id \in DOMAIN objects, NEW c, c = objects[id].consumer,
             call[c].at \in {"idle", "called", "gone"}
      PROVE  /\ id \in DOMAIN idmap /\ idmap[id] \in DOMAIN vendor
             /\ vendor[idmap[id]].refs = objects[id].refs
             /\ call[c].at # "gone" => id \in DOMAIN held[c] /\ held[c][id].refs = objects[id].refs
             /\ \A other \in DOMAIN objects \ {id} : idmap[other] # idmap[id]
  <2>1. c \in Consumers
    <3>1. objects[id] \in [consumer : Consumers, refs : 1 .. MaxRefs]
      BY <1>1, PartialValues DEF TypeOK
    <3> QED BY <1>2, <3>1
  <2>2. /\ id \in DOMAIN idmap /\ idmap[id] \in DOMAIN vendor
        /\ vendor[idmap[id]].refs = objects[id].refs
        /\ \A other \in DOMAIN objects \ {id} : idmap[other] # idmap[id]
    BY <1>1, <1>2 DEF VendorInv
  <2>3. New(c) = {} /\ ~Executed(c, id)
    BY <1>2 DEF New, Executed
  <2>4. call[c].at # "gone" => id \in DOMAIN held[c] /\ held[c][id].refs = objects[id].refs
    BY <1>1, <1>2, <2>1, <2>3 DEF Running, HeldAt
  <2> QED BY <2>2, <2>4
<1>3. ASSUME NEW c \in Consumers, call[c].at = "idle", NEW v \in DOMAIN held[c] \intersect Ids
      PROVE  v \in DOMAIN objects
  <2>1. ~Leaves(c, v)
    BY <1>3 DEF Leaves, Executed
  <2> QED BY <1>1, <1>3, <2>1 DEF Running, HeldAt
<1> QED BY <1>2, <1>3

(* AGENT_GENERIC_RETAIN and AGENT_GENERIC_RELEASE, the vendor's library    *)
(* and the application count the same references, between calls; an id is  *)
(* never used for two objects, nor an object for two ids.                  *)
THEOREM ReferencesAgreeHolds == Spec => []ReferencesAgree
<1>1. IInv => ReferencesAgree
  BY Agree
<1> QED BY <1>1, InvariantHolds, PTL

=============================================================================
