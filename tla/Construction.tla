---------------------------- MODULE Construction ----------------------------
(***************************************************************************)
(* Building and destroying what a run owns (Umem::create, Xsk::create,     *)
(* MmapRing::create, XdpLoader::create and run_receiver around them), one  *)
(* fallible call at a time.  Resources belong to C++ objects; objects are  *)
(* moved from a function's locals into its result and from there into      *)
(* main's variable, and every return and every exception destroys the      *)
(* objects in scope, moved-from ones included, in reverse order of their   *)
(* declaration.  An exception (std::println, std::format, an allocation)   *)
(* unwinds like a failed call; module Lifecycle tells their exit codes     *)
(* apart and lets the threads interleave.                                  *)
(***************************************************************************)
EXTENDS Naturals, Sequences, Functions

VARIABLES
  pc,          \* the next call
  args,        \* Args: huge_pages, zerocopy
  stack,       \* the objects in scope, in order of declaration
  bottom,      \* the objects below the locals of the function that is returning
  live,        \* the resources that exist
  sxdp_flags,  \* the mode flags of the last bind
  granted,     \* what the kernel gave: huge pages, bind mode, attach mode
  run,         \* RunSummary: hugetlb, zero_copy, native_xdp
  refused,     \* history: releases the kernel refused although asked correctly
  leaked       \* history: resources whose last handle was no object

vars == <<pc, args, stack, bottom, live, sxdp_flags, granted, run, refused, leaked>>
kernelvars == <<live, granted, refused>>
othervars  == <<args, sxdp_flags, run, leaked>>

Rings == <<"rx", "tx", "fill", "comp">>

\* Faulty form: the socket is closed before its rings are unmapped.
ReleaseOrderFdFirst ==
  <<"map_entry", "attach", "obj", "worker", "fd", "comp", "fill", "tx", "rx", "umem">>

\* The order in which destructors give resources back: XdpLoader::release,
\* ~jthread, the members of Xsk in reverse order, Umem::release.
ReleaseOrder ==
  <<"map_entry", "attach", "obj", "worker", "comp", "fill", "tx", "rx", "fd", "umem">>

Resources == Range(ReleaseOrder)

\* An object, the resources it has to release, and the mode it remembers.
Object(name, holds, mode) == [name |-> name, holds |-> holds, mode |-> mode]
Empty(name) == Object(name, {}, "none")

Init ==
  /\ pc = "setrlimit"
  /\ args \in [huge_pages : BOOLEAN, zerocopy : BOOLEAN]
  /\ stack = <<>> /\ bottom = 0 /\ live = {}
  /\ sxdp_flags = {}
  /\ granted = [huge |-> FALSE, bind |-> "none", attach |-> "none"]
  /\ run = [hugetlb |-> FALSE, zero_copy |-> FALSE, native_xdp |-> FALSE]
  /\ refused = {} /\ leaked = {}

-----------------------------------------------------------------------------
\* The object declared last, and those declared before it.
Last(s)  == s[Len(s)]
Front(s) == [i \in 1..(Len(s) - 1) |-> s[i]]

\* The first element of s that is in S.
FirstIn(s, S) == s[CHOOSE i \in DOMAIN s : s[i] \in S /\ \A j \in 1..(i - 1) : s[j] \notin S]

\* The resources that objects of the given names hold.
HeldBy(s, names) == UNION {o.holds : o \in {o \in Range(s) : o.name \in names}}

\* Faulty form: the source of a move keeps its handles.
HandOverKeepingSource(s, dst, src, mode) ==
  [k \in DOMAIN s |->
     IF s[k].name = dst
     THEN Object(dst, HeldBy(s, src), mode)
     ELSE s[k]]

\* Moves: dst, which has none, gets the handles of the objects src, and they
\* are left without (std::exchange).
HandOver(s, dst, src, mode) ==
  [k \in DOMAIN s |->
     CASE s[k].name = dst   -> Object(dst, HeldBy(s, src), mode)
       [] s[k].name \in src -> Empty(s[k].name)
       [] OTHER             -> s[k]]

ObjectNamed(s, name) == CHOOSE o \in Range(s) : o.name = name

\* The move of one object, with the mode it remembers.
Move(s, dst, src) == HandOver(s, dst, {src}, ObjectNamed(s, src).mode)

Fails == pc' = "unwinding" /\ UNCHANGED <<stack, bottom, kernelvars>>

\* A call that builds nothing.
Call(here, there) ==
  /\ pc = here
  /\ pc' \in {there, "unwinding"}
  /\ UNCHANGED <<stack, bottom, kernelvars, othervars>>

\* A call that, if it succeeds, builds resource r and leaves it with the
\* objects s.
Obtain(r, s, there) ==
  /\ live' = live \cup {r}
  /\ stack' = s
  /\ pc' = there

\* The call of a create function: main's result object, then its locals.
Entering(result, local) == stack \o <<Empty(result), local>>

\* return x: the result is move-constructed, then the locals are destroyed.
Return(s, x, result) == stack' = Move(s, result, x) /\ pc' = "returning"

-----------------------------------------------------------------------------
(***************************************************************************)
(* Umem::create                                                            *)
(***************************************************************************)
SetRlimit == Call("setrlimit", "mmap")

\* Huge pages if wanted, ordinary ones if there are none.  base is a raw
\* pointer: no destructor knows of it.
Mmap ==
  /\ pc = "mmap"
  /\ \/ \E huge \in {args.huge_pages, FALSE} :
          /\ Obtain("umem", Entering("umem_result",
                                     Object("base", {"umem"}, IF huge THEN "hugetlb" ELSE "none")),
                    "umem_log")
          /\ granted' = [granted EXCEPT !.huge = huge]
          /\ bottom' = Len(stack) + 1
          /\ UNCHANGED refused
     \/ Fails
  /\ UNCHANGED othervars

LogUmem == Call("umem_log", "mlock")

\* Faulty form: the mapping is forgotten.
MlockForgets ==
  /\ pc = "mlock"
  /\ \/ Return(Move(Append(stack, Empty("u")), "u", "base"), "u", "umem_result")
     \/ pc' = "unwinding" /\ stack' = Front(stack)
  /\ UNCHANGED <<bottom, kernelvars, othervars>>

\* Without mlock the mapping is given back by hand; otherwise u takes it over.
Mlock ==
  /\ pc = "mlock"
  /\ \/ /\ Return(Move(Append(stack, Empty("u")), "u", "base"), "u", "umem_result")
        /\ UNCHANGED live
     \/ /\ pc' = "unwinding" /\ stack' = Front(stack)
        /\ live' = live \ {"umem"}
  /\ UNCHANGED <<bottom, granted, refused, othervars>>

(***************************************************************************)
(* Xsk::create                                                             *)
(***************************************************************************)
Socket ==
  /\ pc = "socket"
  /\ \/ /\ Obtain("fd", Entering("xsk_result", Object("fd", {"fd"}, "none")), "ring_sizes")
        /\ bottom' = Len(stack) + 1
        /\ UNCHANGED <<granted, refused>>
     \/ Fails
  /\ UNCHANGED othervars

SetRingSizes   == Call("ring_sizes", "umem_reg")
RegisterUmem   == Call("umem_reg", "mmap_offsets")
GetMmapOffsets == Call("mmap_offsets", "map_rings")

\* MmapRing::create, four times.
MapRing ==
  /\ pc = "map_rings"
  /\ LET r == FirstIn(Rings, Range(Rings) \ live)
     IN  \/ /\ Obtain(r, Append(stack, Object(r, {r}, "none")),
                      IF r = "comp" THEN "ifindex" ELSE "map_rings")
            /\ UNCHANGED <<bottom, granted, refused>>
         \/ Fails
  /\ UNCHANGED othervars

FindInterface == Call("ifindex", "bind")

\* The kernel refuses a bind that asks for both modes.
Bind(flags, mode, there) ==
  /\ flags # {"zerocopy", "copy"}
  /\ granted' = [granted EXCEPT !.bind = mode]
  /\ pc' = there

\* Faulty form: the flag of the first attempt stays.
BindZeroCopyStays ==
  /\ pc = "bind"
  /\ IF args.zerocopy
     THEN /\ sxdp_flags' = {"zerocopy"}
          /\ \/ Bind({"zerocopy"}, "zero_copy", "busy_poll")
             \/ pc' \in {"bind_copy", "unwinding"} /\ UNCHANGED granted
     ELSE pc' = "bind_copy" /\ UNCHANGED <<granted, sxdp_flags>>
  /\ UNCHANGED <<stack, bottom, live, refused, args, run, leaked>>

\* The first attempt, if zero copy is wanted.
BindZeroCopy ==
  /\ pc = "bind"
  /\ IF args.zerocopy
     THEN \/ Bind({"zerocopy"}, "zero_copy", "busy_poll") /\ sxdp_flags' = {"zerocopy"}
          \/ pc' \in {"bind_copy", "unwinding"} /\ sxdp_flags' = {} /\ UNCHANGED granted
     ELSE pc' = "bind_copy" /\ UNCHANGED <<granted, sxdp_flags>>
  /\ UNCHANGED <<stack, bottom, live, refused, args, run, leaked>>

BindCopy ==
  /\ pc = "bind_copy"
  /\ sxdp_flags' = sxdp_flags \cup {"copy"}
  /\ \/ Bind(sxdp_flags', "copy", "busy_poll")
     \/ pc' = "unwinding" /\ UNCHANGED granted
  /\ UNCHANGED <<stack, bottom, live, refused, args, run, leaked>>

\* SO_PREFER_BUSY_POLL and its two companions.
SetBusyPoll == Call("busy_poll", "assemble")

\* The members of xsk are moved in and xsk is returned.
AssembleXsk ==
  /\ pc = "assemble"
  /\ LET mode == IF "zerocopy" \in sxdp_flags THEN "zero_copy" ELSE "none"
     IN  Return(HandOver(Append(stack, Empty("x")), "x", {"fd"} \cup Range(Rings), mode),
                "x", "xsk_result")
  /\ UNCHANGED <<bottom, kernelvars, othervars>>

(***************************************************************************)
(* XdpLoader::create                                                       *)
(***************************************************************************)
OpenObject ==
  /\ pc = "open"
  /\ \/ /\ Obtain("obj", Entering("loader_result", Object("l", {"obj"}, "none")), "load")
        /\ bottom' = Len(stack) + 1
        /\ UNCHANGED <<granted, refused>>
     \/ Fails
  /\ UNCHANGED othervars

LoadObject == Call("load", "map_update")

\* The local loader with one more thing to release.
WithLocal(r, mode) == Append(Front(stack), Object("l", Last(stack).holds \cup {r}, mode))

UpdateXsksMap ==
  /\ pc = "map_update"
  /\ \/ /\ Obtain("map_entry", WithLocal("map_entry", "none"), "filter_ip")
        /\ UNCHANGED <<bottom, granted, refused>>
     \/ Fails
  /\ UNCHANGED othervars

SetTargetIp == Call("filter_ip", "attach_drv")

\* ifindex_ and flags_ are set once bpf_xdp_attach has succeeded.
Attach(mode) ==
  /\ Obtain("attach", WithLocal("attach", mode), "attach_log")
  /\ granted' = [granted EXCEPT !.attach = mode]
  /\ UNCHANGED <<bottom, refused>>

AttachDrv ==
  /\ pc = "attach_drv"
  /\ \/ Attach("drv")
     \/ pc' \in {"attach_skb", "unwinding"} /\ UNCHANGED <<stack, bottom, kernelvars>>
  /\ UNCHANGED othervars

AttachSkb ==
  /\ pc = "attach_skb"
  /\ Attach("skb") \/ Fails
  /\ UNCHANGED othervars

LogAttach == Call("attach_log", "return_loader")

ReturnLoader ==
  /\ pc = "return_loader"
  /\ Return(stack, "l", "loader_result")
  /\ UNCHANGED <<bottom, kernelvars, othervars>>

-----------------------------------------------------------------------------
(***************************************************************************)
(* run_receiver                                                            *)
(***************************************************************************)
\* umem and xsk are move-constructed from the results; main asks them for
\* their modes.
TakeUmem ==
  /\ pc = "umem_result"
  /\ stack' = Move(Append(stack, Empty("umem")), "umem", "umem_result")
  /\ run' = [run EXCEPT !.hugetlb = (Last(stack').mode = "hugetlb")]
  /\ pc' = "socket"
  /\ UNCHANGED <<bottom, kernelvars, args, sxdp_flags, leaked>>

TakeXsk ==
  /\ pc = "xsk_result"
  /\ stack' = Move(Append(stack, Empty("xsk")), "xsk", "xsk_result")
  /\ run' = [run EXCEPT !.zero_copy = (Last(stack').mode = "zero_copy")]
  /\ pc' = "spawn"
  /\ UNCHANGED <<bottom, kernelvars, args, sxdp_flags, leaked>>

\* Faulty form: the worker is declared before the loader it outlives then.
SpawnWorkerFirst ==
  /\ pc = "spawn"
  /\ \/ /\ Obtain("worker", stack \o <<Object("poll_thread", {"worker"}, "none"), Empty("loader")>>,
                  "prepared")
        /\ UNCHANGED <<bottom, granted, refused>>
     \/ Fails
  /\ UNCHANGED othervars

\* "Declared before the worker": the empty loader, then the thread.
SpawnWorker ==
  /\ pc = "spawn"
  /\ \/ /\ Obtain("worker", stack \o <<Empty("loader"), Object("poll_thread", {"worker"}, "none")>>,
                  "prepared")
        /\ UNCHANGED <<bottom, granted, refused>>
     \/ Fails
  /\ UNCHANGED othervars

\* The worker is ready, or it failed, or a stop came.
WorkerPrepared == Call("prepared", "open")

EmplaceLoader ==
  /\ pc = "loader_result"
  /\ stack' = Move(stack, "loader", "loader_result")
  /\ run' = [run EXCEPT !.native_xdp = (ObjectNamed(stack', "loader").mode = "drv")]
  /\ pc' = "running"
  /\ UNCHANGED <<bottom, kernelvars, args, sxdp_flags, leaked>>

Running == Call("running", "stop_redirect")

\* Resource r of object o is given back; the kernel may refuse, and refuses to
\* detach a program in another mode than the one it was attached in.
GiveBack(r, o) ==
  \E ok \in BOOLEAN :
    /\ r \notin {"map_entry", "attach"} => ok
    /\ ok => r # "attach" \/ o.mode = granted.attach
    /\ live' = IF ok THEN live \ {r} ELSE live
    /\ refused' = IF ~ok /\ (r = "attach" => o.mode = granted.attach)
                   THEN refused \cup {r} ELSE refused

\* What main gives back itself, by name of the object: stop_redirect, join and
\* detach.  What the kernel refuses stays with the loader and is reported, and
\* the message may throw; a refused detach returns.
Explicitly(here, name, r, there) ==
  LET o == ObjectNamed(stack, name)
  IN  /\ pc = here
      /\ IF r \in o.holds
         THEN /\ GiveBack(r, o)
              /\ stack' = [k \in DOMAIN stack |->
                             IF stack[k].name = name /\ r \notin live'
                             THEN Object(name, o.holds \ {r}, o.mode) ELSE stack[k]]
         ELSE UNCHANGED <<stack, live, refused>>
      /\ pc' = there \/ (r \in live' /\ pc' = "unwinding")
      /\ UNCHANGED <<bottom, granted, othervars>>

StopRedirect == Explicitly("stop_redirect", "loader", "map_entry", "join")
JoinWorker   == Explicitly("join", "poll_thread", "worker", "drain")
\* The drain changes nothing here, but its message may throw.
Drain        == Call("drain", "detach")
Detach       == Explicitly("detach", "loader", "attach", "unwinding")

-----------------------------------------------------------------------------
(***************************************************************************)
(* Destructors.                                                            *)
(***************************************************************************)
\* The object declared last is destroyed: it gives back what it holds, one
\* resource after the other, and is gone.  Failures are ignored.
DestroyLast(down_to, there) ==
  IF Len(stack) = down_to
  THEN pc' = there /\ UNCHANGED <<stack, kernelvars, leaked>>
  ELSE LET o == Last(stack)
           r == FirstIn(ReleaseOrder, o.holds)
       IN  /\ UNCHANGED <<pc, granted>>
           /\ IF o.holds = {} \/ o.name = "base"
              THEN /\ stack' = Front(stack)
                   /\ leaked' = leaked \cup o.holds
                   /\ UNCHANGED <<live, refused>>
              ELSE /\ GiveBack(r, o)
                   /\ stack' = Append(Front(stack), Object(o.name, o.holds \ {r}, o.mode))
                   /\ UNCHANGED leaked

\* The locals of a create function that succeeded.
Returning ==
  /\ pc = "returning"
  /\ DestroyLast(bottom, stack[bottom].name)
  /\ UNCHANGED <<bottom, args, sxdp_flags, run>>

Unwinding ==
  /\ pc = "unwinding"
  /\ DestroyLast(0, "exited")
  /\ UNCHANGED <<bottom, args, sxdp_flags, run>>

Exited == pc = "exited" /\ UNCHANGED vars

Next ==
  \/ SetRlimit \/ Mmap \/ LogUmem \/ Mlock
  \/ Socket \/ SetRingSizes \/ RegisterUmem \/ GetMmapOffsets \/ MapRing \/ FindInterface
  \/ BindZeroCopy \/ BindCopy \/ SetBusyPoll \/ AssembleXsk
  \/ OpenObject \/ LoadObject \/ UpdateXsksMap \/ SetTargetIp
  \/ AttachDrv \/ AttachSkb \/ LogAttach \/ ReturnLoader
  \/ TakeUmem \/ TakeXsk \/ SpawnWorker \/ WorkerPrepared \/ EmplaceLoader
  \/ Running \/ StopRedirect \/ JoinWorker \/ Drain \/ Detach
  \/ Returning \/ Unwinding \/ Exited

Spec == Init /\ [][Next]_vars

-----------------------------------------------------------------------------
(***************************************************************************)
(* Properties.                                                             *)
(***************************************************************************)
\* No handle is stale and none is doubled: what an object will release exists
\* and is no other object's, through every move, every early return and every
\* destructor of a moved-from object.
OneOwnerPerResource ==
  /\ \A k \in DOMAIN stack : stack[k].holds \subseteq live
  /\ \A j, k \in DOMAIN stack : j # k => stack[j].holds \cap stack[k].holds = {}

\* Whichever call fails, everything built before it is given back, but for
\* what the kernel refused to take back and for the UMEM mapping if logging
\* its allocation throws (umem.hpp:107): the only moment a resource is held by
\* a raw pointer alone.
NothingLeaks ==
  pc = "exited" => live \subseteq refused \cup leaked /\ leaked \subseteq {"umem"}

\* What uses something goes before it: the worker before the rings, the
\* socket and the UMEM it works on ("exceptional exits join it before loader
\* cleanup", main.cpp:386), the rings before the socket, the socket before the
\* UMEM registered with it, and a redirection the kernel would let go before
\* the socket it leads to.
LifetimesNest ==
  /\ "worker" \in live => {"fd", "umem"} \cup Range(Rings) \subseteq live
  /\ live \cap Range(Rings) # {} => "fd" \in live
  /\ "fd" \in live => "umem" \in live
  /\ "map_entry" \in live \ refused => "fd" \in live
  /\ "attach" \in live \ refused => {"fd", "umem", "obj"} \subseteq live

\* The hooks of a complete loader go only after the worker.
WorkerGoesBeforeLoader ==
  [][pc = "unwinding" /\ "attach" \in live \ live' /\ ObjectNamed(stack, "loader").holds # {}
     => "worker" \notin live]_vars

\* The modes in run_metadata.txt are the ones the kernel granted, whichever
\* fallback was taken, and no bind asks for both modes.
ModesAreTheGrantedOnes ==
  /\ sxdp_flags # {"zerocopy", "copy"}
  /\ pc \in {"running", "stop_redirect", "join", "drain", "detach"} =>
       /\ run.hugetlb = granted.huge
       /\ run.zero_copy = (granted.bind = "zero_copy")
       /\ run.native_xdp = (granted.attach = "drv")
=============================================================================
