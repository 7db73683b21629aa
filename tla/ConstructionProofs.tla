------------------------- MODULE ConstructionProofs -------------------------
(***************************************************************************)
(* Whatever call fails and wherever an exception starts to unwind, every   *)
(* resource has one owner, is given back, and goes after what uses it.     *)
(* The lemmas about stacks of objects are stated for any stack s, so that  *)
(* they apply before and after a step.                                     *)
(***************************************************************************)
EXTENDS Construction, TLAPS

\* Most leaves need no arithmetic: Zenon proves them, and the others name SMT.
USE ZenonT(30)

Modes == {"none", "hugetlb", "zero_copy", "drv", "skb"}

\* Every object there is, in the order of declaration: the name of an object
\* and its place among the others.
Rank(name) ==
  CASE name = "umem_result" -> 1 [] name = "base"        -> 2
    [] name = "u"           -> 3 [] name = "umem"        -> 4
    [] name = "xsk_result"  -> 5 [] name = "fd"          -> 6
    [] name = "rx"          -> 7 [] name = "tx"          -> 8
    [] name = "fill"        -> 9 [] name = "comp"        -> 10
    [] name = "x"           -> 11 [] name = "xsk"        -> 12
    [] name = "loader"      -> 13 [] name = "poll_thread" -> 14
    [] name = "loader_result" -> 15 [] name = "l"        -> 16

Names == {"umem_result", "base", "u", "umem", "xsk_result", "fd", "rx", "tx", "fill", "comp",
          "x", "xsk", "loader", "poll_thread", "loader_result", "l"}

Objects == [name : Names, holds : SUBSET Resources, mode : Modes]

\* The calls inside each create function, the points at which its result is
\* complete, and the points from the complete loader to the last destructor.
InUmem   == {"umem_log", "mlock"}
InXsk    == {"ring_sizes", "umem_reg", "mmap_offsets", "map_rings",
             "ifindex", "bind", "bind_copy", "busy_poll", "assemble"}
InLoader == {"load", "map_update", "filter_ip", "attach_drv", "attach_skb",
             "attach_log", "return_loader"}
Results  == {"umem_result", "xsk_result", "loader_result"}
Closing  == {"running", "stop_redirect", "join", "drain", "detach"}
Points   == {"setrlimit", "mmap", "socket", "spawn", "prepared", "open"}
              \cup InUmem \cup InXsk \cup InLoader \cup Results \cup Closing

\* What becomes the members of the Xsk object.
XskParts == {"fd", "rx", "tx", "fill", "comp"}

\* The object that owns resource r at point p.
UmemOwner(p) ==
  IF p \in InUmem THEN "base" ELSE IF p = "umem_result" THEN "umem_result" ELSE "umem"
XskOwner(p, r) ==
  IF p \in InXsk THEN r ELSE IF p = "xsk_result" THEN "xsk_result" ELSE "xsk"
LoaderOwner(p) ==
  IF p \in InLoader THEN "l" ELSE IF p = "loader_result" THEN "loader_result" ELSE "loader"
OwnerAt(p, r) ==
  IF r = "umem" THEN UmemOwner(p)
  ELSE IF r \in XskParts THEN XskOwner(p, r)
  ELSE IF r = "worker" THEN "poll_thread" ELSE LoaderOwner(p)
Owners(p) == [r \in Resources |-> OwnerAt(p, r)]

\* What exists at point p.
LiveAt(p, lv) ==
  /\ p \in {"setrlimit", "mmap"} => lv = {}
  /\ p \in InUmem \cup {"umem_result", "socket"} => lv = {"umem"}
  /\ p \in {"ring_sizes", "umem_reg", "mmap_offsets"} => lv = {"umem", "fd"}
  /\ p = "map_rings" => /\ {"umem", "fd"} \subseteq lv
                        /\ lv \subseteq {"umem", "fd", "rx", "tx", "fill"}
                        /\ "fill" \in lv => "tx" \in lv
                        /\ "tx" \in lv => "rx" \in lv
  /\ p \in {"ifindex", "bind", "bind_copy", "busy_poll", "assemble", "xsk_result", "spawn"} =>
       lv = {"umem"} \cup XskParts
  /\ p \in {"prepared", "open"} => lv = {"umem", "worker"} \cup XskParts
  /\ p \in {"load", "map_update"} => lv = {"umem", "worker", "obj"} \cup XskParts
  /\ p \in {"filter_ip", "attach_drv", "attach_skb"} => lv = Resources \ {"attach"}
  /\ p \in {"attach_log", "return_loader", "loader_result", "running", "stop_redirect"} =>
       lv = Resources
  /\ p = "join" => Resources \ {"map_entry"} \subseteq lv
  /\ p \in {"drain", "detach"} => Resources \ {"map_entry", "worker"} \subseteq lv

\* The object declared last while the rings are mapped.
LastRing(lv) ==
  IF "fill" \in lv THEN "fill" ELSE IF "tx" \in lv THEN "tx"
  ELSE IF "rx" \in lv THEN "rx" ELSE "fd"

\* The object declared last at point p.
LastAt(p, lv) ==
  CASE p \in InUmem                      -> "base"
    [] p = "umem_result"                 -> "umem_result"
    [] p = "socket"                      -> "umem"
    [] p \in {"ring_sizes", "umem_reg", "mmap_offsets"} -> "fd"
    [] p = "map_rings"                   -> LastRing(lv)
    [] p \in {"ifindex", "bind", "bind_copy", "busy_poll", "assemble"} -> "comp"
    [] p = "xsk_result"                  -> "xsk_result"
    [] p = "spawn"                       -> "xsk"
    [] p \in {"prepared", "open"}        -> "poll_thread"
    [] p \in InLoader                    -> "l"
    [] p \in {"loader_result"} \cup Closing -> "loader_result"

\* The resources that must exist as long as a does.
Uses(a) ==
  CASE a = "worker"    -> {"umem", "fd", "rx", "tx", "fill", "comp"}
    [] a \in {"rx", "tx", "fill", "comp"} -> {"fd"}
    [] a = "fd"        -> {"umem"}
    [] a = "map_entry" -> {"fd"}
    [] a = "attach"    -> {"fd", "umem", "obj"}
    [] OTHER           -> {}

-----------------------------------------------------------------------------
(***************************************************************************)
(* What holds of a stack s of objects, of the resources lv that exist, of  *)
(* an assignment own of owners to resources and of the modes g the kernel  *)
(* granted.                                                                *)
(***************************************************************************)
\* Objects are in the order of their declaration, each at most once.
Sorted(s) == \A j, k \in DOMAIN s : j < k => Rank(s[j].name) < Rank(s[k].name)

\* Every resource is in its owner's hands and in nobody else's.
Arranged(s, lv, own) ==
  /\ \A k \in DOMAIN s : s[k].holds = {r \in lv : own[r] = s[k].name}
  /\ \A r \in lv : \E k \in DOMAIN s : s[k].name = own[r]

\* own2 is own after dst, which owned nothing, took what the objects src owned.
HandsOn(lv, own, own2, dst, src) ==
  \A r \in lv : own[r] # dst /\ own2[r] = IF own[r] \in src THEN dst ELSE own[r]

\* o owns r and nothing else.
OwnsOnly(o, r) == o.holds = {r}

\* t declares an empty object a and o after the objects of s.
Declares(t, s, a, o) == t = s \o <<Empty(a), o>>

\* t is s after a move, or after the declaration of an empty object.
Moves(t, s, a, b)              == t = Move(s, s[a].name, s[b].name)
HandsOver(t, s, dst, src, mode) == t = HandOver(s, dst, src, mode)
Pushes(t, s, name)             == t = Append(s, Empty(name))

\* What a move leaves: the object at a has what the one at b had.
Transferred(t, s, a, b) ==
  /\ DOMAIN t = DOMAIN s
  /\ \A k \in DOMAIN s : t[k].name = s[k].name
  /\ t[a].mode = s[b].mode /\ t[a].holds = s[b].holds /\ t[b].holds = {}
  /\ \A k \in DOMAIN s : k \notin {a, b} => t[k] = s[k]

\* What the destructor of the last object of s gives back next, and t is s
\* afterwards.
FirstOf(r, S)     == r = FirstIn(ReleaseOrder, S)
Unused(r, S)      == r \in S /\ \A a \in S : r \notin Uses(a)
Releases(t, s, r) == t = Append(Front(s), Object(Last(s).name, Last(s).holds \ {r}, Last(s).mode))
Spent(lv2, lv, r) == lv2 = lv \/ lv2 = lv \ {r}

\* The owners of what exists are the same.
SameOwners(lv, own, own2) == \A r \in lv : own2[r] = own[r]

\* An object of this name may be declared after those of s.
Follows(name, s) == Len(s) > 0 => Rank(Last(s).name) < Rank(name)

\* An object of this name is in scope.
Has(s, name) == \E k \in DOMAIN s : s[k].name = name

\* No handle is stale or doubled.
OneOwner(s, lv) ==
  /\ \A k \in DOMAIN s : s[k].holds \subseteq lv
  /\ \A j, k \in DOMAIN s : j # k => s[j].holds \cap s[k].holds = {}

\* What is due to be given back is in some object's hands.
Covered(s, due) == \A r \in due : \E k \in DOMAIN s : r \in s[k].holds

\* What a resource uses belongs to the same object or to one declared before.
Supported(s) ==
  \A k \in DOMAIN s : \A a \in s[k].holds : \A b \in Uses(a) : \E j \in 1..k : b \in s[j].holds

\* A raw pointer holds the UMEM only, the thread object alone holds the
\* worker, and a loader that holds anything is the one that is attached.
Placed(s) ==
  /\ \A k \in DOMAIN s : s[k].name = "base" => s[k].holds \subseteq {"umem"}
  /\ \A k \in DOMAIN s : "worker" \in s[k].holds => s[k].name = "poll_thread"
  /\ \A j, k \in DOMAIN s :
       "attach" \in s[k].holds /\ s[j].name = "loader" /\ s[j].holds # {} => j = k
  /\ \A k \in DOMAIN s : "attach" \in s[k].holds => \E j \in 1..k : s[j].name = "loader"

\* An owner remembers the mode the kernel granted.
Remembered(s, g) ==
  \A k \in DOMAIN s :
    /\ "umem" \in s[k].holds => (s[k].mode = "hugetlb" <=> g.huge)
    /\ "fd" \in s[k].holds /\ s[k].name # "fd" => (s[k].mode = "zero_copy" <=> g.bind = "zero_copy")
    /\ "attach" \in s[k].holds => s[k].mode = g.attach

\* What every destructor keeps.
GoodStack(s, lv, due, g) ==
  /\ Sorted(s) /\ OneOwner(s, lv) /\ Covered(s, due)
  /\ Supported(s) /\ Placed(s) /\ Remembered(s, g)

Good ==
  /\ GoodStack(stack, live, live \ (refused \cup leaked), granted)
  /\ leaked \subseteq {"umem"}

\* The point the program is at, or is returning to.
Point == IF pc = "returning" THEN stack[bottom].name ELSE pc

\* The result object of the function, and main's empty loader, are in scope.
Expected(p) ==
  /\ p \in InUmem   => bottom \in DOMAIN stack /\ stack[bottom].name = "umem_result"
  /\ p \in InXsk    => bottom \in DOMAIN stack /\ stack[bottom].name = "xsk_result"
  /\ p \in InLoader => bottom \in DOMAIN stack /\ stack[bottom].name = "loader_result"
  /\ p \in {"prepared", "open", "loader_result"} \cup InLoader =>
       Has(stack, "loader")

\* The object declared last.
Topmost(p) ==
  IF p \in {"setrlimit", "mmap"} THEN stack = <<>>
  ELSE Len(stack) > 0 /\ Last(stack).name = LastAt(p, live)

\* What main and bind have recorded of the modes so far is what was granted.
Recorded(p) ==
  /\ p \in {"setrlimit", "mmap", "umem_result", "socket"} \cup InUmem
             \cup (InXsk \ {"busy_poll", "assemble"}) => sxdp_flags = {}
  /\ p \in {"busy_poll", "assemble"} =>
       ("zerocopy" \in sxdp_flags <=> granted.bind = "zero_copy")
  /\ p \notin {"setrlimit", "mmap", "umem_result"} \cup InUmem => run.hugetlb = granted.huge
  /\ p \in {"spawn", "prepared", "open", "loader_result"} \cup InLoader \cup Closing =>
       run.zero_copy = (granted.bind = "zero_copy")
  /\ p \in Closing => run.native_xdp = (granted.attach = "drv")

\* What holds at point p until something fails.
AtPoint(p) ==
  Arranged(stack, live, Owners(p)) /\ LiveAt(p, live) /\ Expected(p) /\ Recorded(p)

Grants == [huge : BOOLEAN, bind : {"none", "zero_copy", "copy"}, attach : {"none", "drv", "skb"}]
RunModes == [hugetlb : BOOLEAN, zero_copy : BOOLEAN, native_xdp : BOOLEAN]

TypeOK ==
  /\ pc \in Points \cup {"returning", "unwinding", "exited"}
  /\ stack \in Seq(Objects) /\ bottom \in Nat /\ live \in SUBSET Resources
  /\ granted \in Grants /\ run \in RunModes
  /\ sxdp_flags \in {{}, {"zerocopy"}, {"copy"}}
  /\ args \in [huge_pages : BOOLEAN, zerocopy : BOOLEAN]

\* The inductive invariant.  On the way forward the owner of every resource is
\* known from the point the program is at; on the way back only GoodStack is
\* left of that, and it is what the destructors keep.
IInv ==
  /\ TypeOK
  /\ Good
  /\ pc = "returning" => bottom \in DOMAIN stack /\ stack[bottom].name \in Results
  /\ pc \in Points \cup {"returning"} => AtPoint(Point)
  /\ pc \in Points => Topmost(pc)
  /\ pc = "exited" => stack = <<>>

-----------------------------------------------------------------------------
\* The resources, listed.
LEMMA ResourcesAre ==
  Resources = {"map_entry", "attach", "obj", "worker", "comp", "fill", "tx", "rx", "fd", "umem"}
BY SMTT(30) DEF Resources, Range, ReleaseOrder

\* The rings, listed.
LEMMA RingsAre == Range(Rings) = {"rx", "tx", "fill", "comp"}
BY SMTT(30) DEF Range, Rings

\* The places of the objects in the order of declaration.
LEMMA Ranks ==
  /\ Rank("umem_result") = 1 /\ Rank("base") = 2 /\ Rank("u") = 3 /\ Rank("umem") = 4
  /\ Rank("xsk_result") = 5 /\ Rank("fd") = 6 /\ Rank("rx") = 7 /\ Rank("tx") = 8
  /\ Rank("fill") = 9 /\ Rank("comp") = 10 /\ Rank("x") = 11 /\ Rank("xsk") = 12
  /\ Rank("loader") = 13 /\ Rank("poll_thread") = 14 /\ Rank("loader_result") = 15
  /\ Rank("l") = 16
BY DEF Rank

\* Every object has a place.
LEMMA RankIsNat == \A n \in Names : Rank(n) \in Nat
BY SMTT(30), Ranks DEF Names

\* The parts of an object on a stack.
LEMMA ObjectIs ==
  ASSUME NEW s \in Seq(Objects), NEW k \in DOMAIN s
  PROVE  /\ k \in Nat /\ s[k] \in Objects
         /\ s[k].name \in Names /\ s[k].holds \subseteq Resources /\ s[k].mode \in Modes
         /\ Rank(s[k].name) \in Nat
<1>1. k \in Nat /\ s[k] \in Objects
  BY SMTT(30)
<1>2. s[k].name \in Names /\ s[k].holds \subseteq Resources /\ s[k].mode \in Modes
  BY <1>1 DEF Objects
<1> QED BY <1>1, <1>2, RankIsNat

\* Of an ordered stack, no two objects have the same name.
LEMMA OneOfAName ==
  ASSUME NEW s \in Seq(Objects), Sorted(s),
         NEW j \in DOMAIN s, NEW k \in DOMAIN s, s[j].name = s[k].name
  PROVE  j = k
<1>1. j \in Nat /\ k \in Nat /\ Rank(s[j].name) \in Nat
  BY ObjectIs
<1> QED BY SMTT(30), <1>1 DEF Sorted

\* ObjectNamed finds the object of that name.
LEMMA TheNamed ==
  ASSUME NEW s \in Seq(Objects), Sorted(s), NEW k \in DOMAIN s
  PROVE  ObjectNamed(s, s[k].name) = s[k]
<1>1. \A o \in Range(s) : o.name = s[k].name => o = s[k]
  BY OneOfAName DEF Range
<1>2. s[k] \in Range(s)
  BY DEF Range
<1> QED BY <1>1, <1>2 DEF ObjectNamed

\* Declaring an object after the others keeps the order and its name is new.
LEMMA PushSorted ==
  ASSUME NEW s \in Seq(Objects), NEW o \in Objects, Sorted(s),
         Follows(o.name, s)
  PROVE  /\ Append(s, o) \in Seq(Objects)
         /\ Sorted(Append(s, o))
         /\ \A k \in DOMAIN s : s[k].name # o.name
<1>1. \A k \in DOMAIN s : Rank(s[k].name) < Rank(o.name)
  <2> TAKE k \in DOMAIN s
  <2>1. /\ Len(s) \in Nat /\ k \in 1..Len(s) /\ Len(s) > 0 /\ Len(s) \in DOMAIN s
        /\ s[k] \in Objects /\ s[Len(s)] \in Objects
    BY SMTT(30)
  <2>2. Rank(s[k].name) \in Nat /\ Rank(s[Len(s)].name) \in Nat /\ Rank(o.name) \in Nat
    BY <2>1, RankIsNat DEF Objects
  <2>3. Rank(s[Len(s)].name) < Rank(o.name)
    BY <2>1 DEF Follows, Last
  <2>4. k # Len(s) => Rank(s[k].name) < Rank(s[Len(s)].name)
    BY SMTT(30), <2>1 DEF Sorted
  <2> QED BY SMTT(30), <2>2, <2>3, <2>4
<1>2. \A k \in DOMAIN s : s[k].name # o.name
  <2> TAKE k \in DOMAIN s
  <2>1. Rank(o.name) \in Nat
    BY RankIsNat DEF Objects
  <2> QED BY SMTT(30), <1>1, <2>1
<1>3. Sorted(Append(s, o))
  <2> SUFFICES ASSUME NEW j \in DOMAIN Append(s, o), NEW k \in DOMAIN Append(s, o), j < k
               PROVE  Rank(Append(s, o)[j].name) < Rank(Append(s, o)[k].name)
    BY DEF Sorted
  <2>1. j \in DOMAIN s /\ Append(s, o)[j] = s[j]
    BY SMTT(30)
  <2>2. CASE k \in DOMAIN s
    BY SMTT(30), <2>1, <2>2 DEF Sorted
  <2>3. CASE k = Len(s) + 1
    BY SMTT(30), <1>1, <2>1, <2>3
  <2> QED BY SMTT(30), <2>2, <2>3
<1> QED BY SMTT(30), <1>2, <1>3

\* Destroying the last object leaves the others as they were.
LEMMA PopSorted ==
  ASSUME NEW s \in Seq(Objects), Sorted(s), Len(s) > 0
  PROVE  /\ Front(s) \in Seq(Objects) /\ Len(Front(s)) = Len(s) - 1
         /\ DOMAIN Front(s) = 1..(Len(s) - 1)
         /\ \A k \in 1..(Len(s) - 1) : Front(s)[k] = s[k]
         /\ Sorted(Front(s))
<1>1. /\ Front(s) \in Seq(Objects) /\ Len(Front(s)) = Len(s) - 1
      /\ DOMAIN Front(s) = 1..(Len(s) - 1)
      /\ \A k \in 1..(Len(s) - 1) : Front(s)[k] = s[k]
  <2>1. Len(s) \in Nat /\ Len(s) - 1 \in Nat /\ \A k \in 1..(Len(s) - 1) : s[k] \in Objects
    BY SMTT(30)
  <2>2. Front(s) \in [1..(Len(s) - 1) -> Objects] /\ \A k \in 1..(Len(s) - 1) : Front(s)[k] = s[k]
    BY <2>1 DEF Front
  <2>3. Front(s) \in Seq(Objects) /\ Len(Front(s)) = Len(s) - 1
    BY SMTT(30), <2>1, <2>2
  <2> QED BY <2>2, <2>3
<1>2. Sorted(Front(s))
  BY SMTT(30), <1>1 DEF Sorted
<1> QED BY <1>1, <1>2

\* What a move does to each object: the target gets everything, the sources are
\* left empty, the others stay.
LEMMA HandOverEffect ==
  ASSUME NEW s \in Seq(Objects), NEW dst \in Names, NEW src \in SUBSET Names, dst \notin src,
         NEW m \in Modes, NEW t, HandsOver(t, s, dst, src, m)
  PROVE  /\ t \in Seq(Objects) /\ Len(t) = Len(s) /\ DOMAIN t = DOMAIN s
         /\ \A k \in DOMAIN s :
              /\ t[k].name = s[k].name
              /\ s[k].name = dst => t[k] = Object(dst, HeldBy(s, src), m)
              /\ s[k].name \in src => t[k].holds = {}
              /\ s[k].name \notin src \cup {dst} => t[k] = s[k]
         /\ Sorted(s) => Sorted(t)
<1>1. HeldBy(s, src) \subseteq Resources
  <2>1. \A k \in DOMAIN s : s[k].holds \subseteq Resources
    BY ObjectIs
  <2> QED BY <2>1 DEF HeldBy, Range
<1>2. DOMAIN t = DOMAIN s
  BY DEF HandsOver, HandOver
<1>3. ASSUME NEW k \in DOMAIN s
      PROVE  /\ t[k] \in Objects
             /\ t[k].name = s[k].name
             /\ s[k].name = dst => t[k] = Object(dst, HeldBy(s, src), m)
             /\ s[k].name \in src => t[k].holds = {}
             /\ s[k].name \notin src \cup {dst} => t[k] = s[k]
  <2>1. s[k] \in Objects
    BY SMTT(30)
  <2>2. CASE s[k].name = dst
    <3>1. t[k] = Object(dst, HeldBy(s, src), m)
      BY <2>2 DEF HandsOver, HandOver
    <3> QED BY SMTT(30), <1>1, <2>2, <3>1 DEF Objects, Object
  <2>3. CASE s[k].name \in src
    <3>1. t[k] = Empty(s[k].name)
      BY <2>3 DEF HandsOver, HandOver
    <3> QED BY SMTT(30), <2>1, <2>3, <3>1 DEF Objects, Object, Empty, Modes
  <2>4. CASE s[k].name \notin src \cup {dst}
    <3>1. t[k] = s[k]
      BY <2>4 DEF HandsOver, HandOver
    <3> QED BY <2>1, <2>4, <3>1
  <2> QED BY <2>2, <2>3, <2>4
<1>4. t \in Seq(Objects) /\ Len(t) = Len(s)
  <2>1. t = [k \in 1..Len(s) |-> t[k]]
    BY SMTT(30) DEF HandsOver, HandOver
  <2>2. \A k \in 1..Len(s) : t[k] \in Objects
    BY SMTT(30), <1>3
  <2> QED BY SMTT(30), <2>1, <2>2
<1>5. Sorted(s) => Sorted(t)
  BY <1>2, <1>3 DEF Sorted
<1> QED BY <1>2, <1>3, <1>4, <1>5

\* What objects hold together is what is assigned to them.
LEMMA HeldByOwners ==
  ASSUME NEW s, NEW src, NEW lv, NEW own, Arranged(s, lv, own)
  PROVE  \A r : r \in HeldBy(s, src) <=> r \in lv /\ own[r] \in src
<1>1. \A r : r \in HeldBy(s, src) <=> \E k \in DOMAIN s : s[k].name \in src /\ r \in s[k].holds
  BY DEF HeldBy, Range
<1> QED BY SMTT(30), <1>1 DEF Arranged

\* A move gives every resource its new owner.
LEMMA HandOverArranged ==
  ASSUME NEW s \in Seq(Objects), NEW dst \in Names, NEW src \in SUBSET Names, dst \notin src,
         NEW m \in Modes, NEW lv \in SUBSET Resources, NEW own, NEW own2,
         Arranged(s, lv, own),
         HandsOn(lv, own, own2, dst, src), Has(s, dst)
  PROVE  Arranged(HandOver(s, dst, src, m), lv, own2)
<1> DEFINE t == HandOver(s, dst, src, m)
<1>1. \A r : r \in HeldBy(s, src) <=> r \in lv /\ own[r] \in src
  BY HeldByOwners
<1>2. /\ DOMAIN t = DOMAIN s
      /\ \A k \in DOMAIN s :
           /\ t[k].name = s[k].name
           /\ s[k].name = dst => t[k].holds = HeldBy(s, src)
           /\ s[k].name \in src => t[k].holds = {}
           /\ s[k].name \notin src \cup {dst} => t[k].holds = s[k].holds
  <2>1. /\ DOMAIN t = DOMAIN s
        /\ \A k \in DOMAIN s :
             /\ t[k].name = s[k].name
             /\ s[k].name = dst => t[k] = Object(dst, HeldBy(s, src), m)
             /\ s[k].name \in src => t[k].holds = {}
             /\ s[k].name \notin src \cup {dst} => t[k] = s[k]
    BY SMTT(30), HandOverEffect DEF HandsOver
  <2>2. Object(dst, HeldBy(s, src), m).holds = HeldBy(s, src)
    BY DEF Object
  <2> HIDE DEF t
  <2> QED BY <2>1, <2>2
<1> HIDE DEF t
<1>3. \A k \in DOMAIN t : t[k].holds = {r \in lv : own2[r] = t[k].name}
  <2> TAKE k \in DOMAIN t
  <2>1. CASE s[k].name = dst
    BY SMTT(30), <1>1, <1>2, <2>1 DEF HandsOn
  <2>2. CASE s[k].name \in src
    BY SMTT(30), <1>2, <2>2 DEF HandsOn
  <2>3. CASE s[k].name \notin src \cup {dst}
    BY SMTT(30), <1>2, <2>3 DEF Arranged, HandsOn
  <2> QED BY <2>1, <2>2, <2>3
<1>4. \A r \in lv : \E k \in DOMAIN t : t[k].name = own2[r]
  BY SMTT(30), <1>2 DEF Arranged, HandsOn, Has
<1> QED BY <1>3, <1>4 DEF Arranged, t

\* Declaring an empty object changes no owner.
LEMMA PushArranged ==
  ASSUME NEW s \in Seq(Objects), NEW o \in Objects, NEW lv \in SUBSET Resources, NEW own,
         Arranged(s, lv, own), o.holds = {}, \A r \in lv : own[r] # o.name
  PROVE  Arranged(Append(s, o), lv, own)
<1>1. /\ DOMAIN Append(s, o) = 1..(Len(s) + 1) /\ DOMAIN s = 1..Len(s)
      /\ \A k \in DOMAIN s : Append(s, o)[k] = s[k]
      /\ Append(s, o)[Len(s) + 1] = o
  BY SMTT(30)
<1> QED BY SMTT(30), <1>1 DEF Arranged

\* A new resource in the hands of a new object.
LEMMA ObtainArranged ==
  ASSUME NEW s \in Seq(Objects), NEW o \in Objects, NEW lv \in SUBSET Resources,
         NEW r \in Resources, NEW own, NEW own2,
         Arranged(s, lv, own), o.holds = {r},
         \A k \in DOMAIN s : s[k].name # o.name,
         r \notin lv, own2[r] = o.name, SameOwners(lv, own, own2)
  PROVE  Arranged(Append(s, o), lv \cup {r}, own2)
<1>1. /\ DOMAIN Append(s, o) = 1..(Len(s) + 1) /\ DOMAIN s = 1..Len(s)
      /\ \A k \in DOMAIN s : Append(s, o)[k] = s[k]
      /\ Append(s, o)[Len(s) + 1] = o
      /\ \A k \in DOMAIN Append(s, o) : k \in DOMAIN s \/ k = Len(s) + 1
  BY SMTT(30)
<1> DEFINE t == Append(s, o)
<1> HIDE DEF t
<1>2. \A q \in lv : \E k \in DOMAIN s : s[k].name = own[q]
  BY DEF Arranged
<1>3. \A k \in DOMAIN t : t[k].holds = {q \in lv \cup {r} : own2[q] = t[k].name}
  <2> TAKE k \in DOMAIN t
  <2>1. CASE k \in DOMAIN s
    BY SMTT(30), <1>1, <2>1 DEF Arranged, SameOwners, t
  <2>2. CASE k = Len(s) + 1
    BY SMTT(30), <1>1, <1>2, <2>2 DEF SameOwners, t
  <2> QED BY <1>1, <2>1, <2>2 DEF t
<1>4. \A q \in lv \cup {r} : \E k \in DOMAIN t : t[k].name = own2[q]
  BY SMTT(30), <1>1, <1>2 DEF SameOwners, t
<1> QED BY <1>3, <1>4 DEF Arranged, t

-----------------------------------------------------------------------------
\* Owners are objects.
LEMMA OwnerIsName == \A p : \A r \in Resources : OwnerAt(p, r) \in Names
BY SMTT(30), ResourcesAre DEF OwnerAt, UmemOwner, XskOwner, LoaderOwner, Names, XskParts

\* At every point the owner of what a resource uses is declared no later than the
\* owner of that resource.
LEMMA OwnersInOrder ==
  ASSUME NEW p, NEW a \in Resources, NEW b \in Uses(a)
  PROVE  b \in Resources /\ Rank(OwnerAt(p, b)) =< Rank(OwnerAt(p, a))
<1>1. CASE a = "worker"
  <2>1. b \in {"umem"} \cup XskParts
    BY <1>1 DEF Uses, XskParts
  <2>2. OwnerAt(p, a) = "poll_thread"
    BY <1>1 DEF OwnerAt, XskParts
  <2>3. OwnerAt(p, b) \in {"base", "umem_result", "umem", "xsk_result", "xsk"} \cup XskParts
    BY <2>1 DEF OwnerAt, UmemOwner, XskOwner
  <2> QED BY SMTT(30), <2>1, <2>2, <2>3, Ranks, ResourcesAre DEF XskParts
<1>2. CASE a \in {"rx", "tx", "fill", "comp"}
  <2>1. b = "fd"
    BY <1>2 DEF Uses
  <2>2. \/ OwnerAt(p, a) = a /\ OwnerAt(p, b) = b
        \/ OwnerAt(p, a) = OwnerAt(p, b) /\ OwnerAt(p, b) \in Names
    BY <1>2, <2>1, OwnerIsName, ResourcesAre DEF OwnerAt, XskOwner, XskParts
  <2>3. CASE OwnerAt(p, a) = a /\ OwnerAt(p, b) = b
    BY SMTT(30), <1>2, <2>1, <2>3, Ranks, ResourcesAre
  <2>4. CASE OwnerAt(p, a) = OwnerAt(p, b) /\ OwnerAt(p, b) \in Names
    BY SMTT(30), <2>1, <2>4, RankIsNat, ResourcesAre
  <2> QED BY <2>2, <2>3, <2>4
<1>3. CASE a = "fd"
  <2>1. b = "umem"
    BY <1>3 DEF Uses
  <2>2. OwnerAt(p, a) \in {"fd", "xsk_result", "xsk"}
    BY <1>3 DEF OwnerAt, XskOwner, XskParts
  <2>3. OwnerAt(p, b) \in {"base", "umem_result", "umem"}
    BY <2>1 DEF OwnerAt, UmemOwner
  <2> QED BY SMTT(30), <2>1, <2>2, <2>3, Ranks, ResourcesAre
<1>4. CASE a \in {"map_entry", "attach"}
  <2>1. b \in {"fd", "umem", "obj"}
    BY <1>4 DEF Uses
  <2>2. OwnerAt(p, a) \in {"l", "loader_result", "loader"}
    BY <1>4 DEF OwnerAt, LoaderOwner, XskParts
  <2>3. CASE b = "obj"
    <3>1. OwnerAt(p, b) = OwnerAt(p, a)
      BY <1>4, <2>3 DEF OwnerAt, LoaderOwner, XskParts
    <3> QED BY SMTT(30), <2>2, <2>3, <3>1, Ranks, ResourcesAre
  <2>4. CASE b \in {"fd", "umem"}
    <3>1. OwnerAt(p, b) \in {"base", "umem_result", "umem", "fd", "xsk_result", "xsk"}
      BY <2>4 DEF OwnerAt, UmemOwner, XskOwner, XskParts
    <3> QED BY SMTT(30), <2>2, <2>4, <3>1, Ranks, ResourcesAre
  <2> QED BY <2>1, <2>3, <2>4
<1>5. CASE a \in {"obj", "umem"}
  BY <1>5 DEF Uses
<1> QED BY <1>1, <1>2, <1>3, <1>4, <1>5, ResourcesAre

\* At every point what a resource uses exists.
LEMMA LiveIsClosed ==
  ASSUME NEW p \in Points, NEW lv \in SUBSET Resources, LiveAt(p, lv)
  PROVE  \A a \in lv : Uses(a) \subseteq lv
<1>1. /\ \A a \in Resources : Uses(a) \subseteq {"umem", "obj"} \cup XskParts
      /\ Uses("umem") = {} /\ Uses("obj") = {} /\ Uses("fd") = {"umem"}
      /\ Uses("rx") = {"fd"} /\ Uses("tx") = {"fd"} /\ Uses("fill") = {"fd"} /\ Uses("comp") = {"fd"}
      /\ Uses("worker") \subseteq {"umem"} \cup XskParts
      /\ Uses("map_entry") = {"fd"}
  BY ResourcesAre DEF Uses, XskParts
<1>2. CASE p \in {"setrlimit", "mmap", "umem_result", "socket", "ring_sizes", "umem_reg",
                  "mmap_offsets"} \cup InUmem
  BY SMTT(30), <1>1, <1>2 DEF LiveAt
<1>3. CASE p = "map_rings"
  BY SMTT(30), <1>1, <1>3 DEF LiveAt
<1>4. CASE p \in {"ifindex", "bind", "bind_copy", "busy_poll", "assemble", "xsk_result", "spawn"}
  BY SMTT(30), <1>1, <1>4 DEF LiveAt, XskParts
<1>5. CASE p \in {"prepared", "open"}
  BY SMTT(30), <1>1, <1>5 DEF LiveAt, XskParts
<1>6. CASE p \in InLoader \cup {"loader_result"} \cup Closing
  <2>1. {"umem", "obj"} \cup XskParts \subseteq lv
    BY <1>6, ResourcesAre DEF LiveAt, XskParts, InLoader, Closing
  <2> QED BY <1>1, <2>1
<1> QED BY <1>2, <1>3, <1>4, <1>5, <1>6 DEF Points, InXsk, Results

\* If every resource is with its owner of some point, the stack is one the
\* destructors can take down.
LEMMA ArrangedIsGood ==
  ASSUME NEW s \in Seq(Objects), NEW lv \in SUBSET Resources, NEW p,
         Sorted(s), Arranged(s, lv, Owners(p)),
         \A a \in lv : Uses(a) \subseteq lv,
         "attach" \in lv => Has(s, "loader")
  PROVE  OneOwner(s, lv) /\ Covered(s, lv) /\ Supported(s) /\ Placed(s)
<1>0. \A r \in lv : Owners(p)[r] = OwnerAt(p, r)
  BY DEF Owners
<1>1. \A k \in DOMAIN s : s[k].holds = {r \in lv : OwnerAt(p, r) = s[k].name}
  BY SMTT(30), <1>0 DEF Arranged
<1>2. \A r \in lv : \E k \in DOMAIN s : s[k].name = OwnerAt(p, r)
  BY <1>0 DEF Arranged
<1>3. OneOwner(s, lv)
  <2>1. \A j, k \in DOMAIN s : j # k => s[j].name # s[k].name
    BY OneOfAName
  <2> QED BY SMTT(30), <1>1, <2>1 DEF OneOwner
<1>4. Covered(s, lv)
  BY <1>1, <1>2 DEF Covered
<1>r. ASSUME NEW j \in DOMAIN s, NEW k \in DOMAIN s, Rank(s[j].name) =< Rank(s[k].name)
      PROVE  j \in 1..k
  <2>1. j \in Nat /\ k \in Nat /\ Rank(s[j].name) \in Nat /\ Rank(s[k].name) \in Nat
    BY ObjectIs
  <2>2. ~(k < j)
    BY SMTT(30), <1>r, <2>1 DEF Sorted
  <2> QED BY SMTT(30), <2>1, <2>2
<1>5. Supported(s)
  <2> SUFFICES ASSUME NEW k \in DOMAIN s, NEW a \in s[k].holds, NEW b \in Uses(a)
               PROVE  \E j \in 1..k : b \in s[j].holds
    BY DEF Supported
  <2>1. a \in lv /\ OwnerAt(p, a) = s[k].name /\ b \in lv
    BY <1>1
  <2>2. PICK j \in DOMAIN s : s[j].name = OwnerAt(p, b)
    BY <1>2, <2>1
  <2>3. b \in s[j].holds
    BY <1>1, <2>1, <2>2
  <2>4. j \in 1..k
    BY <1>r, <2>1, <2>2, OwnersInOrder
  <2> QED BY <2>3, <2>4
<1>6. Placed(s)
  <2>1. \A r \in Resources : OwnerAt(p, r) = "base" => r = "umem"
    BY ResourcesAre DEF OwnerAt, UmemOwner, XskOwner, LoaderOwner, XskParts
  <2>2. OwnerAt(p, "worker") = "poll_thread"
    BY DEF OwnerAt, XskParts
  <2>3. \A r \in Resources : OwnerAt(p, r) = "loader" => OwnerAt(p, "attach") = "loader"
    BY ResourcesAre DEF OwnerAt, UmemOwner, XskOwner, LoaderOwner, XskParts
  <2>4. OwnerAt(p, "attach") \in {"l", "loader_result", "loader"}
    BY DEF OwnerAt, UmemOwner, XskOwner, LoaderOwner, XskParts
  <2>5. \A k \in DOMAIN s : s[k].name = "base" => s[k].holds \subseteq {"umem"}
    BY SMTT(30), <1>1, <2>1
  <2>6. \A k \in DOMAIN s : "worker" \in s[k].holds => s[k].name = "poll_thread"
    BY <1>1, <2>2
  <2>7. \A j, k \in DOMAIN s :
          "attach" \in s[k].holds /\ s[j].name = "loader" /\ s[j].holds # {} => j = k
    <3> SUFFICES ASSUME NEW j \in DOMAIN s, NEW k \in DOMAIN s,
                        "attach" \in s[k].holds, s[j].name = "loader", s[j].holds # {}
                 PROVE  j = k
      OBVIOUS
    <3>1. PICK r \in Resources : OwnerAt(p, r) = "loader"
      BY SMTT(30), <1>1
    <3>2. s[k].name = "loader"
      BY <1>1, <2>3, <3>1
    <3> QED BY <3>2, OneOfAName
  <2>8. \A k \in DOMAIN s : "attach" \in s[k].holds => \E j \in 1..k : s[j].name = "loader"
    <3> SUFFICES ASSUME NEW k \in DOMAIN s, "attach" \in s[k].holds
                 PROVE  \E j \in 1..k : s[j].name = "loader"
      OBVIOUS
    <3>1. "attach" \in lv /\ s[k].name \in {"l", "loader_result", "loader"}
      BY <1>1, <2>4
    <3>2. PICK j \in DOMAIN s : s[j].name = "loader"
      BY <3>1 DEF Has
    <3>3. Rank(s[j].name) =< Rank(s[k].name)
      BY SMTT(30), <3>1, <3>2, Ranks
    <3> QED BY <1>r, <3>2, <3>3
  <2> QED BY <2>5, <2>6, <2>7, <2>8 DEF Placed
<1> QED BY <1>3, <1>4, <1>5, <1>6

-----------------------------------------------------------------------------
\* Destroying an object that has nothing left to give back keeps a good stack.
LEMMA PopGood ==
  ASSUME NEW s \in Seq(Objects), NEW lv \in SUBSET Resources, NEW due, NEW due2, NEW g,
         GoodStack(s, lv, due, g), Len(s) > 0, due2 \subseteq due \ Last(s).holds
  PROVE  GoodStack(Front(s), lv, due2, g)
<1> DEFINE t == Front(s)
<1>1. /\ DOMAIN t \subseteq DOMAIN s /\ Sorted(t)
      /\ \A k \in DOMAIN t : k \in Nat /\ t[k] = s[k] /\ 1..k \subseteq DOMAIN t
      /\ \A k \in DOMAIN s : k \in DOMAIN t \/ s[k] = Last(s)
  <2>1. /\ Len(s) \in Nat /\ DOMAIN s = 1..Len(s) /\ DOMAIN t = 1..(Len(s) - 1)
        /\ \A k \in 1..(Len(s) - 1) : t[k] = s[k]
        /\ Sorted(t)
    BY SMTT(30), PopSorted DEF GoodStack
  <2> HIDE DEF t
  <2> QED BY SMTT(30), <2>1 DEF Last
<1> HIDE DEF t
<1>2. OneOwner(t, lv)
  BY <1>1 DEF GoodStack, OneOwner
<1>3. Covered(t, due2)
  BY <1>1 DEF GoodStack, Covered
<1>4. Supported(t)
  BY <1>1 DEF GoodStack, Supported
<1>5. Placed(t)
  BY SMTT(30), <1>1 DEF GoodStack, Placed
<1>6. Remembered(t, g)
  BY SMTT(30), <1>1 DEF GoodStack, Remembered
<1> QED BY <1>1, <1>2, <1>3, <1>4, <1>5, <1>6 DEF GoodStack, t

\* FirstIn finds the first element.
LEMMA FirstInIs ==
  ASSUME NEW s, NEW n \in Nat, DOMAIN s = 1..n, NEW S, NEW m \in 1..n, s[m] \in S,
         \A j \in 1..(m - 1) : s[j] \notin S
  PROVE  FirstIn(s, S) = s[m]
<1>1. \A i \in 1..n : s[i] \in S /\ (\A j \in 1..(i - 1) : s[j] \notin S) => i = m
  BY SMTT(30)
<1> QED BY <1>1 DEF FirstIn

\* A destructor begins with something that nothing else it holds uses
\* (XdpLoader::release, ~Xsk and Umem::release in the order of ReleaseOrder).
LEMMA FirstToRelease ==
  ASSUME NEW S \in SUBSET Resources, S # {}, NEW r, FirstOf(r, S)
  PROVE  Unused(r, S)
<1> DEFINE I == {i \in 1..Len(ReleaseOrder) : ReleaseOrder[i] \in S}
<1>1. /\ Len(ReleaseOrder) = 10
      /\ ReleaseOrder[1] = "map_entry" /\ ReleaseOrder[2] = "attach" /\ ReleaseOrder[3] = "obj"
      /\ ReleaseOrder[4] = "worker" /\ ReleaseOrder[5] = "comp" /\ ReleaseOrder[6] = "fill"
      /\ ReleaseOrder[7] = "tx" /\ ReleaseOrder[8] = "rx" /\ ReleaseOrder[9] = "fd"
      /\ ReleaseOrder[10] = "umem"
  BY DEF ReleaseOrder
<1>2. \A a \in Resources : \E i \in 1..10 : ReleaseOrder[i] = a
  BY SMTT(30), <1>1, ResourcesAre
<1>3. \A i, j \in 1..10 : i =< j => ReleaseOrder[i] \notin Uses(ReleaseOrder[j])
  BY SMTT(30), <1>1 DEF Uses
<1>4. I # {} /\ I \subseteq 1..10
  BY SMTT(30), <1>1, <1>2
<1> HIDE DEF I
<1>5. \E i \in I : \A j \in I : i =< j
  <2> DEFINE m == IF 1 \in I THEN 1 ELSE IF 2 \in I THEN 2 ELSE IF 3 \in I THEN 3
                  ELSE IF 4 \in I THEN 4 ELSE IF 5 \in I THEN 5 ELSE IF 6 \in I THEN 6
                  ELSE IF 7 \in I THEN 7 ELSE IF 8 \in I THEN 8 ELSE IF 9 \in I THEN 9 ELSE 10
  <2>1. \A j \in I : j \in {1, 2, 3, 4, 5, 6, 7, 8, 9, 10}
    BY SMTT(30), <1>4
  <2>2. m \in I
    BY <1>4, <2>1
  <2>3. \A j \in I : m =< j
    BY SMTT(30), <2>1
  <2> QED BY <2>2, <2>3
<1>6. PICK m \in I : \A j \in I : m =< j
  BY <1>5
<1>7. FirstIn(ReleaseOrder, S) = ReleaseOrder[m]
  <2>1. m \in 1..10 /\ ReleaseOrder[m] \in S /\ \A j \in 1..(m - 1) : ReleaseOrder[j] \notin S
    BY SMTT(30), <1>1, <1>4, <1>6 DEF I
  <2>2. DOMAIN ReleaseOrder = 1..10
    BY SMTT(30) DEF ReleaseOrder
  <2> QED BY <2>1, <2>2, FirstInIs
<1>8. m \in 1..10 /\ ReleaseOrder[m] \in S
  BY <1>1, <1>6 DEF I
<1>9. \A a \in S : ReleaseOrder[m] \notin Uses(a)
  <2> TAKE a \in S
  <2>1. PICK i \in 1..10 : ReleaseOrder[i] = a
    BY <1>2
  <2>2. m =< i
    BY <1>1, <1>6, <2>1 DEF I
  <2> QED BY <1>3, <1>8, <2>1, <2>2
<1>10. r = ReleaseOrder[m]
  BY <1>7 DEF FirstOf
<1> QED BY <1>8, <1>9, <1>10 DEF Unused

\* Giving back one resource keeps a good stack, whether the kernel takes it or not.
LEMMA ReleaseGood ==
  ASSUME NEW s \in Seq(Objects), NEW lv \in SUBSET Resources, NEW due, NEW due2, NEW g,
         GoodStack(s, lv, due, g), Len(s) > 0,
         NEW r, Unused(r, Last(s).holds),
         NEW lv2, Spent(lv2, lv, r), due2 \subseteq due \ {r}, NEW t, Releases(t, s, r)
  PROVE  t \in Seq(Objects) /\ GoodStack(t, lv2, due2, g)
<1> DEFINE o == Last(s)
           n == Len(s)
<1>0. r \in o.holds /\ \A a \in o.holds : r \notin Uses(a)
  BY DEF Unused
<1>1. /\ n \in Nat /\ n > 0 /\ DOMAIN s = 1..n /\ n \in DOMAIN s /\ s[n] = o /\ o \in Objects
      /\ Front(s) \in Seq(Objects) /\ Len(Front(s)) = n - 1
      /\ \A k \in 1..(n - 1) : Front(s)[k] = s[k]
  BY SMTT(30), PopSorted DEF GoodStack, Last
<1>2. Object(o.name, o.holds \ {r}, o.mode) \in Objects
  BY <1>1 DEF Objects, Object
<1>3. /\ t \in Seq(Objects) /\ DOMAIN t = DOMAIN s
      /\ \A k \in DOMAIN s : k # n => t[k] = s[k]
      /\ t[n] = Object(o.name, o.holds \ {r}, o.mode)
  <2> DEFINE f == Front(s)
             e == Object(o.name, o.holds \ {r}, o.mode)
  <2> HIDE DEF f, e, n
  <2>1. /\ Append(f, e) \in Seq(Objects) /\ Len(Append(f, e)) = n
        /\ \A k \in 1..(n - 1) : Append(f, e)[k] = s[k]
        /\ Append(f, e)[n] = e
    BY SMTT(30), <1>1, <1>2 DEF f, e
  <2> QED BY SMTT(30), <1>1, <2>1 DEF f, e, Releases
<1> HIDE DEF n
<1>4. /\ \A k \in DOMAIN s : /\ t[k].name = s[k].name /\ t[k].mode = s[k].mode
                             /\ k # n => t[k].holds = s[k].holds
      /\ t[n].holds = s[n].holds \ {r}
  BY SMTT(30), <1>1, <1>3 DEF Object
<1>5. Sorted(t)
  BY <1>3, <1>4 DEF GoodStack, Sorted
<1>6. OneOwner(t, lv2)
  <2>1. \A k \in DOMAIN s : t[k].holds \subseteq s[k].holds
    BY <1>1, <1>4
  <2>2. \A k \in DOMAIN s : k # n => r \notin s[k].holds
    BY <1>0, <1>1 DEF GoodStack, OneOwner
  <2>3. \A k \in DOMAIN s : r \notin t[k].holds
    BY <1>4, <2>2
  <2> QED BY SMTT(30), <1>3, <2>1, <2>3 DEF GoodStack, OneOwner, Spent
<1>7. Covered(t, due2)
  BY ZenonT(40), <1>1, <1>3, <1>4 DEF GoodStack, Covered
<1>8. Supported(t)
  <2> SUFFICES ASSUME NEW k \in DOMAIN s, NEW a \in t[k].holds, NEW b \in Uses(a)
               PROVE  \E j \in 1..k : b \in t[j].holds
    BY <1>3 DEF Supported
  <2>1. a \in s[k].holds
    BY <1>1, <1>4
  <2>2. PICK j \in 1..k : b \in s[j].holds
    BY <2>1 DEF GoodStack, Supported
  <2>3. j \in DOMAIN s /\ k =< n
    BY SMTT(30), <1>1
  <2>4. j = n => b # r
    BY SMTT(30), <1>0, <1>1, <2>1, <2>3
  <2> QED BY <1>4, <2>2, <2>3, <2>4
<1>9. Placed(t)
  <2>1. \A k \in DOMAIN s : t[k].holds \subseteq s[k].holds
    BY <1>1, <1>4
  <2>2. \A k \in DOMAIN s : 1..k \subseteq DOMAIN s
    BY SMTT(30), <1>1
  <2> QED BY SMTT(30), <1>3, <1>4, <2>1, <2>2 DEF GoodStack, Placed
<1>10. Remembered(t, g)
  <2>1. \A k \in DOMAIN s : t[k].holds \subseteq s[k].holds
    BY <1>1, <1>4
  <2> QED BY SMTT(30), <1>3, <1>4, <2>1 DEF GoodStack, Remembered
<1> QED BY <1>3, <1>5, <1>6, <1>7, <1>8, <1>9, <1>10 DEF GoodStack

-----------------------------------------------------------------------------
(***************************************************************************)
(* Arriving at a point, and moving objects.                                *)
(***************************************************************************)
\* At every point the stack is good.
LEMMA PointIsGood ==
  ASSUME NEW s \in Seq(Objects), NEW lv \in SUBSET Resources, NEW p \in Points, NEW due, NEW g,
         Sorted(s), Arranged(s, lv, Owners(p)), LiveAt(p, lv), Remembered(s, g), due \subseteq lv,
         p \in {"prepared", "open", "loader_result"} \cup InLoader =>
           Has(s, "loader")
  PROVE  GoodStack(s, lv, due, g)
<1>1. \A a \in lv : Uses(a) \subseteq lv
  BY LiveIsClosed
<1>2. "attach" \in lv => Has(s, "loader")
  <2> SUFFICES ASSUME "attach" \in lv PROVE Has(s, "loader")
    OBVIOUS
  <2>1. p \in InLoader \cup {"loader_result"} \cup Closing
    BY SMTT(30) DEF LiveAt, Points, InUmem, InXsk, Results, XskParts
  <2>2. CASE p \in InLoader \cup {"loader_result"}
    BY <2>2
  <2>3. CASE p \in Closing
    <3>1. Owners(p)["attach"] = "loader"
      BY <2>3, ResourcesAre DEF Owners, OwnerAt, LoaderOwner, XskParts, InLoader, Closing
    <3> QED BY <3>1 DEF Arranged, Has
  <2> QED BY <2>1, <2>2, <2>3
<1>3. OneOwner(s, lv) /\ Covered(s, lv) /\ Supported(s) /\ Placed(s)
  BY <1>1, <1>2, ArrangedIsGood
<1>4. Covered(s, due)
  BY <1>3 DEF Covered
<1> QED BY <1>3, <1>4 DEF GoodStack

\* A step that arrives at a point, or is about to return to it, with everything
\* in place keeps the invariant.
LEMMA Arrives ==
  ASSUME TypeOK', leaked' \subseteq {"umem"}, NEW p \in Points,
         \/ pc' = p /\ Topmost(p)'
         \/ pc' = "returning" /\ p \in Results /\ bottom' \in DOMAIN stack' /\ stack'[bottom'].name = p,
         Sorted(stack'), Remembered(stack', granted'), AtPoint(p)'
  PROVE  IInv'
<1>1. GoodStack(stack', live', live' \ (refused' \cup leaked'), granted')
  <2>1. /\ Arranged(stack', live', Owners(p)) /\ LiveAt(p, live')
        /\ p \in {"prepared", "open", "loader_result"} \cup InLoader =>
             Has(stack', "loader")
    BY DEF AtPoint, Expected
  <2>2. stack' \in Seq(Objects) /\ live' \in SUBSET Resources
    BY DEF TypeOK
  <2> QED BY <2>1, <2>2, PointIsGood
<1>2. Good'
  BY <1>1 DEF Good
<1>3. p # "returning" /\ p # "exited" /\ "returning" \notin Points
  BY DEF Points, InUmem, InXsk, InLoader, Results, Closing
<1>4. Point' = p
  BY <1>3 DEF Point
<1> QED BY <1>2, <1>3, <1>4 DEF IInv

\* A call that fails and changes nothing keeps the invariant.
LEMMA Unwinds ==
  ASSUME IInv, pc' = "unwinding", UNCHANGED <<stack, bottom, live, granted, refused, leaked, run, args>>,
         sxdp_flags' \in {{}, {"zerocopy"}, {"copy"}}
  PROVE  IInv'
<1>1. TypeOK'
  BY DEF IInv, TypeOK
<1>2. Good'
  BY DEF IInv, Good
<1>3. "unwinding" \notin Points
  BY DEF Points, InUmem, InXsk, InLoader, Results, Closing
<1> QED BY <1>1, <1>2, <1>3 DEF IInv

\* The call of a create function: an empty result, then a local with one resource.
LEMMA Entered ==
  ASSUME NEW s \in Seq(Objects), NEW lv \in SUBSET Resources, Sorted(s), NEW a \in Names,
         NEW r \in Resources, r \notin lv, NEW o \in Objects, OwnsOnly(o, r), NEW own, NEW own2,
         Follows(a, s), Rank(a) < Rank(o.name),
         Arranged(s, lv, own), own2[r] = o.name, SameOwners(lv, own, own2),
         NEW t, Declares(t, s, a, o)
  PROVE  /\ t \in Seq(Objects) /\ Len(t) = Len(s) + 2 /\ Sorted(t)
         /\ \A k \in DOMAIN s : k \in DOMAIN t /\ t[k] = s[k]
         /\ t[Len(s) + 1] = Empty(a) /\ t[Len(s) + 2] = o
         /\ Arranged(t, lv \cup {r}, own2)
<1> DEFINE e == Empty(a)
           u == Append(s, e)
<1>1. e \in Objects /\ e.name = a /\ e.holds = {}
  BY DEF Empty, Object, Objects, Modes
<1> HIDE DEF e
<1>2. u \in Seq(Objects) /\ Sorted(u) /\ \A k \in DOMAIN s : s[k].name # a
  BY <1>1, PushSorted
<1>3. \A q \in lv : own[q] # a
  BY <1>2 DEF Arranged
<1>4. Arranged(u, lv, own)
  BY <1>1, <1>3, PushArranged
<1>5. Len(u) = Len(s) + 1 /\ Len(s) \in Nat /\ Last(u) = e
  BY SMTT(30), <1>1 DEF Last
<1>6. t = Append(u, o)
  BY SMTT(30), <1>1 DEF Declares, e
<1>7. /\ Append(u, o) \in Seq(Objects) /\ Sorted(Append(u, o))
      /\ \A k \in DOMAIN u : u[k].name # o.name
  <2>1. Follows(o.name, u)
    BY <1>1, <1>5 DEF Follows
  <2> QED BY <1>2, <2>1, PushSorted
<1>8. Arranged(Append(u, o), lv \cup {r}, own2)
  BY <1>2, <1>4, <1>7, ObtainArranged DEF OwnsOnly
<1>9. /\ Len(t) = Len(s) + 2
      /\ \A k \in DOMAIN s : k \in DOMAIN t /\ t[k] = s[k]
      /\ t[Len(s) + 1] = e /\ t[Len(s) + 2] = o
  BY SMTT(30), <1>1, <1>5 DEF Declares, e
<1> QED BY <1>6, <1>7, <1>8, <1>9 DEF e

\* The move of one object into another that is empty.
LEMMA MoveEffect ==
  ASSUME NEW s \in Seq(Objects), NEW lv \in SUBSET Resources, Sorted(s),
         NEW a \in DOMAIN s, NEW b \in DOMAIN s, a # b, NEW own, NEW own2,
         Arranged(s, lv, own), HandsOn(lv, own, own2, s[a].name, {s[b].name}),
         NEW t, Moves(t, s, a, b)
  PROVE  t \in Seq(Objects) /\ Sorted(t) /\ Arranged(t, lv, own2) /\ Transferred(t, s, a, b)
<1> DEFINE dst == s[a].name
           src == {s[b].name}
           m   == s[b].mode
<1>1. t = HandOver(s, dst, src, m)
  BY TheNamed DEF Moves, Move
<1>2. dst \in Names /\ src \in SUBSET Names /\ m \in Modes
  BY ObjectIs
<1>3. \A k \in DOMAIN s : (s[k].name = dst <=> k = a) /\ (s[k].name \in src <=> k = b)
  BY OneOfAName
<1>4. dst \notin src
  BY <1>3
<1> HIDE DEF dst, src, m
<1>5. /\ t \in Seq(Objects) /\ Len(t) = Len(s) /\ DOMAIN t = DOMAIN s /\ Sorted(t)
      /\ \A k \in DOMAIN s :
           /\ t[k].name = s[k].name
           /\ s[k].name = dst => t[k] = Object(dst, HeldBy(s, src), m)
           /\ s[k].name \in src => t[k].holds = {}
           /\ s[k].name \notin src \cup {dst} => t[k] = s[k]
  BY SMTT(30), <1>1, <1>2, <1>4, HandOverEffect DEF HandsOver
<1>6. Arranged(t, lv, own2)
  <2>1. HandsOn(lv, own, own2, dst, src) /\ Has(s, dst)
    BY DEF dst, src, Has
  <2> QED BY <1>1, <1>2, <1>4, <2>1, HandOverArranged
<1>7. HeldBy(s, src) = s[b].holds
  <2>1. \A r : r \in HeldBy(s, src) <=> r \in lv /\ own[r] \in src
    BY HeldByOwners
  <2> QED BY <2>1 DEF Arranged, src
<1>8. t[a].mode = m /\ t[a].holds = s[b].holds
  BY SMTT(30), <1>3, <1>5, <1>7 DEF Object
<1>9. t[b].holds = {} /\ \A k \in DOMAIN s : k \notin {a, b} => t[k] = s[k]
  BY <1>3, <1>5
<1> QED BY <1>5, <1>6, <1>8, <1>9 DEF m, Transferred

\* A move hands on the mode with the handles.
LEMMA MoveRemembers ==
  ASSUME NEW s, NEW t, NEW g, NEW a \in DOMAIN s, NEW b \in DOMAIN s,
         Remembered(s, g), s[b].name # "fd", Transferred(t, s, a, b)
  PROVE  Remembered(t, g)
BY SMTT(30) DEF Remembered, Transferred

\* An object without UMEM, socket and program has no mode to remember.
LEMMA PushRemembers ==
  ASSUME NEW s \in Seq(Objects), NEW o \in Objects, NEW g, Remembered(s, g),
         o.holds \cap {"umem", "fd", "attach"} = {}
  PROVE  Remembered(Append(s, o), g)
<1>1. /\ DOMAIN Append(s, o) = 1..(Len(s) + 1) /\ DOMAIN s = 1..Len(s)
      /\ \A k \in DOMAIN s : Append(s, o)[k] = s[k]
      /\ Append(s, o)[Len(s) + 1] = o
  BY SMTT(30)
<1> QED BY SMTT(30), <1>1 DEF Remembered

-----------------------------------------------------------------------------
(***************************************************************************)
(* The calls that build nothing.                                           *)
(***************************************************************************)
\* The points, apart from the destructors.
LEMMA PointsAre ==
  /\ "returning" \notin Points /\ "unwinding" \notin Points /\ "exited" \notin Points
  /\ Results \subseteq Points
BY DEF Points, InUmem, InXsk, InLoader, Results, Closing

\* What the invariant says at a point.
LEMMA Here ==
  ASSUME IInv, pc \in Points
  PROVE  /\ Arranged(stack, live, Owners(pc)) /\ LiveAt(pc, live)
         /\ Expected(pc) /\ Recorded(pc) /\ Topmost(pc)
         /\ stack \in Seq(Objects) /\ Sorted(stack) /\ Remembered(stack, granted)
         /\ live \in SUBSET Resources /\ leaked \subseteq {"umem"}
<1>1. AtPoint(Point) /\ Topmost(pc) /\ TypeOK /\ Good
  BY DEF IInv
<1>2. Point = pc
  BY PointsAre DEF Point
<1>3. stack \in Seq(Objects) /\ live \in SUBSET Resources
  BY <1>1 DEF TypeOK
<1>4. Sorted(stack) /\ Remembered(stack, granted) /\ leaked \subseteq {"umem"}
  BY <1>1 DEF Good, GoodStack
<1> QED BY <1>1, <1>2, <1>3, <1>4 DEF AtPoint

\* Calls between two of which no object changes hands.
Stages ==
  {<<"setrlimit", "mmap">>, <<"umem_log", "mlock">>,
   <<"ring_sizes", "umem_reg">>, <<"umem_reg", "mmap_offsets">>, <<"mmap_offsets", "map_rings">>,
   <<"ifindex", "bind">>, <<"bind", "bind_copy">>, <<"bind", "busy_poll">>,
   <<"bind_copy", "busy_poll">>, <<"busy_poll", "assemble">>,
   <<"load", "map_update">>, <<"filter_ip", "attach_drv">>, <<"attach_drv", "attach_skb">>,
   <<"attach_log", "return_loader">>, <<"prepared", "open">>, <<"running", "stop_redirect">>,
   <<"drain", "detach">>}

\* A call that moves on between two such points leaves everything in place.
LEMMA StageKeeps ==
  ASSUME IInv, NEW there, <<pc, there>> \in Stages, UNCHANGED <<stack, bottom, live>>
  PROVE  /\ pc \in Points /\ there \in Points
         /\ Arranged(stack', live', Owners(there)) /\ LiveAt(there, live')
         /\ Expected(there)' /\ Topmost(there)' /\ Sorted(stack')
<1>1. /\ pc \in Points /\ there \in Points /\ pc \notin Results /\ there \notin Results
      /\ pc \in InUmem <=> there \in InUmem
      /\ pc \in InXsk <=> there \in InXsk
      /\ pc \in InLoader <=> there \in InLoader
      /\ there \in {"prepared", "open"} => pc \in {"prepared", "open"}
  BY DEF Stages, Points, InUmem, InXsk, InLoader, Results, Closing
<1>2. Owners(there) = Owners(pc)
  BY <1>1 DEF Owners, OwnerAt, UmemOwner, XskOwner, LoaderOwner, Results
<1>3. LiveAt(there, live)
  BY <1>1, Here DEF LiveAt, Stages, InUmem
<1>4. Expected(there)
  BY <1>1, Here DEF Expected, Results
<1>5. Topmost(there)
  <2>1. LiveAt(pc, live) /\ Topmost(pc)
    BY <1>1, Here
  <2>2. CASE pc = "setrlimit"
    BY <2>1, <2>2 DEF Topmost, Stages
  <2>3. CASE pc # "setrlimit"
    <3>1. there \notin {"setrlimit", "mmap"} /\ pc \notin {"setrlimit", "mmap"}
      BY <2>3 DEF Stages
    <3>2. LastAt(there, live) = LastAt(pc, live)
      <4>1. CASE pc = "mmap_offsets"
        <5>1. there = "map_rings" /\ live = {"umem", "fd"}
          BY <2>1, <4>1 DEF Stages, LiveAt
        <5>2. LastRing(live) = "fd"
          BY <5>1 DEF LastRing
        <5>3. LastAt("map_rings", live) = LastRing(live) /\ LastAt("mmap_offsets", live) = "fd"
          BY DEF LastAt, InUmem, InLoader, Closing
        <5> QED BY <4>1, <5>1, <5>2, <5>3
      <4>2. CASE pc # "mmap_offsets"
        BY <2>3, <4>2 DEF Stages, LastAt, InUmem, InLoader, Closing
      <4> QED BY <4>1, <4>2
    <3> QED BY <2>1, <3>1, <3>2 DEF Topmost
  <2> QED BY <2>2, <2>3
<1>6. Arranged(stack, live, Owners(there)) /\ Sorted(stack)
  BY <1>1, <1>2, Here
<1> QED BY <1>1, <1>3, <1>4, <1>5, <1>6 DEF Expected, Topmost

\* So does Call, whether the call succeeds or fails.
LEMMA CallKeeps ==
  ASSUME IInv, NEW here, NEW there, <<here, there>> \in Stages, Call(here, there),
         there \notin {"bind_copy", "busy_poll"}
  PROVE  IInv'
<1>1. /\ pc = here /\ UNCHANGED <<stack, bottom, live, granted, refused, leaked, run, args, sxdp_flags>>
      /\ pc' = there \/ pc' = "unwinding"
  BY DEF Call, kernelvars, othervars
<1>2. CASE pc' = "unwinding"
  BY <1>1, <1>2, Unwinds DEF IInv, TypeOK
<1>3. CASE pc' = there
  <2>1. /\ pc \in Points /\ there \in Points
        /\ Arranged(stack', live', Owners(there)) /\ LiveAt(there, live')
        /\ Expected(there)' /\ Topmost(there)' /\ Sorted(stack')
    BY <1>1, StageKeeps
  <2>2. Recorded(there)'
    <3>1. Recorded(pc)
      BY <2>1, Here
    <3>2. /\ there \in InUmem => pc \in InUmem
          /\ there \in InXsk \ {"busy_poll", "assemble"} => pc \in InXsk \ {"busy_poll", "assemble"}
          /\ there \in InLoader => pc \in InLoader
          /\ there \in Closing => pc \in Closing
          /\ there \notin {"umem_result", "socket", "setrlimit", "loader_result", "spawn"}
          /\ there = "mmap" => pc = "setrlimit"
          /\ there = "assemble" => pc = "busy_poll"
          /\ there = "open" => pc = "prepared"
          /\ there # "prepared"
          /\ pc # "mmap" /\ pc # "umem_result"
          /\ pc = "setrlimit" => there = "mmap"
          /\ pc \in InUmem => there \in InUmem
      BY <1>1 DEF Stages, InUmem, InXsk, InLoader, Closing
    <3> QED BY <1>1, <3>1, <3>2 DEF Recorded
  <2>3. TypeOK' /\ leaked' \subseteq {"umem"} /\ Remembered(stack', granted')
    <3>1. TypeOK'
      BY <1>1, <1>3, <2>1 DEF IInv, TypeOK
    <3> QED BY <1>1, <2>1, <3>1, Here
  <2>4. AtPoint(there)'
    BY <2>1, <2>2 DEF AtPoint
  <2> QED BY <1>3, <2>1, <2>3, <2>4, Arrives
<1> QED BY <1>1, <1>2, <1>3

\* The twelve calls that build nothing keep the invariant.
LEMMA Calls ==
  ASSUME IInv,
         \/ SetRlimit \/ LogUmem \/ SetRingSizes \/ RegisterUmem \/ GetMmapOffsets \/ FindInterface
         \/ SetBusyPoll \/ LoadObject \/ SetTargetIp \/ LogAttach \/ WorkerPrepared \/ Running
         \/ Drain
  PROVE  IInv'
<1>1. PICK here, there : /\ <<here, there>> \in Stages /\ Call(here, there)
                         /\ there \notin {"bind_copy", "busy_poll"}
  BY SMTT(30) DEF SetRlimit, LogUmem, SetRingSizes, RegisterUmem, GetMmapOffsets, FindInterface,
         SetBusyPoll, LoadObject, SetTargetIp, LogAttach, WorkerPrepared, Running, Drain, Stages
<1> QED BY <1>1, CallKeeps

-----------------------------------------------------------------------------
(***************************************************************************)
(* The calls that build something.                                         *)
(***************************************************************************)
\* The names, listed.
LEMMA NamesAre ==
  /\ Results \subseteq Names
  /\ {"base", "u", "umem", "fd", "rx", "tx", "fill", "comp", "x", "xsk",
      "loader", "poll_thread", "l"} \subseteq Names
BY DEF Names, Results

\* The parts of an object just built.
LEMMA ObjectFields ==
  ASSUME NEW n, NEW h, NEW m
  PROVE  /\ Object(n, h, m).name = n /\ Object(n, h, m).holds = h /\ Object(n, h, m).mode = m
         /\ Empty(n).name = n /\ Empty(n).holds = {} /\ Empty(n).mode = "none"
BY DEF Object, Empty

\* An object just built is an object.
LEMMA ObjectTyped ==
  ASSUME NEW n \in Names, NEW h \in SUBSET Resources, NEW m \in Modes
  PROVE  Object(n, h, m) \in Objects /\ Empty(n) \in Objects
BY DEF Object, Empty, Objects, Modes

\* Entering a create function, or declaring loader and thread, leaves every
\* resource with its owner.
LEMMA EnterEffect ==
  ASSUME IInv, pc \in Points, NEW p, NEW a \in Names, NEW r \in Resources, r \notin live,
         NEW o \in Objects, OwnsOnly(o, r),
         Declares(stack', stack, a, o), live' = live \cup {r},
         Follows(a, stack), Rank(a) < Rank(o.name),
         OwnerAt(p, r) = o.name, SameOwners(live, Owners(pc), Owners(p))
  PROVE  /\ stack' \in Seq(Objects) /\ Sorted(stack') /\ Arranged(stack', live', Owners(p))
         /\ Len(stack') > 0 /\ Last(stack') = o
         /\ Len(stack) + 1 \in DOMAIN stack' /\ stack'[Len(stack) + 1].name = a
         /\ \A k \in DOMAIN stack' : \/ k \in DOMAIN stack /\ stack'[k] = stack[k]
                                     \/ stack'[k] = Empty(a)
                                     \/ stack'[k] = o
         /\ Has(stack, "loader") \/ a = "loader" => Has(stack', "loader")
<1>1. Owners(p)[r] = o.name
  BY DEF Owners
<1>2. /\ stack' \in Seq(Objects) /\ Len(stack') = Len(stack) + 2 /\ Sorted(stack')
      /\ \A k \in DOMAIN stack : k \in DOMAIN stack' /\ stack'[k] = stack[k]
      /\ stack'[Len(stack) + 1] = Empty(a) /\ stack'[Len(stack) + 2] = o
      /\ Arranged(stack', live', Owners(p))
  <2>1. /\ stack \in Seq(Objects) /\ live \in SUBSET Resources /\ Sorted(stack)
        /\ Arranged(stack, live, Owners(pc))
    BY Here
  <2>2. /\ stack' \in Seq(Objects) /\ Len(stack') = Len(stack) + 2 /\ Sorted(stack')
        /\ \A k \in DOMAIN stack : k \in DOMAIN stack' /\ stack'[k] = stack[k]
        /\ stack'[Len(stack) + 1] = Empty(a) /\ stack'[Len(stack) + 2] = o
        /\ Arranged(stack', live \cup {r}, Owners(p))
    BY <1>1, <2>1, Entered
  <2> QED BY <2>2
<1>3. Len(stack) \in Nat /\ DOMAIN stack = 1..Len(stack) /\ DOMAIN stack' = 1..(Len(stack) + 2)
  BY SMTT(30), <1>2, Here
<1>4. Len(stack') > 0 /\ Last(stack') = o /\ Len(stack) + 1 \in DOMAIN stack'
  BY SMTT(30), <1>2, <1>3 DEF Last
<1>5. \A k \in DOMAIN stack' : \/ k \in DOMAIN stack /\ stack'[k] = stack[k]
                               \/ stack'[k] = Empty(a)
                               \/ stack'[k] = o
  <2> TAKE k \in DOMAIN stack'
  <2>1. k \in DOMAIN stack \/ k = Len(stack) + 1 \/ k = Len(stack) + 2
    BY SMTT(30), <1>3
  <2> QED BY <1>2, <2>1
<1>6. Empty(a).name = a
  BY ObjectFields
<1> QED BY <1>2, <1>4, <1>5, <1>6 DEF Has

\* Umem::create, the mapping.
LEMMA MmapKeeps == IInv /\ Mmap => IInv'
<1> SUFFICES ASSUME IInv, Mmap PROVE IInv'
  OBVIOUS
<1>1. pc = "mmap" /\ UNCHANGED <<args, sxdp_flags, run, leaked>>
  BY DEF Mmap, othervars
<1>2. CASE Fails
  BY <1>1, <1>2, Unwinds DEF Fails, kernelvars, IInv, TypeOK
<1>3. CASE ~Fails
  <2>1. PICK huge \in {args.huge_pages, FALSE} :
          /\ Obtain("umem", Entering("umem_result",
                                     Object("base", {"umem"}, IF huge THEN "hugetlb" ELSE "none")),
                    "umem_log")
          /\ granted' = [granted EXCEPT !.huge = huge]
          /\ bottom' = Len(stack) + 1
    BY <1>3 DEF Mmap
  <2> DEFINE m == IF huge THEN "hugetlb" ELSE "none"
             o == Object("base", {"umem"}, m)
  <2>2. /\ live' = live \cup {"umem"} /\ pc' = "umem_log"
        /\ Declares(stack', stack, "umem_result", o)
    BY <2>1 DEF Obtain, Entering, Declares
  <2>3. pc \in Points /\ "umem_log" \in Points
    BY <1>1 DEF Points, InUmem
  <2>4. /\ stack = <<>> /\ live = {} /\ stack \in Seq(Objects) /\ leaked \subseteq {"umem"}
        /\ sxdp_flags = {} /\ granted \in Grants /\ TypeOK
    <3>1. Topmost(pc) /\ LiveAt(pc, live) /\ Recorded(pc) /\ TypeOK
      BY <2>3, Here DEF IInv
    <3> QED BY <1>1, <2>3, <3>1, Here DEF Topmost, LiveAt, Recorded, TypeOK
  <2>5. o \in Objects /\ o.name = "base" /\ o.holds = {"umem"} /\ OwnsOnly(o, "umem") /\ o.mode = m
    <3>1. m \in Modes
      BY DEF Modes
    <3> QED BY SMTT(30), <3>1, NamesAre, ResourcesAre, ObjectTyped, ObjectFields DEF OwnsOnly
  <2>6. m = "hugetlb" <=> huge
    OBVIOUS
  <2> HIDE DEF m, o
  <2>7. OwnerAt("umem_log", "umem") = "base" /\ SameOwners(live, Owners(pc), Owners("umem_log"))
    BY <2>4 DEF OwnerAt, UmemOwner, InUmem, SameOwners
  <2>8. /\ stack' \in Seq(Objects) /\ Sorted(stack') /\ Arranged(stack', live', Owners("umem_log"))
        /\ Len(stack') > 0 /\ Last(stack') = o
        /\ Len(stack) + 1 \in DOMAIN stack' /\ stack'[Len(stack) + 1].name = "umem_result"
        /\ \A k \in DOMAIN stack' : \/ k \in DOMAIN stack /\ stack'[k] = stack[k]
                                    \/ stack'[k] = Empty("umem_result")
                                    \/ stack'[k] = o
    <3>1. "umem_result" \in Names /\ "umem" \in Resources
      BY NamesAre, ResourcesAre DEF Results
    <3>2. Rank("umem_result") < Rank(o.name) /\ Follows("umem_result", stack)
      BY SMTT(30), <2>4, <2>5, Ranks DEF Follows
    <3> QED BY SMTT(30), <2>2, <2>3, <2>4, <2>5, <2>7, <3>1, <3>2, EnterEffect
  <2>9. huge \in BOOLEAN /\ granted' \in Grants /\ granted'.huge = huge
    <3>1. huge \in BOOLEAN
      BY <2>4 DEF TypeOK
    <3> QED BY <2>1, <2>4, <3>1 DEF Grants
  <2>10. Remembered(stack', granted')
    <3>0. DOMAIN stack = {}
      BY SMTT(30), <2>4
    <3>1. \A k \in DOMAIN stack' : stack'[k].holds = {} \/ stack'[k] = o
      BY <2>8, <3>0, ObjectFields
    <3> QED BY SMTT(30), <2>5, <2>6, <2>9, <3>1 DEF Remembered
  <2>11. TypeOK'
    BY SMTT(30), <1>1, <2>1, <2>2, <2>3, <2>4, <2>8, <2>9, ResourcesAre DEF TypeOK
  <2>12. AtPoint("umem_log")'
    <3>1. LiveAt("umem_log", live')
      BY <2>2, <2>4 DEF LiveAt, InUmem
    <3>2. Expected("umem_log")'
      BY <2>1, <2>8 DEF Expected, InUmem, InXsk, InLoader
    <3>3. Recorded("umem_log")'
      BY <1>1, <2>4 DEF Recorded, InUmem, InXsk, InLoader, Closing
    <3> QED BY <2>8, <3>1, <3>2, <3>3 DEF AtPoint
  <2>13. Topmost("umem_log")'
    <3>1. LastAt("umem_log", live') = "base"
      BY DEF LastAt, InUmem, InLoader, Closing
    <3> QED BY <2>5, <2>8, <3>1 DEF Topmost
  <2> QED BY <1>1, <2>2, <2>3, <2>4, <2>8, <2>10, <2>11, <2>12, <2>13, Arrives
<1> QED BY <1>2, <1>3

\* A step that declares an empty object and one with a new resource keeps the
\* invariant.
LEMMA EnterKeeps ==
  ASSUME IInv, pc \in Points, NEW p \in Points, pc' = p, NEW a \in Names, NEW r \in Resources,
         r \notin live, NEW n \in Names, NEW o, o = Object(n, {r}, "none"),
         Declares(stack', stack, a, o), live' = live \cup {r},
         UNCHANGED <<granted, refused, args, sxdp_flags, run, leaked>>, bottom' \in Nat,
         Follows(a, stack), Rank(a) < Rank(n),
         OwnerAt(p, r) = n, SameOwners(live, Owners(pc), Owners(p)),
         r \notin {"umem", "attach"}, r = "fd" => n = "fd",
         p \notin {"setrlimit", "mmap"}, LastAt(p, live') = n, LiveAt(p, live'),
         \/ p \notin InUmem \cup InXsk \cup InLoader
         \/ bottom' = Len(stack) + 1 /\ p \in InXsk /\ a = "xsk_result"
         \/ bottom' = Len(stack) + 1 /\ p \in InLoader /\ a = "loader_result",
         p \in {"prepared", "open", "loader_result"} \cup InLoader => Has(stack, "loader") \/ a = "loader",
         Recorded(p)'
  PROVE  IInv'
<1>1. o \in Objects /\ o.name = n /\ o.holds = {r} /\ OwnsOnly(o, r)
  <2>1. "none" \in Modes /\ {r} \in SUBSET Resources
    BY DEF Modes
  <2>2. o \in Objects
    BY <2>1, ObjectTyped
  <2> QED BY SMTT(30), <2>2, ObjectFields DEF OwnsOnly
<1>2. /\ stack' \in Seq(Objects) /\ Sorted(stack') /\ Arranged(stack', live', Owners(p))
      /\ Len(stack') > 0 /\ Last(stack') = o
      /\ Len(stack) + 1 \in DOMAIN stack' /\ stack'[Len(stack) + 1].name = a
      /\ \A k \in DOMAIN stack' : \/ k \in DOMAIN stack /\ stack'[k] = stack[k]
                                  \/ stack'[k] = Empty(a)
                                  \/ stack'[k] = o
      /\ Has(stack, "loader") \/ a = "loader" => Has(stack', "loader")
  BY ZenonT(40), <1>1, EnterEffect
<1>3. Remembered(stack', granted')
  <2>1. Remembered(stack, granted)
    BY Here
  <2>2. Empty(a).holds = {}
    BY ObjectFields
  <2> QED BY ZenonT(40), <1>1, <1>2, <2>1, <2>2 DEF Remembered
<1>4. TypeOK'
  <2>1. TypeOK
    BY DEF IInv
  <2> QED BY <1>2, <2>1 DEF TypeOK
<1>5. Expected(p)'
  <2>1. /\ p \in InXsk => p \notin InUmem /\ p \notin InLoader
        /\ p \in InLoader => p \notin InUmem /\ p \notin InXsk
    BY DEF InUmem, InXsk, InLoader
  <2> QED BY <1>2, <2>1 DEF Expected
<1>6. AtPoint(p)'
  BY <1>2, <1>5 DEF AtPoint
<1>7. Topmost(p)'
  BY <1>1, <1>2 DEF Topmost
<1>8. leaked' \subseteq {"umem"}
  BY Here
<1> QED BY <1>2, <1>3, <1>4, <1>6, <1>7, <1>8, Arrives

\* Xsk::create, the socket.
LEMMA SocketKeeps == IInv /\ Socket => IInv'
<1> SUFFICES ASSUME IInv, Socket PROVE IInv'
  OBVIOUS
<1>1. pc = "socket" /\ UNCHANGED <<args, sxdp_flags, run, leaked>>
  BY DEF Socket, othervars
<1>2. CASE Fails
  BY <1>1, <1>2, Unwinds DEF Fails, kernelvars, IInv, TypeOK
<1>3. CASE ~Fails
  <2> DEFINE o == Object("fd", {"fd"}, "none")
  <2>1. /\ live' = live \cup {"fd"} /\ pc' = "ring_sizes" /\ bottom' = Len(stack) + 1
        /\ Declares(stack', stack, "xsk_result", o) /\ UNCHANGED <<granted, refused>>
    BY <1>3 DEF Socket, Obtain, Entering, Declares
  <2> HIDE DEF o
  <2>2. pc \in Points /\ "ring_sizes" \in Points
    BY <1>1 DEF Points, InXsk
  <2>3. /\ live = {"umem"} /\ Len(stack) > 0 /\ Last(stack).name = "umem" /\ Recorded(pc)
        /\ Len(stack) \in Nat
    <3>1. Topmost(pc) /\ LiveAt(pc, live) /\ Recorded(pc) /\ stack \in Seq(Objects)
      BY <2>2, Here
    <3>2. LastAt("socket", live) = "umem"
      BY DEF LastAt, InUmem, InLoader, Closing
    <3> QED BY SMTT(30), <1>1, <3>1, <3>2 DEF Topmost, LiveAt
  <2>4. /\ OwnerAt("ring_sizes", "fd") = "fd"
        /\ SameOwners(live, Owners("socket"), Owners("ring_sizes"))
    BY <2>3, ResourcesAre DEF SameOwners, Owners, OwnerAt, UmemOwner, XskOwner, XskParts, InXsk, InUmem
  <2>5. Follows("xsk_result", stack) /\ Rank("xsk_result") < Rank("fd")
    BY SMTT(30), <2>3, Ranks DEF Follows
  <2>6. LastAt("ring_sizes", live') = "fd"
    BY DEF LastAt, InUmem, InLoader, Closing
  <2>7. LiveAt("ring_sizes", live')
    BY <2>1, <2>3 DEF LiveAt, InUmem
  <2>8. Recorded("ring_sizes")'
    BY <1>1, <2>1, <2>3 DEF Recorded, InUmem, InXsk, InLoader, Closing
  <2>9. /\ "ring_sizes" \in InXsk /\ "ring_sizes" \notin InLoader \cup {"prepared", "open", "loader_result"}
        /\ "fd" \in Names /\ "xsk_result" \in Names /\ "fd" \in Resources
    BY NamesAre, ResourcesAre DEF InXsk, InLoader, Results
  <2>10. bottom' \in Nat /\ "fd" \notin live
    BY SMTT(30), <2>1, <2>3
  <2> QED BY <1>1, <2>1, <2>2, <2>4, <2>5, <2>6, <2>7, <2>8, <2>9, <2>10, EnterKeeps DEF o
<1> QED BY <1>2, <1>3

\* XdpLoader::create, the object file.
LEMMA OpenObjectKeeps == IInv /\ OpenObject => IInv'
<1> SUFFICES ASSUME IInv, OpenObject PROVE IInv'
  OBVIOUS
<1>1. pc = "open" /\ UNCHANGED <<args, sxdp_flags, run, leaked>>
  BY DEF OpenObject, othervars
<1>2. CASE Fails
  BY <1>1, <1>2, Unwinds DEF Fails, kernelvars, IInv, TypeOK
<1>3. CASE ~Fails
  <2> DEFINE o == Object("l", {"obj"}, "none")
  <2>1. /\ live' = live \cup {"obj"} /\ pc' = "load" /\ bottom' = Len(stack) + 1
        /\ Declares(stack', stack, "loader_result", o) /\ UNCHANGED <<granted, refused>>
    BY <1>3 DEF OpenObject, Obtain, Entering, Declares
  <2> HIDE DEF o
  <2>2. pc \in Points /\ "load" \in Points
    BY <1>1 DEF Points, InLoader
  <2>3. /\ live = {"umem", "worker"} \cup XskParts /\ Recorded(pc)
        /\ Len(stack) > 0 /\ Last(stack).name = "poll_thread" /\ Len(stack) \in Nat
        /\ Has(stack, "loader")
    <3>1. Topmost(pc) /\ LiveAt(pc, live) /\ Recorded(pc) /\ stack \in Seq(Objects) /\ Expected(pc)
      BY <2>2, Here
    <3>2. LastAt("open", live) = "poll_thread"
      BY DEF LastAt, InUmem, InLoader, Closing
    <3> QED BY SMTT(30), <1>1, <3>1, <3>2 DEF Topmost, LiveAt, Expected
  <2>4. OwnerAt("load", "obj") = "l" /\ SameOwners(live, Owners("open"), Owners("load"))
    BY <2>3, ResourcesAre DEF SameOwners, Owners, OwnerAt, UmemOwner, XskOwner, LoaderOwner,
                              XskParts, InXsk, InUmem, InLoader
  <2>5. Follows("loader_result", stack) /\ Rank("loader_result") < Rank("l")
    BY SMTT(30), <2>3, Ranks DEF Follows
  <2>6. LastAt("load", live') = "l"
    BY DEF LastAt, InUmem, InLoader, Closing
  <2>7. LiveAt("load", live')
    BY <2>1, <2>3 DEF LiveAt, InUmem
  <2>8. Recorded("load")'
    BY <1>1, <2>1, <2>3 DEF Recorded, InUmem, InXsk, InLoader, Closing
  <2>9. /\ "load" \in InLoader
        /\ "l" \in Names /\ "loader_result" \in Names /\ "obj" \in Resources
    BY NamesAre, ResourcesAre DEF InLoader, Results
  <2>10. bottom' \in Nat /\ "obj" \notin live
    BY SMTT(30), <2>1, <2>3 DEF XskParts
  <2> QED BY <1>1, <2>1, <2>2, <2>3, <2>4, <2>5, <2>6, <2>7, <2>8, <2>9, <2>10, EnterKeeps DEF o
<1> QED BY <1>2, <1>3

\* run_receiver, loader and thread.
LEMMA SpawnWorkerKeeps == IInv /\ SpawnWorker => IInv'
<1> SUFFICES ASSUME IInv, SpawnWorker PROVE IInv'
  OBVIOUS
<1>1. pc = "spawn" /\ UNCHANGED <<args, sxdp_flags, run, leaked>>
  BY DEF SpawnWorker, othervars
<1>2. CASE Fails
  BY <1>1, <1>2, Unwinds DEF Fails, kernelvars, IInv, TypeOK
<1>3. CASE ~Fails
  <2> DEFINE o == Object("poll_thread", {"worker"}, "none")
  <2>1. /\ live' = live \cup {"worker"} /\ pc' = "prepared"
        /\ Declares(stack', stack, "loader", o) /\ UNCHANGED <<bottom, granted, refused>>
    BY <1>3 DEF SpawnWorker, Obtain, Declares
  <2> HIDE DEF o
  <2>2. pc \in Points /\ "prepared" \in Points
    BY <1>1 DEF Points
  <2>3. /\ live = {"umem"} \cup XskParts /\ Recorded(pc)
        /\ Len(stack) > 0 /\ Last(stack).name = "xsk"
    <3>1. Topmost(pc) /\ LiveAt(pc, live) /\ Recorded(pc)
      BY <2>2, Here
    <3>2. LastAt("spawn", live) = "xsk"
      BY DEF LastAt, InUmem, InLoader, Closing
    <3> QED BY <1>1, <3>1, <3>2 DEF Topmost, LiveAt
  <2>4. /\ OwnerAt("prepared", "worker") = "poll_thread"
        /\ SameOwners(live, Owners("spawn"), Owners("prepared"))
    BY <2>3, ResourcesAre DEF SameOwners, Owners, OwnerAt, UmemOwner, XskOwner,
                              XskParts, InXsk, InUmem
  <2>5. Follows("loader", stack) /\ Rank("loader") < Rank("poll_thread")
    BY SMTT(30), <2>3, Ranks DEF Follows
  <2>6. LastAt("prepared", live') = "poll_thread"
    BY DEF LastAt, InUmem, InLoader, Closing
  <2>7. LiveAt("prepared", live')
    BY <2>1, <2>3 DEF LiveAt, InUmem
  <2>8. Recorded("prepared")'
    BY <1>1, <2>1, <2>3 DEF Recorded, InUmem, InXsk, InLoader, Closing
  <2>9. /\ "prepared" \notin InUmem \cup InXsk \cup InLoader
        /\ "loader" \in Names /\ "poll_thread" \in Names /\ "worker" \in Resources
    BY NamesAre, ResourcesAre DEF InUmem, InXsk, InLoader
  <2>10. bottom' \in Nat /\ "worker" \notin live
    BY <2>1, <2>3 DEF XskParts, IInv, TypeOK
  <2> QED BY <1>1, <2>1, <2>2, <2>4, <2>5, <2>6, <2>7, <2>8, <2>9, <2>10, EnterKeeps DEF o
<1> QED BY <1>2, <1>3

\* The rings are mapped in the order rx, tx, fill, comp.
LEMMA NextRing ==
  ASSUME NEW lv, "fill" \in lv => "tx" \in lv, "tx" \in lv => "rx" \in lv, "comp" \notin lv
  PROVE  FirstIn(Rings, Range(Rings) \ lv) =
           IF "fill" \in lv THEN "comp" ELSE IF "tx" \in lv THEN "fill"
           ELSE IF "rx" \in lv THEN "tx" ELSE "rx"
<1> DEFINE m == IF "fill" \in lv THEN 4 ELSE IF "tx" \in lv THEN 3 ELSE IF "rx" \in lv THEN 2 ELSE 1
           S == Range(Rings) \ lv
<1>1. /\ DOMAIN Rings = 1..4 /\ Rings[1] = "rx" /\ Rings[2] = "tx" /\ Rings[3] = "fill"
      /\ Rings[4] = "comp"
  BY SMTT(30) DEF Rings
<1>2. m \in 1..4 /\ Rings[m] \in S /\ \A j \in 1..(m - 1) : Rings[j] \notin S
  BY SMTT(30), <1>1, RingsAre
<1>3. Rings[m] = IF "fill" \in lv THEN "comp" ELSE IF "tx" \in lv THEN "fill"
                 ELSE IF "rx" \in lv THEN "tx" ELSE "rx"
  BY <1>1
<1> HIDE DEF m, S
<1>4. FirstIn(Rings, S) = Rings[m]
  BY ZenonT(40), <1>1, <1>2, FirstInIs
<1> QED BY <1>3, <1>4 DEF S

\* MmapRing::create.
LEMMA MapRingKeeps == IInv /\ MapRing => IInv'
<1> SUFFICES ASSUME IInv, MapRing PROVE IInv'
  OBVIOUS
<1>1. pc = "map_rings" /\ UNCHANGED <<args, sxdp_flags, run, leaked>>
  BY DEF MapRing, othervars
<1>2. CASE Fails
  BY <1>1, <1>2, Unwinds DEF Fails, kernelvars, IInv, TypeOK
<1>3. CASE ~Fails
  <2> DEFINE r == FirstIn(Rings, Range(Rings) \ live)
             o == Object(r, {r}, "none")
  <2>0. PICK p : p = IF r = "comp" THEN "ifindex" ELSE "map_rings"
    OBVIOUS
  <2>1. /\ live' = live \cup {r} /\ pc' = p /\ stack' = Append(stack, o)
        /\ UNCHANGED <<bottom, granted, refused>>
    BY <1>3, <2>0 DEF MapRing, Obtain
  <2>2. pc \in Points /\ p \in Points /\ p \in InXsk \ {"busy_poll", "assemble"}
    BY <1>1, <2>0 DEF Points, InXsk
  <2>3. /\ {"umem", "fd"} \subseteq live /\ live \subseteq {"umem", "fd", "rx", "tx", "fill"}
        /\ "fill" \in live => "tx" \in live
        /\ "tx" \in live => "rx" \in live
        /\ Len(stack) > 0 /\ Last(stack).name = LastRing(live)
        /\ Recorded(pc) /\ Expected(pc) /\ stack \in Seq(Objects) /\ Sorted(stack)
        /\ Arranged(stack, live, Owners(pc)) /\ Remembered(stack, granted)
        /\ leaked \subseteq {"umem"} /\ TypeOK /\ live \in SUBSET Resources
    <3>1. Topmost(pc) /\ LiveAt(pc, live)
      BY <2>2, Here
    <3>2. LastAt("map_rings", live) = LastRing(live)
      BY DEF LastAt, InUmem, InLoader, Closing
    <3>3. TypeOK
      BY DEF IInv
    <3> QED BY <1>1, <2>2, <3>1, <3>2, <3>3, Here DEF Topmost, LiveAt
  <2>4. r = IF "fill" \in live THEN "comp" ELSE IF "tx" \in live THEN "fill"
            ELSE IF "rx" \in live THEN "tx" ELSE "rx"
    <3>1. "comp" \notin live
      BY <2>3
    <3> QED BY <2>3, <3>1, NextRing
  <2> HIDE DEF r, o
  <2>5. /\ r \in {"rx", "tx", "fill", "comp"} /\ r \notin live
        /\ Rank(LastRing(live)) < Rank(r)
    BY SMTT(30), <2>3, <2>4, Ranks DEF LastRing
  <2>6. o \in Objects /\ o.name = r /\ o.holds = {r} /\ r \in Resources
    <3>1. r \in Names /\ {r} \in SUBSET Resources /\ "none" \in Modes
      BY <2>5, NamesAre, ResourcesAre DEF Modes
    <3> QED BY SMTT(30), <3>1, ObjectTyped, ObjectFields DEF o
  <2>7. Follows(o.name, stack)
    BY <2>3, <2>5, <2>6 DEF Follows
  <2>8. /\ stack' \in Seq(Objects) /\ Sorted(stack') /\ \A k \in DOMAIN stack : stack[k].name # o.name
    BY <2>1, <2>3, <2>6, <2>7, PushSorted
  <2>9. Arranged(stack', live', Owners(p))
    <3>1. Owners(p)[r] = o.name
      BY <2>2, <2>5, <2>6 DEF Owners, OwnerAt, XskOwner, XskParts
    <3>2. SameOwners(live, Owners(pc), Owners(p))
      BY <1>1, <2>0, <2>3 DEF SameOwners, Owners, OwnerAt, UmemOwner, XskOwner, XskParts, InXsk, InUmem
    <3> QED BY <2>1, <2>3, <2>5, <2>6, <2>8, <3>1, <3>2, ObtainArranged
  <2>10. LiveAt(p, live')
    <3>1. CASE r = "comp"
      BY <2>0, <2>1, <2>3, <2>4, <3>1 DEF LiveAt, InUmem, XskParts
    <3>2. CASE r # "comp"
      BY <2>0, <2>1, <2>3, <2>4, <2>5, <3>2 DEF LiveAt, InUmem
    <3> QED BY <3>1, <3>2
  <2>11. Topmost(p)'
    <3>1. Len(stack') > 0 /\ Last(stack') = o
      BY SMTT(30), <2>1, <2>3, <2>6 DEF Last
    <3>2. r = LastAt(p, live')
      <4>1. CASE r = "comp"
        BY <2>0, <4>1 DEF LastAt, InUmem, InLoader, Closing
      <4>2. CASE r # "comp"
        <5>1. LastAt("map_rings", live') = LastRing(live')
          BY DEF LastAt, InUmem, InLoader, Closing
        <5>2. LastRing(live') = r
          BY <2>1, <2>4, <4>2 DEF LastRing
        <5> QED BY <2>0, <4>2, <5>1, <5>2
      <4> QED BY <4>1, <4>2
    <3>3. p \notin {"setrlimit", "mmap"}
      BY <2>0
    <3> QED BY <2>6, <3>1, <3>2, <3>3 DEF Topmost
  <2>12. Expected(p)'
    <3>1. \A k \in DOMAIN stack : k \in DOMAIN stack' /\ stack'[k] = stack[k]
      BY SMTT(30), <2>1, <2>3, <2>6
    <3>2. bottom \in DOMAIN stack /\ stack[bottom].name = "xsk_result"
      BY <1>1, <2>3 DEF Expected, InXsk
    <3>3. p \notin InUmem /\ p \notin InLoader /\ p \notin {"prepared", "open", "loader_result"}
      BY <2>0 DEF InUmem, InLoader
    <3> QED BY <2>1, <3>1, <3>2, <3>3 DEF Expected
  <2>13. Recorded(p)'
    BY <1>1, <2>0, <2>1, <2>3 DEF Recorded, InUmem, InXsk, InLoader, Closing
  <2>14. Remembered(stack', granted')
    <3>1. o.holds \cap {"umem", "fd", "attach"} = {}
      BY <2>5, <2>6
    <3> QED BY <2>1, <2>3, <2>6, <3>1, PushRemembers
  <2>15. TypeOK'
    BY <1>1, <2>1, <2>2, <2>3, <2>6, <2>8 DEF TypeOK
  <2>16. AtPoint(p)'
    BY <2>9, <2>10, <2>12, <2>13 DEF AtPoint
  <2> QED BY <1>1, <2>1, <2>2, <2>3, <2>8, <2>11, <2>14, <2>15, <2>16, Arrives
<1> QED BY <1>2, <1>3

\* The local loader takes on one more resource.
LEMMA WithLocalKeeps ==
  ASSUME IInv, pc \in InLoader, NEW p \in InLoader, pc' = p,
         NEW r \in {"map_entry", "attach"}, r \notin live, "attach" \notin live, NEW mode \in Modes,
         stack' = WithLocal(r, mode), live' = live \cup {r}, LiveAt(p, live'),
         UNCHANGED <<bottom, refused, args, sxdp_flags, run, leaked>>,
         granted' \in Grants, granted'.huge = granted.huge, granted'.bind = granted.bind,
         r = "attach" => granted'.attach = mode
  PROVE  IInv'
<1>1. /\ pc \in Points /\ p \in Points /\ p \notin InUmem /\ p \notin InXsk /\ p \notin Closing
      /\ p \notin {"setrlimit", "mmap", "umem_result", "socket", "busy_poll", "assemble"}
      /\ pc \notin {"setrlimit", "mmap", "umem_result", "socket"} /\ pc \notin InUmem /\ pc \notin InXsk
  BY DEF Points, InLoader, InUmem, InXsk, Closing
<1> DEFINE n == Len(stack)
<1>2. /\ stack \in Seq(Objects) /\ Sorted(stack) /\ Arranged(stack, live, Owners(pc))
      /\ Expected(pc) /\ Recorded(pc) /\ Topmost(pc) /\ Remembered(stack, granted)
      /\ live \in SUBSET Resources /\ leaked \subseteq {"umem"}
  BY <1>1, Here
<1>3. n \in Nat /\ n > 0 /\ n \in DOMAIN stack /\ DOMAIN stack = 1..n /\ stack[n].name = "l"
  <2>1. LastAt(pc, live) = "l"
    BY DEF LastAt, InUmem, InLoader, Closing
  <2>2. Len(stack) > 0 /\ Last(stack).name = "l"
    BY <1>1, <1>2, <2>1 DEF Topmost
  <2> QED BY SMTT(30), <1>2, <2>2 DEF Last
<1> DEFINE o == Object("l", stack[n].holds \cup {r}, mode)
<1>4. /\ o \in Objects /\ o.name = "l" /\ o.holds = stack[n].holds \cup {r} /\ o.mode = mode
      /\ r \in Resources
  <2>1. r \in Resources /\ stack[n].holds \cup {r} \in SUBSET Resources /\ "l" \in Names
    BY <1>2, <1>3, ObjectIs, ResourcesAre, NamesAre
  <2> QED BY SMTT(30), <2>1, ObjectTyped, ObjectFields
<1> HIDE DEF o
<1>5. /\ stack' \in Seq(Objects) /\ Len(stack') = n /\ DOMAIN stack' = DOMAIN stack /\ stack'[n] = o
      /\ \A k \in DOMAIN stack : k # n => stack'[k] = stack[k]
  <2> DEFINE f == Front(stack)
  <2>1. stack' = Append(f, o)
    BY DEF WithLocal, Last, o
  <2>2. /\ f \in Seq(Objects) /\ Len(f) = n - 1 /\ \A k \in 1..(n - 1) : f[k] = stack[k]
    BY <1>2, <1>3, PopSorted
  <2> HIDE DEF f, n
  <2>3. Append(f, o) \in Seq(Objects) /\ Len(Append(f, o)) = n /\ Append(f, o)[n] = o
    BY SMTT(30), <1>3, <1>4, <2>2
  <2>4. \A k \in 1..(n - 1) : Append(f, o)[k] = stack[k]
    BY SMTT(30), <1>3, <1>4, <2>2
  <2> QED BY SMTT(30), <1>3, <2>1, <2>3, <2>4
<1> HIDE DEF n
<1>6. \A k \in DOMAIN stack : stack'[k].name = stack[k].name
  BY <1>3, <1>4, <1>5
<1>7. Sorted(stack')
  BY SMTT(30), <1>2, <1>5, <1>6 DEF Sorted
<1>8. /\ Owners(p)[r] = "l" /\ SameOwners(live, Owners(pc), Owners(p))
      /\ \A q \in live : Owners(pc)[q] = OwnerAt(pc, q)
  BY <1>1, <1>2, ResourcesAre DEF SameOwners, Owners, OwnerAt, UmemOwner, XskOwner, LoaderOwner,
                                  XskParts, InLoader
<1>9. Arranged(stack', live', Owners(p))
  <2>1. \A k \in DOMAIN stack' : stack'[k].holds = {q \in live' : Owners(p)[q] = stack'[k].name}
    <3> TAKE k \in DOMAIN stack'
    <3>1. stack[k].holds = {q \in live : Owners(p)[q] = stack[k].name}
      BY SMTT(30), <1>2, <1>5, <1>8 DEF Arranged, SameOwners
    <3>2. CASE k = n
      BY SMTT(30), <1>3, <1>4, <1>5, <1>8, <3>1, <3>2
    <3>3. CASE k # n
      <4>1. stack[k].name # "l"
        BY SMTT(30), <1>2, <1>3, <1>5, <3>3, OneOfAName
      <4> QED BY SMTT(30), <1>5, <1>8, <3>1, <3>3, <4>1
    <3> QED BY <3>2, <3>3
  <2>2. \A q \in live' : \E k \in DOMAIN stack' : stack'[k].name = Owners(p)[q]
    <3>1. \A q \in live : \E k \in DOMAIN stack : stack[k].name = Owners(p)[q]
      BY SMTT(30), <1>2, <1>8 DEF Arranged, SameOwners
    <3> QED BY SMTT(30), <1>3, <1>5, <1>6, <1>8, <3>1
  <2> QED BY <2>1, <2>2 DEF Arranged
<1>10. Remembered(stack', granted')
  <2>1. \A k \in DOMAIN stack : "attach" \notin stack[k].holds
    BY <1>2 DEF Arranged
  <2>2. "umem" \notin stack[n].holds /\ "fd" \notin stack[n].holds
    <3>1. OwnerAt(pc, "umem") # "l" /\ OwnerAt(pc, "fd") # "l"
      BY <1>1 DEF OwnerAt, UmemOwner, XskOwner, XskParts
    <3> QED BY SMTT(30), <1>2, <1>3, <1>8, <3>1 DEF Arranged
  <2> QED BY SMTT(30), <1>2, <1>4, <1>5, <2>1, <2>2 DEF Remembered
<1>11. TypeOK'
  <2>1. TypeOK
    BY DEF IInv
  <2> QED BY <1>1, <1>4, <1>5, <2>1 DEF TypeOK
<1>12. Expected(p)'
  BY <1>1, <1>2, <1>5, <1>6 DEF Expected, Has
<1>13. Recorded(p)'
  BY <1>1, <1>2 DEF Recorded
<1>14. Topmost(p)'
  <2>1. LastAt(p, live') = "l"
    BY DEF LastAt, InUmem, InLoader, Closing
  <2> QED BY <1>1, <1>3, <1>4, <1>5, <2>1 DEF Topmost, Last
<1>15. AtPoint(p)'
  BY <1>9, <1>12, <1>13 DEF AtPoint
<1> QED BY <1>1, <1>2, <1>7, <1>10, <1>11, <1>14, <1>15, Arrives

\* XdpLoader::create, the map entry.
LEMMA UpdateXsksMapKeeps == IInv /\ UpdateXsksMap => IInv'
<1> SUFFICES ASSUME IInv, UpdateXsksMap PROVE IInv'
  OBVIOUS
<1>1. pc = "map_update" /\ UNCHANGED <<args, sxdp_flags, run, leaked>>
  BY DEF UpdateXsksMap, othervars
<1>2. CASE Fails
  BY <1>1, <1>2, Unwinds DEF Fails, kernelvars, IInv, TypeOK
<1>3. CASE ~Fails
  <2>1. /\ live' = live \cup {"map_entry"} /\ pc' = "filter_ip"
        /\ stack' = WithLocal("map_entry", "none") /\ UNCHANGED <<bottom, granted, refused>>
    BY <1>3 DEF UpdateXsksMap, Obtain
  <2>2. pc \in Points /\ pc \in InLoader /\ "filter_ip" \in InLoader /\ "none" \in Modes
    BY <1>1 DEF Points, InLoader, Modes
  <2>3. live = {"umem", "worker", "obj"} \cup XskParts
    <3>1. LiveAt(pc, live)
      BY <2>2, Here
    <3> QED BY <1>1, <3>1 DEF LiveAt
  <2>4. LiveAt("filter_ip", live') /\ "attach" \notin live /\ "map_entry" \notin live
    BY <2>1, <2>3, ResourcesAre DEF LiveAt, InUmem, XskParts
  <2>5. granted' \in Grants
    BY <2>1 DEF IInv, TypeOK
  <2> QED BY <1>1, <2>1, <2>2, <2>4, <2>5, WithLocalKeeps
<1> QED BY <1>2, <1>3

\* Attaching in either mode.
LEMMA AttachKeeps ==
  ASSUME IInv, pc \in {"attach_drv", "attach_skb"}, NEW mode \in {"drv", "skb"}, Attach(mode),
         UNCHANGED <<args, sxdp_flags, run, leaked>>
  PROVE  IInv'
<1>1. /\ live' = live \cup {"attach"} /\ pc' = "attach_log" /\ stack' = WithLocal("attach", mode)
      /\ granted' = [granted EXCEPT !.attach = mode] /\ UNCHANGED <<bottom, refused>>
  BY DEF Attach, Obtain
<1>2. pc \in Points /\ pc \in InLoader /\ "attach_log" \in InLoader /\ mode \in Modes
  BY DEF Points, InLoader, Modes
<1>3. live = Resources \ {"attach"}
  <2>1. LiveAt(pc, live)
    BY <1>2, Here
  <2> QED BY <2>1 DEF LiveAt
<1>4. LiveAt("attach_log", live') /\ "attach" \notin live
  BY <1>1, <1>3, ResourcesAre DEF LiveAt, InUmem
<1>5. /\ granted' \in Grants /\ granted'.huge = granted.huge /\ granted'.bind = granted.bind
      /\ granted'.attach = mode
  <2>1. granted \in Grants
    BY DEF IInv, TypeOK
  <2> QED BY <1>1, <2>1 DEF Grants
<1> QED BY <1>1, <1>2, <1>4, <1>5, WithLocalKeeps

\* Attaching in driver mode, with the fallback still to come.
LEMMA AttachDrvKeeps == IInv /\ AttachDrv => IInv'
<1> SUFFICES ASSUME IInv, AttachDrv PROVE IInv'
  OBVIOUS
<1>1. pc = "attach_drv" /\ UNCHANGED <<args, sxdp_flags, run, leaked>>
  BY DEF AttachDrv, othervars
<1>2. CASE Attach("drv")
  BY <1>1, <1>2, AttachKeeps
<1>3. CASE pc' = "unwinding" /\ UNCHANGED <<stack, bottom, kernelvars>>
  BY <1>1, <1>3, Unwinds DEF kernelvars, IInv, TypeOK
<1>4. CASE pc' = "attach_skb" /\ UNCHANGED <<stack, bottom, kernelvars>>
  BY SMTT(30), <1>1, <1>4, CallKeeps DEF Call, Stages, kernelvars, othervars
<1> QED BY <1>2, <1>3, <1>4 DEF AttachDrv

\* Attaching in generic mode.
LEMMA AttachSkbKeeps == IInv /\ AttachSkb => IInv'
<1> SUFFICES ASSUME IInv, AttachSkb PROVE IInv'
  OBVIOUS
<1>1. pc = "attach_skb" /\ UNCHANGED <<args, sxdp_flags, run, leaked>>
  BY DEF AttachSkb, othervars
<1>2. CASE Attach("skb")
  BY <1>1, <1>2, AttachKeeps
<1>3. CASE Fails
  BY <1>1, <1>3, Unwinds DEF Fails, kernelvars, IInv, TypeOK
<1> QED BY <1>2, <1>3 DEF AttachSkb

\* Between the two binds, and after either.
LEMMA BindsKeep ==
  ASSUME IInv, NEW p \in {"bind_copy", "busy_poll"}, <<pc, p>> \in Stages, pc \in {"bind", "bind_copy"},
         pc' = p, UNCHANGED <<stack, bottom, live, refused, args, run, leaked>>,
         sxdp_flags' \in {{}, {"zerocopy"}, {"copy"}}, p = "bind_copy" => sxdp_flags' = {},
         granted' \in Grants, granted'.huge = granted.huge, granted'.attach = granted.attach,
         p = "busy_poll" => ("zerocopy" \in sxdp_flags' <=> granted'.bind = "zero_copy")
  PROVE  IInv'
<1>1. /\ pc \in Points /\ p \in Points
      /\ Arranged(stack', live', Owners(p)) /\ LiveAt(p, live')
      /\ Expected(p)' /\ Topmost(p)' /\ Sorted(stack')
  BY StageKeeps
<1>2. Recorded(pc) /\ Remembered(stack, granted) /\ leaked \subseteq {"umem"}
      /\ Arranged(stack, live, Owners(pc)) /\ live \in SUBSET Resources
  BY <1>1, Here
<1>3. Recorded(p)'
  BY <1>2 DEF Recorded, InUmem, InXsk, InLoader, Closing
<1>4. Remembered(stack', granted')
  <2>1. \A k \in DOMAIN stack : "fd" \in stack[k].holds => stack[k].name = "fd"
    <3>1. OwnerAt(pc, "fd") = "fd"
      BY DEF OwnerAt, XskOwner, XskParts, InXsk
    <3> QED BY <1>2, <3>1 DEF Arranged, Owners
  <2> QED BY <1>2, <2>1 DEF Remembered
<1>5. TypeOK'
  <2>1. TypeOK
    BY DEF IInv
  <2> QED BY <1>1, <2>1 DEF TypeOK
<1>6. AtPoint(p)'
  BY <1>1, <1>3 DEF AtPoint
<1> QED BY <1>1, <1>2, <1>4, <1>5, <1>6, Arrives

\* The bind in zero-copy mode.
LEMMA BindZeroCopyKeeps == IInv /\ BindZeroCopy => IInv'
<1> SUFFICES ASSUME IInv, BindZeroCopy PROVE IInv'
  OBVIOUS
<1>1. pc = "bind" /\ UNCHANGED <<stack, bottom, live, refused, args, run, leaked>>
  BY DEF BindZeroCopy
<1>2. granted \in Grants
  BY DEF IInv, TypeOK
<1>3. sxdp_flags = {}
  <2>1. pc \in Points
    BY <1>1 DEF Points, InXsk
  <2>2. Recorded(pc)
    BY <2>1, Here
  <2> QED BY <1>1, <2>2 DEF Recorded, InXsk
<1>4. CASE Bind({"zerocopy"}, "zero_copy", "busy_poll") /\ sxdp_flags' = {"zerocopy"}
  <2>1. pc' = "busy_poll" /\ granted' = [granted EXCEPT !.bind = "zero_copy"]
    BY <1>4 DEF Bind
  <2>2. /\ granted' \in Grants /\ granted'.huge = granted.huge
        /\ granted'.attach = granted.attach /\ granted'.bind = "zero_copy"
    BY <1>2, <2>1 DEF Grants
  <2>3. "zerocopy" \in sxdp_flags' /\ sxdp_flags' \in {{}, {"zerocopy"}, {"copy"}}
    BY <1>4
  <2>4. <<pc, "busy_poll">> \in Stages
    BY <1>1 DEF Stages
  <2> QED BY <1>1, <2>1, <2>2, <2>3, <2>4, BindsKeep
<1>5. CASE pc' = "bind_copy" /\ sxdp_flags' = {} /\ granted' = granted
  <2>1. <<pc, "bind_copy">> \in Stages
    BY <1>1 DEF Stages
  <2> QED BY <1>1, <1>2, <1>5, <2>1, BindsKeep
<1>6. CASE pc' = "unwinding" /\ sxdp_flags' = {} /\ granted' = granted
  BY <1>1, <1>6, Unwinds
<1> QED BY <1>3, <1>4, <1>5, <1>6 DEF BindZeroCopy

\* The bind in copy mode.
LEMMA BindCopyKeeps == IInv /\ BindCopy => IInv'
<1> SUFFICES ASSUME IInv, BindCopy PROVE IInv'
  OBVIOUS
<1>1. /\ pc = "bind_copy" /\ UNCHANGED <<stack, bottom, live, refused, args, run, leaked>>
      /\ sxdp_flags' = sxdp_flags \cup {"copy"}
  BY DEF BindCopy
<1>2. granted \in Grants
  BY DEF IInv, TypeOK
<1>3. sxdp_flags' = {"copy"}
  <2>1. pc \in Points
    BY <1>1 DEF Points, InXsk
  <2>2. Recorded(pc)
    BY <2>1, Here
  <2> QED BY <1>1, <2>2 DEF Recorded, InXsk
<1>4. CASE Bind(sxdp_flags', "copy", "busy_poll")
  <2>1. pc' = "busy_poll" /\ granted' = [granted EXCEPT !.bind = "copy"]
    BY <1>4 DEF Bind
  <2>2. /\ granted' \in Grants /\ granted'.huge = granted.huge
        /\ granted'.attach = granted.attach /\ granted'.bind = "copy"
    BY <1>2, <2>1 DEF Grants
  <2>3. "zerocopy" \notin sxdp_flags' /\ sxdp_flags' \in {{}, {"zerocopy"}, {"copy"}}
    BY <1>3
  <2>4. <<pc, "busy_poll">> \in Stages
    BY <1>1 DEF Stages
  <2> QED BY <1>1, <2>1, <2>2, <2>3, <2>4, BindsKeep
<1>5. CASE pc' = "unwinding" /\ UNCHANGED granted
  BY <1>1, <1>3, <1>5, Unwinds
<1> QED BY <1>4, <1>5 DEF BindCopy

-----------------------------------------------------------------------------
(***************************************************************************)
(* Returning from a create function.                                       *)
(***************************************************************************)
\* What declaring an empty object leaves.
LEMMA Pushed ==
  ASSUME NEW s \in Seq(Objects), NEW lv \in SUBSET Resources, NEW own, NEW g, NEW n \in Names,
         Sorted(s), Arranged(s, lv, own), Remembered(s, g), Follows(n, s), NEW t, Pushes(t, s, n)
  PROVE  /\ t \in Seq(Objects) /\ Sorted(t) /\ Arranged(t, lv, own) /\ Remembered(t, g)
         /\ Len(t) = Len(s) + 1 /\ Len(s) \in Nat /\ t[Len(s) + 1] = Empty(n) /\ Len(s) + 1 \in DOMAIN t
         /\ \A k \in DOMAIN s : k \in DOMAIN t /\ t[k] = s[k] /\ k # Len(s) + 1
         /\ \A k \in DOMAIN t : k \in DOMAIN s \/ k = Len(s) + 1
<1>1. Empty(n) \in Objects /\ Empty(n).name = n /\ Empty(n).holds = {}
  BY ObjectFields DEF Empty, Object, Objects, Modes
<1>2. t \in Seq(Objects) /\ Sorted(t) /\ \A k \in DOMAIN s : s[k].name # n
  BY <1>1, PushSorted DEF Pushes
<1>3. \A r \in lv : own[r] # n
  BY <1>2 DEF Arranged
<1>4. Arranged(t, lv, own)
  BY <1>1, <1>3, PushArranged DEF Pushes
<1>5. Remembered(t, g)
  <2>1. Empty(n).holds \cap {"umem", "fd", "attach"} = {}
    BY <1>1
  <2> QED BY <1>1, <2>1, PushRemembers DEF Pushes
<1>6. /\ Len(t) = Len(s) + 1 /\ Len(s) \in Nat /\ t[Len(s) + 1] = Empty(n) /\ Len(s) + 1 \in DOMAIN t
      /\ \A k \in DOMAIN s : k \in DOMAIN t /\ t[k] = s[k] /\ k # Len(s) + 1
      /\ \A k \in DOMAIN t : k \in DOMAIN s \/ k = Len(s) + 1
  BY SMTT(30), <1>1 DEF Pushes
<1> QED BY <1>2, <1>4, <1>5, <1>6

\* return: the local is moved into the result and its destructors are to run.
LEMMA ReturnKeeps ==
  ASSUME IInv, pc \in Points, NEW s \in Seq(Objects), Sorted(s), NEW own, Arranged(s, live, own),
         Remembered(s, granted), NEW result \in Results, NEW b \in DOMAIN s,
         bottom \in DOMAIN s, s[bottom].name = result, s[b].name # "fd", s[b].name # result,
         HandsOn(live, own, Owners(result), result, {s[b].name}),
         stack' = Move(s, result, s[b].name), pc' = "returning",
         UNCHANGED <<bottom, live, granted, refused, args, sxdp_flags, run, leaked>>,
         LiveAt(result, live), result = "loader_result" => Has(s, "loader"), Recorded(result)
  PROVE  IInv'
<1>0. live \in SUBSET Resources /\ leaked \subseteq {"umem"} /\ TypeOK
  BY Here DEF IInv
<1>1. /\ stack' \in Seq(Objects) /\ Sorted(stack') /\ Arranged(stack', live, Owners(result))
      /\ Transferred(stack', s, bottom, b)
  <2>1. bottom # b /\ Moves(stack', s, bottom, b)
    BY DEF Moves
  <2>2. HandsOn(live, own, Owners(result), s[bottom].name, {s[b].name})
    OBVIOUS
  <2> QED BY ZenonT(40), <1>0, <2>1, <2>2, MoveEffect
<1>2. Remembered(stack', granted)
  BY <1>1, MoveRemembers
<1>3. Expected(result)'
  <2>1. result \notin InUmem \cup InXsk \cup InLoader
    BY DEF Results, InUmem, InXsk, InLoader
  <2> QED BY <1>1, <2>1 DEF Expected, Has, Results, Transferred
<1>4. Recorded(result)'
  BY DEF Recorded
<1>5. AtPoint(result)'
  BY <1>1, <1>3, <1>4 DEF AtPoint
<1>6. TypeOK'
  BY <1>0, <1>1 DEF TypeOK
<1>7. result \in Points
  BY PointsAre
<1>8. bottom' \in DOMAIN stack' /\ stack'[bottom'].name = result
  BY <1>1 DEF Transferred
<1> QED BY <1>0, <1>1, <1>2, <1>5, <1>6, <1>7, <1>8, Arrives

\* Umem::create returns u, which has taken over the raw pointer.
LEMMA MlockReturns ==
  ASSUME IInv, pc = "mlock", Return(Move(Append(stack, Empty("u")), "u", "base"), "u", "umem_result"),
         UNCHANGED <<live, bottom, granted, refused, othervars>>
  PROVE  IInv'
<1> DEFINE n == Len(stack)
<1>1. PICK s0, s1 : s0 = Append(stack, Empty("u")) /\ s1 = Move(s0, "u", "base")
  OBVIOUS
<1>2. pc' = "returning" /\ stack' = Move(s1, "umem_result", "u")
  BY <1>1 DEF Return
<1>3. pc \in Points
  BY DEF Points, InUmem
<1>4. /\ stack \in Seq(Objects) /\ Sorted(stack) /\ Arranged(stack, live, Owners("mlock"))
      /\ Remembered(stack, granted) /\ Recorded("mlock") /\ live = {"umem"}
      /\ bottom \in DOMAIN stack /\ stack[bottom].name = "umem_result"
      /\ n \in DOMAIN stack /\ stack[n].name = "base" /\ Len(stack) > 0 /\ Last(stack).name = "base"
      /\ live \in SUBSET Resources
  <2>1. LastAt("mlock", live) = "base"
    BY DEF LastAt, InUmem, InLoader, Closing
  <2>2. Topmost(pc) /\ LiveAt(pc, live) /\ Expected(pc) /\ stack \in Seq(Objects)
    BY <1>3, Here
  <2>3. Len(stack) > 0 /\ Last(stack).name = "base"
    BY <2>1, <2>2 DEF Topmost
  <2> QED BY SMTT(30), <1>3, <2>2, <2>3, Here DEF LiveAt, Expected, InUmem, Last
<1>5. /\ s0 \in Seq(Objects) /\ Sorted(s0) /\ Arranged(s0, live, Owners("mlock"))
      /\ Remembered(s0, granted) /\ s0[n + 1] = Empty("u") /\ n + 1 \in DOMAIN s0
      /\ \A k \in DOMAIN stack : k \in DOMAIN s0 /\ s0[k] = stack[k] /\ k # n + 1
  <2>1. Follows("u", stack) /\ "u" \in Names /\ Pushes(s0, stack, "u")
    BY SMTT(30), <1>1, <1>4, Ranks, NamesAre DEF Follows, Pushes
  <2> QED BY ZenonT(40), <1>4, <2>1, Pushed
<1> HIDE DEF n
<1>6. s0[n + 1].name = "u" /\ s0[n].name = "base" /\ s0[bottom].name = "umem_result"
  BY <1>4, <1>5, ObjectFields
<1> DEFINE own == [r \in Resources |-> "u"]
<1>7. /\ HandsOn(live, Owners("mlock"), own, s0[n + 1].name, {s0[n].name})
      /\ HandsOn(live, own, Owners("umem_result"), "umem_result", {"u"})
  BY <1>4, <1>6 DEF HandsOn, Owners, OwnerAt, UmemOwner, InUmem
<1> HIDE DEF own
<1>8. /\ s1 \in Seq(Objects) /\ Sorted(s1) /\ Arranged(s1, live, own)
      /\ Transferred(s1, s0, n + 1, n)
  <2>1. Moves(s1, s0, n + 1, n)
    BY <1>1, <1>6 DEF Moves
  <2>2. n + 1 \in DOMAIN s0 /\ n \in DOMAIN s0 /\ n + 1 # n
    BY <1>4, <1>5
  <2> QED BY <1>4, <1>5, <1>7, <2>1, <2>2, MoveEffect
<1>9. Remembered(s1, granted)
  <2>1. n + 1 \in DOMAIN s0 /\ n \in DOMAIN s0 /\ s0[n].name # "fd"
    BY <1>4, <1>5, <1>6
  <2> QED BY <1>5, <1>8, <2>1, MoveRemembers
<1>10. LiveAt("umem_result", live)
  BY <1>4 DEF LiveAt, InUmem
<1>11. Recorded("umem_result")
  BY <1>4 DEF Recorded, InUmem, InXsk, InLoader, Closing
<1>12. /\ n + 1 \in DOMAIN s1 /\ s1[n + 1].name = "u" /\ bottom \in DOMAIN s1
       /\ s1[bottom].name = "umem_result"
  BY <1>4, <1>5, <1>6, <1>8 DEF Transferred
<1>13. UNCHANGED <<args, sxdp_flags, run, leaked>> /\ "umem_result" \in Results
  BY DEF othervars, Results
<1> QED BY <1>2, <1>3, <1>7, <1>8, <1>9, <1>10, <1>11, <1>12, <1>13, ReturnKeeps

\* Xsk::create returns the socket and the four rings as one object.
LEMMA AssembleXskKeeps == IInv /\ AssembleXsk => IInv'
<1> SUFFICES ASSUME IInv, AssembleXsk PROVE IInv'
  OBVIOUS
<1> DEFINE n   == Len(stack)
           src == {"fd"} \cup Range(Rings)
<1>1. PICK mode, s0, s1 : /\ mode = IF "zerocopy" \in sxdp_flags THEN "zero_copy" ELSE "none"
                          /\ s0 = Append(stack, Empty("x")) /\ s1 = HandOver(s0, "x", src, mode)
  OBVIOUS
<1>2. /\ pc = "assemble" /\ pc' = "returning" /\ stack' = Move(s1, "xsk_result", "x")
      /\ UNCHANGED <<bottom, live, granted, refused, args, sxdp_flags, run, leaked>>
  BY <1>1 DEF AssembleXsk, Return, kernelvars, othervars
<1>3. pc \in Points /\ src = XskParts
  BY <1>2, RingsAre DEF Points, InXsk, XskParts
<1> HIDE DEF src
<1>4. /\ stack \in Seq(Objects) /\ Sorted(stack) /\ Arranged(stack, live, Owners("assemble"))
      /\ Remembered(stack, granted) /\ Recorded("assemble") /\ live = {"umem"} \cup XskParts
      /\ bottom \in DOMAIN stack /\ stack[bottom].name = "xsk_result"
      /\ Len(stack) > 0 /\ Last(stack).name = "comp" /\ live \in SUBSET Resources
  <2>1. LastAt("assemble", live) = "comp"
    BY DEF LastAt, InUmem, InLoader, Closing
  <2>2. Topmost(pc) /\ LiveAt(pc, live) /\ Expected(pc)
    BY <1>3, Here
  <2> QED BY <1>2, <1>3, <2>1, <2>2, Here DEF Topmost, LiveAt, Expected, InXsk
<1>5. /\ s0 \in Seq(Objects) /\ Sorted(s0) /\ Arranged(s0, live, Owners("assemble"))
      /\ Remembered(s0, granted) /\ s0[n + 1] = Empty("x") /\ n + 1 \in DOMAIN s0
      /\ \A k \in DOMAIN stack : k \in DOMAIN s0 /\ s0[k] = stack[k] /\ k # n + 1
  <2>1. Follows("x", stack) /\ "x" \in Names /\ Pushes(s0, stack, "x")
    BY SMTT(30), <1>1, <1>4, Ranks, NamesAre DEF Follows, Pushes
  <2> QED BY ZenonT(40), <1>4, <2>1, Pushed
<1> HIDE DEF n
<1>6. s0[n + 1].name = "x" /\ s0[bottom].name = "xsk_result" /\ bottom \in DOMAIN s0
  BY <1>4, <1>5, ObjectFields
<1> DEFINE own == [r \in Resources |-> IF r \in XskParts THEN "x" ELSE "umem"]
<1>7. /\ HandsOn(live, Owners("assemble"), own, "x", src)
      /\ HandsOn(live, own, Owners("xsk_result"), "xsk_result", {"x"})
  BY <1>3, <1>4 DEF HandsOn, Owners, OwnerAt, UmemOwner, XskOwner, XskParts, InUmem, InXsk
<1> HIDE DEF own
<1>8. "x" \in Names /\ src \in SUBSET Names /\ "x" \notin src /\ mode \in Modes
  BY <1>1, <1>3, NamesAre DEF XskParts, Modes
<1>9. /\ s1 \in Seq(Objects) /\ DOMAIN s1 = DOMAIN s0 /\ Sorted(s1)
      /\ \A k \in DOMAIN s0 :
           /\ s1[k].name = s0[k].name
           /\ s0[k].name = "x" => s1[k] = Object("x", HeldBy(s0, src), mode)
           /\ s0[k].name \in src => s1[k].holds = {}
           /\ s0[k].name \notin src \cup {"x"} => s1[k] = s0[k]
  <2>1. HandsOver(s1, s0, "x", src, mode)
    BY <1>1 DEF HandsOver
  <2> QED BY SMTT(30), <1>5, <1>8, <2>1, HandOverEffect
<1>10. Arranged(s1, live, own)
  <2>1. Has(s0, "x")
    BY <1>5, <1>6 DEF Has
  <2> QED BY <1>1, <1>4, <1>5, <1>7, <1>8, <2>1, HandOverArranged
<1>11. Remembered(s1, granted)
  <2>1. \A r : r \in HeldBy(s0, src) <=> r \in live /\ Owners("assemble")[r] \in src
    BY <1>5, HeldByOwners
  <2>2. "umem" \notin HeldBy(s0, src) /\ "attach" \notin HeldBy(s0, src)
    <3>1. Owners("assemble")["umem"] = "umem"
      BY ResourcesAre DEF Owners, OwnerAt, UmemOwner, InUmem
    <3> QED BY SMTT(30), <1>3, <1>4, <2>1, <3>1 DEF XskParts
  <2>3. mode = "zero_copy" <=> granted.bind = "zero_copy"
    BY <1>1, <1>4 DEF Recorded
  <2>4. \A k \in DOMAIN s1 :
          \/ s1[k].holds = {}
          \/ s1[k] = s0[k]
          \/ (s1[k].holds = HeldBy(s0, src) /\ s1[k].mode = mode)
    BY SMTT(30), <1>9, ObjectFields
  <2> QED BY SMTT(30), <1>5, <1>9, <2>2, <2>3, <2>4 DEF Remembered
<1>12. LiveAt("xsk_result", live)
  BY <1>4 DEF LiveAt, InUmem
<1>13. Recorded("xsk_result")
  BY <1>4 DEF Recorded, InUmem, InXsk, InLoader, Closing
<1>14. /\ n + 1 \in DOMAIN s1 /\ s1[n + 1].name = "x" /\ bottom \in DOMAIN s1
       /\ s1[bottom].name = "xsk_result" /\ "xsk_result" \in Results
  BY <1>5, <1>6, <1>9 DEF Results
<1> QED BY <1>2, <1>3, <1>7, <1>9, <1>10, <1>11, <1>12, <1>13, <1>14, ReturnKeeps

\* XdpLoader::create returns its loader.
LEMMA ReturnLoaderKeeps == IInv /\ ReturnLoader => IInv'
<1> SUFFICES ASSUME IInv, ReturnLoader PROVE IInv'
  OBVIOUS
<1> DEFINE n == Len(stack)
<1>1. /\ pc = "return_loader" /\ pc' = "returning" /\ stack' = Move(stack, "loader_result", "l")
      /\ UNCHANGED <<bottom, live, granted, refused, args, sxdp_flags, run, leaked>>
  BY DEF ReturnLoader, Return, kernelvars, othervars
<1>2. pc \in Points /\ pc \in InLoader
  BY <1>1 DEF Points, InLoader
<1>3. /\ stack \in Seq(Objects) /\ Sorted(stack) /\ Arranged(stack, live, Owners("return_loader"))
      /\ Remembered(stack, granted) /\ Recorded("return_loader") /\ live = Resources
      /\ bottom \in DOMAIN stack /\ stack[bottom].name = "loader_result" /\ Has(stack, "loader")
      /\ n \in DOMAIN stack /\ stack[n].name = "l"
  <2>1. LastAt("return_loader", live) = "l"
    BY DEF LastAt, InUmem, InLoader, Closing
  <2>2. Topmost(pc) /\ LiveAt(pc, live) /\ Expected(pc) /\ stack \in Seq(Objects)
    BY <1>2, Here
  <2>3. Len(stack) > 0 /\ Last(stack).name = "l"
    BY <1>1, <2>1, <2>2 DEF Topmost
  <2> QED BY SMTT(30), <1>1, <1>2, <2>2, <2>3, Here DEF LiveAt, Expected, Last
<1>4. HandsOn(live, Owners("return_loader"), Owners("loader_result"), "loader_result", {"l"})
  BY <1>3, ResourcesAre DEF HandsOn, Owners, OwnerAt, UmemOwner, XskOwner, LoaderOwner, XskParts,
                            InUmem, InXsk, InLoader
<1>5. LiveAt("loader_result", live)
  BY <1>3 DEF LiveAt, InUmem
<1>6. Recorded("loader_result")
  BY <1>3 DEF Recorded, InUmem, InXsk, InLoader, Closing
<1> HIDE DEF n
<1> QED BY <1>1, <1>2, <1>3, <1>4, <1>5, <1>6, ReturnKeeps DEF Results

-----------------------------------------------------------------------------
(***************************************************************************)
(* Taking the results.                                                     *)
(***************************************************************************)
\* An owner holds what it owns.
LEMMA HoldsOwn ==
  ASSUME NEW s, NEW lv \in SUBSET Resources, NEW p, Arranged(s, lv, Owners(p)),
         NEW k \in DOMAIN s, NEW r \in lv, OwnerAt(p, r) = s[k].name
  PROVE  r \in s[k].holds
<1>1. Owners(p)[r] = s[k].name
  BY DEF Owners
<1> QED BY <1>1 DEF Arranged

\* t is s after its last object was moved into a new one.
Takes(t, s, dst) == t = Move(Append(s, Empty(dst)), dst, Last(s).name)

\* main's variable is move-constructed from the result of a create function.
LEMMA TakeEffect ==
  ASSUME NEW s \in Seq(Objects), NEW lv \in SUBSET Resources, NEW own, NEW own2, NEW g,
         NEW dst \in Names, Sorted(s), Arranged(s, lv, own), Remembered(s, g),
         Len(s) > 0, Last(s).name # "fd", Follows(dst, s),
         HandsOn(lv, own, own2, dst, {Last(s).name}), NEW t, Takes(t, s, dst)
  PROVE  /\ t \in Seq(Objects) /\ Sorted(t) /\ Arranged(t, lv, own2) /\ Remembered(t, g)
         /\ Len(t) > 0 /\ Last(t).name = dst /\ Last(t).mode = Last(s).mode
<1> DEFINE n == Len(s)
<1>1. PICK u : u = Append(s, Empty(dst))
  OBVIOUS
<1>2. Pushes(u, s, dst) /\ t = Move(u, dst, s[n].name)
  BY <1>1 DEF Pushes, Takes, Last
<1>3. /\ u \in Seq(Objects) /\ Sorted(u) /\ Arranged(u, lv, own)
      /\ Remembered(u, g) /\ Len(u) = n + 1 /\ u[n + 1] = Empty(dst) /\ n + 1 \in DOMAIN u
      /\ \A k \in DOMAIN s : k \in DOMAIN u /\ u[k] = s[k] /\ k # n + 1
  BY <1>2, Pushed
<1>4. n \in DOMAIN s /\ n \in Nat /\ n > 0
  BY SMTT(30)
<1>5. u[n + 1].name = dst /\ u[n] = s[n] /\ n \in DOMAIN u /\ n + 1 # n
  BY <1>3, <1>4, ObjectFields
<1>6. HandsOn(lv, own, own2, u[n + 1].name, {u[n].name}) /\ Moves(t, u, n + 1, n) /\ u[n].name # "fd"
  BY <1>2, <1>5 DEF Last, Moves
<1> HIDE DEF n
<1>7. t \in Seq(Objects) /\ Sorted(t) /\ Arranged(t, lv, own2) /\ Transferred(t, u, n + 1, n)
  BY <1>3, <1>5, <1>6, MoveEffect
<1>8. Remembered(t, g)
  BY <1>3, <1>5, <1>6, <1>7, MoveRemembers
<1>9. Len(t) = n + 1 /\ n + 1 > 0
  <2>1. DOMAIN t = DOMAIN u
    BY <1>7 DEF Transferred
  <2> QED BY SMTT(30), <1>3, <1>4, <1>7, <2>1
<1>10. Last(t).name = dst /\ Last(t).mode = s[n].mode
  BY <1>3, <1>5, <1>7, <1>9 DEF Last, Transferred
<1> QED BY <1>7, <1>8, <1>9, <1>10 DEF n, Last

\* When a create function is done its result is the object declared last.
LEMMA LastIsResult ==
  ASSUME IInv, pc \in Results
  PROVE  /\ pc \in Points /\ stack \in Seq(Objects) /\ Sorted(stack) /\ Remembered(stack, granted)
         /\ live \in SUBSET Resources /\ Arranged(stack, live, Owners(pc))
         /\ Len(stack) > 0 /\ Len(stack) \in DOMAIN stack /\ Last(stack).name = pc
<1>1. pc \in Points
  BY PointsAre
<1>2. LastAt(pc, live) = pc /\ pc \notin {"setrlimit", "mmap"}
  BY DEF LastAt, InUmem, InLoader, Closing, Results
<1>3. Topmost(pc) /\ stack \in Seq(Objects)
  BY <1>1, Here
<1>4. Len(stack) > 0 /\ Last(stack).name = pc
  BY <1>2, <1>3 DEF Topmost
<1>5. Len(stack) \in DOMAIN stack
  BY SMTT(30), <1>3, <1>4
<1> QED BY <1>1, <1>4, <1>5, Here

\* run_receiver takes the UMEM and asks for its pages.
LEMMA TakeUmemKeeps == IInv /\ TakeUmem => IInv'
<1> SUFFICES ASSUME IInv, TakeUmem PROVE IInv'
  OBVIOUS
<1>1. /\ pc = "umem_result" /\ pc' = "socket"
      /\ stack' = Move(Append(stack, Empty("umem")), "umem", pc)
      /\ UNCHANGED <<bottom, live, granted, refused, args, sxdp_flags, leaked>>
  BY DEF TakeUmem, kernelvars
<1>2. PICK h \in BOOLEAN : /\ h <=> Last(stack').mode = "hugetlb"
                           /\ run' = [run EXCEPT !.hugetlb = h]
  BY DEF TakeUmem
<1>3. pc \in Points /\ "socket" \in Points
  BY <1>1 DEF Points, Results
<1>4. /\ live = {"umem"} /\ Recorded(pc) /\ Remembered(stack, granted) /\ TypeOK
      /\ leaked \subseteq {"umem"} /\ Arranged(stack, live, Owners(pc))
  <2>1. LiveAt(pc, live) /\ TypeOK
    BY <1>3, Here DEF IInv
  <2> QED BY <1>1, <1>3, <2>1, Here DEF LiveAt
<1>5. HandsOn(live, Owners(pc), Owners("socket"), "umem", {pc}) /\ OwnerAt(pc, "umem") = pc
  BY <1>1, <1>4, ResourcesAre DEF HandsOn, Owners, OwnerAt, UmemOwner, InUmem
<1>6. /\ stack' \in Seq(Objects) /\ Sorted(stack') /\ Arranged(stack', live', Owners("socket"))
      /\ Remembered(stack', granted')
      /\ Len(stack') > 0 /\ Last(stack').name = "umem" /\ Last(stack').mode = Last(stack).mode
      /\ Len(stack) \in DOMAIN stack /\ Last(stack).name = pc
  <2>1. /\ stack \in Seq(Objects) /\ Sorted(stack) /\ Remembered(stack, granted)
        /\ live \in SUBSET Resources /\ Arranged(stack, live, Owners(pc))
        /\ Len(stack) > 0 /\ Len(stack) \in DOMAIN stack /\ Last(stack).name = pc
    BY <1>1, LastIsResult DEF Results
  <2>2. "umem" \in Names /\ Follows("umem", stack) /\ Last(stack).name # "fd"
    BY SMTT(30), <1>1, <2>1, Ranks, NamesAre DEF Follows
  <2>3. Takes(stack', stack, "umem") /\ HandsOn(live, Owners(pc), Owners("socket"), "umem", {Last(stack).name})
    BY <1>1, <1>5, <2>1 DEF Takes
  <2>4. live' = live /\ granted' = granted
    BY <1>1
  <2> QED BY SMTT(30), <2>1, <2>2, <2>3, <2>4, TakeEffect
<1>7. Last(stack).mode = "hugetlb" <=> granted.huge
  <2>1. "umem" \in Last(stack).holds
    <3>1. stack[Len(stack)].name = pc /\ live \in SUBSET Resources /\ "umem" \in live
      BY <1>4, <1>6, ResourcesAre DEF Last
    <3>2. "umem" \in stack[Len(stack)].holds
      BY <1>4, <1>5, <1>6, <3>1, HoldsOwn
    <3> QED BY <3>2 DEF Last
  <2> QED BY <1>4, <1>6, <2>1 DEF Remembered, Last
<1>8. run \in RunModes /\ granted \in Grants
  BY <1>4 DEF TypeOK
<1>9. run' \in RunModes /\ run'.hugetlb = h
  BY <1>2, <1>8 DEF RunModes
<1>10. granted'.huge = h
  <2>1. granted.huge \in BOOLEAN
    BY <1>8 DEF Grants
  <2> QED BY <1>1, <1>2, <1>6, <1>7, <2>1
<1>11. TypeOK'
  BY <1>1, <1>3, <1>4, <1>6, <1>9 DEF TypeOK
<1>12. AtPoint("socket")'
  <2>1. LiveAt("socket", live')
    BY <1>1, <1>4 DEF LiveAt, InUmem
  <2>2. Expected("socket")'
    BY DEF Expected, InUmem, InXsk, InLoader
  <2>3. Recorded("socket")'
    BY <1>1, <1>4, <1>9, <1>10 DEF Recorded, InUmem, InXsk, InLoader, Closing
  <2> QED BY <1>6, <2>1, <2>2, <2>3 DEF AtPoint
<1>13. Topmost("socket")'
  <2>1. LastAt("socket", live') = "umem"
    BY DEF LastAt, InUmem, InLoader, Closing
  <2> QED BY <1>6, <2>1 DEF Topmost
<1> QED BY <1>1, <1>3, <1>4, <1>6, <1>11, <1>12, <1>13, Arrives

\* run_receiver takes the socket and asks for its mode.
LEMMA TakeXskKeeps == IInv /\ TakeXsk => IInv'
<1> SUFFICES ASSUME IInv, TakeXsk PROVE IInv'
  OBVIOUS
<1>1. /\ pc = "xsk_result" /\ pc' = "spawn"
      /\ stack' = Move(Append(stack, Empty("xsk")), "xsk", pc)
      /\ UNCHANGED <<bottom, live, granted, refused, args, sxdp_flags, leaked>>
  BY DEF TakeXsk, kernelvars
<1>2. PICK z \in BOOLEAN : /\ z <=> Last(stack').mode = "zero_copy"
                           /\ run' = [run EXCEPT !.zero_copy = z]
  BY DEF TakeXsk
<1>3. pc \in Points /\ "spawn" \in Points
  BY <1>1 DEF Points, Results
<1>4. /\ live = {"umem"} \cup XskParts /\ Recorded(pc) /\ Remembered(stack, granted) /\ TypeOK
      /\ leaked \subseteq {"umem"} /\ Arranged(stack, live, Owners(pc))
  <2>1. LiveAt(pc, live) /\ TypeOK
    BY <1>3, Here DEF IInv
  <2> QED BY <1>1, <1>3, <2>1, Here DEF LiveAt
<1>5. HandsOn(live, Owners(pc), Owners("spawn"), "xsk", {pc}) /\ OwnerAt(pc, "fd") = pc
  BY <1>1, <1>4, ResourcesAre DEF HandsOn, Owners, OwnerAt, UmemOwner, XskOwner, XskParts, InUmem, InXsk
<1>6. /\ stack' \in Seq(Objects) /\ Sorted(stack') /\ Arranged(stack', live', Owners("spawn"))
      /\ Remembered(stack', granted')
      /\ Len(stack') > 0 /\ Last(stack').name = "xsk" /\ Last(stack').mode = Last(stack).mode
      /\ Len(stack) \in DOMAIN stack /\ Last(stack).name = pc
  <2>1. /\ stack \in Seq(Objects) /\ Sorted(stack) /\ Remembered(stack, granted)
        /\ live \in SUBSET Resources /\ Arranged(stack, live, Owners(pc))
        /\ Len(stack) > 0 /\ Len(stack) \in DOMAIN stack /\ Last(stack).name = pc
    BY <1>1, LastIsResult DEF Results
  <2>2. "xsk" \in Names /\ Follows("xsk", stack) /\ Last(stack).name # "fd"
    BY SMTT(30), <1>1, <2>1, Ranks, NamesAre DEF Follows
  <2>3. Takes(stack', stack, "xsk") /\ HandsOn(live, Owners(pc), Owners("spawn"), "xsk", {Last(stack).name})
    BY <1>1, <1>5, <2>1 DEF Takes
  <2>4. live' = live /\ granted' = granted
    BY <1>1
  <2> QED BY SMTT(30), <2>1, <2>2, <2>3, <2>4, TakeEffect
<1>7. Last(stack).mode = "zero_copy" <=> granted.bind = "zero_copy"
  <2>1. "fd" \in Last(stack).holds /\ Last(stack).name # "fd"
    <3>1. stack[Len(stack)].name = pc /\ live \in SUBSET Resources /\ "fd" \in live
      BY <1>4, <1>6, ResourcesAre DEF Last, XskParts
    <3>2. "fd" \in stack[Len(stack)].holds
      BY <1>4, <1>5, <1>6, <3>1, HoldsOwn
    <3> QED BY <1>1, <3>1, <3>2 DEF Last
  <2> QED BY <1>4, <1>6, <2>1 DEF Remembered, Last
<1>8. run \in RunModes
  BY <1>4 DEF TypeOK
<1>9. run' \in RunModes /\ run'.zero_copy = z /\ run'.hugetlb = run.hugetlb
  BY <1>2, <1>8 DEF RunModes
<1>10. run'.zero_copy = (granted'.bind = "zero_copy")
  BY <1>1, <1>2, <1>6, <1>7, <1>9
<1>11. TypeOK'
  BY <1>1, <1>3, <1>4, <1>6, <1>9 DEF TypeOK
<1>12. AtPoint("spawn")'
  <2>1. LiveAt("spawn", live')
    BY <1>1, <1>4 DEF LiveAt, InUmem
  <2>2. Expected("spawn")'
    BY DEF Expected, InUmem, InXsk, InLoader
  <2>3. Recorded("spawn")'
    BY <1>1, <1>4, <1>9, <1>10 DEF Recorded, InUmem, InXsk, InLoader, Closing
  <2> QED BY <1>6, <2>1, <2>2, <2>3 DEF AtPoint
<1>13. Topmost("spawn")'
  <2>1. LastAt("spawn", live') = "xsk"
    BY DEF LastAt, InUmem, InLoader, Closing
  <2> QED BY <1>6, <2>1 DEF Topmost
<1> QED BY <1>1, <1>3, <1>4, <1>6, <1>11, <1>12, <1>13, Arrives

\* run_receiver moves the loader into the variable declared before the thread.
LEMMA EmplaceLoaderKeeps == IInv /\ EmplaceLoader => IInv'
<1> SUFFICES ASSUME IInv, EmplaceLoader PROVE IInv'
  OBVIOUS
<1> DEFINE n == Len(stack)
<1>1. /\ pc = "loader_result" /\ pc' = "running" /\ stack' = Move(stack, "loader", "loader_result")
      /\ UNCHANGED <<bottom, live, granted, refused, args, sxdp_flags, leaked>>
  BY DEF EmplaceLoader, kernelvars
<1>2. PICK d \in BOOLEAN : /\ d <=> ObjectNamed(stack', "loader").mode = "drv"
                           /\ run' = [run EXCEPT !.native_xdp = d]
  BY DEF EmplaceLoader
<1>3. pc \in Points /\ "running" \in Points
  BY <1>1 DEF Points, Results, Closing
<1>4. /\ live = Resources /\ Recorded(pc) /\ Remembered(stack, granted) /\ TypeOK
      /\ leaked \subseteq {"umem"} /\ Arranged(stack, live, Owners(pc)) /\ Has(stack, "loader")
      /\ n \in DOMAIN stack /\ stack[n].name = "loader_result" /\ stack \in Seq(Objects) /\ Sorted(stack)
  <2>1. LiveAt(pc, live) /\ TypeOK /\ Expected(pc) /\ Topmost(pc) /\ stack \in Seq(Objects)
    BY <1>3, Here DEF IInv
  <2>2. LastAt("loader_result", live) = "loader_result"
    BY DEF LastAt, InUmem, InLoader, Closing
  <2>3. Len(stack) > 0 /\ Last(stack).name = "loader_result"
    BY <1>1, <2>1, <2>2 DEF Topmost
  <2> QED BY SMTT(30), <1>1, <1>3, <2>1, <2>3, Here DEF LiveAt, Expected, Last
<1> HIDE DEF n
<1>5. PICK a \in DOMAIN stack : stack[a].name = "loader"
  BY <1>4 DEF Has
<1>6. /\ HandsOn(live, Owners(pc), Owners("running"), stack[a].name, {stack[n].name})
      /\ OwnerAt(pc, "attach") = "loader_result"
  BY <1>1, <1>4, <1>5, ResourcesAre DEF HandsOn, Owners, OwnerAt, UmemOwner, XskOwner, LoaderOwner,
       XskParts, InUmem, InXsk, InLoader
<1>7. /\ stack' \in Seq(Objects) /\ Sorted(stack') /\ Arranged(stack', live, Owners("running"))
      /\ Transferred(stack', stack, a, n)
  <2>1. Moves(stack', stack, a, n) /\ a # n
    BY <1>1, <1>4, <1>5 DEF Moves
  <2>2. live \in SUBSET Resources
    BY <1>4
  <2> QED BY <1>4, <1>5, <1>6, <2>1, <2>2, MoveEffect
<1>8. Remembered(stack', granted)
  <2>1. stack[n].name # "fd"
    BY <1>4
  <2> QED BY <1>4, <1>5, <1>7, <2>1, MoveRemembers
<1>9. ObjectNamed(stack', "loader").mode = granted.attach
  <2>1. a \in DOMAIN stack' /\ stack'[a].name = "loader" /\ stack'[a].mode = stack[n].mode
    BY <1>5, <1>7 DEF Transferred
  <2>2. ObjectNamed(stack', "loader") = stack'[a]
    BY <1>7, <2>1, TheNamed
  <2>3. "attach" \in stack[n].holds
    <3>1. live \in SUBSET Resources /\ "attach" \in live
      BY <1>4, ResourcesAre
    <3> QED BY <1>4, <1>6, <3>1, HoldsOwn
  <2>4. stack[n].mode = granted.attach
    BY <1>4, <2>3 DEF Remembered
  <2> QED BY <2>1, <2>2, <2>4
<1>10. run \in RunModes
  BY <1>4 DEF TypeOK
<1>11. /\ run' \in RunModes /\ run'.native_xdp = d /\ run'.zero_copy = run.zero_copy
       /\ run'.hugetlb = run.hugetlb
  BY <1>2, <1>10 DEF RunModes
<1>12. run'.native_xdp = (granted'.attach = "drv")
  BY <1>1, <1>2, <1>9, <1>11
<1>13. TypeOK'
  BY <1>1, <1>3, <1>4, <1>7, <1>11 DEF TypeOK
<1>14. AtPoint("running")'
  <2>1. LiveAt("running", live')
    BY <1>1, <1>4 DEF LiveAt, InUmem
  <2>2. Expected("running")'
    BY DEF Expected, InUmem, InXsk, InLoader
  <2>3. Recorded("running")'
    BY <1>1, <1>4, <1>11, <1>12 DEF Recorded, InUmem, InXsk, InLoader, Closing
  <2> QED BY <1>1, <1>7, <2>1, <2>2, <2>3 DEF AtPoint
<1>15. Topmost("running")'
  <2>1. LastAt("running", live') = "loader_result"
    BY DEF LastAt, InUmem, InLoader, Closing
  <2>2. Len(stack') = n /\ n > 0 /\ stack'[n].name = "loader_result"
    BY SMTT(30), <1>4, <1>7 DEF Transferred, n
  <2> QED BY <2>1, <2>2 DEF Topmost, Last
<1> QED BY <1>1, <1>3, <1>4, <1>7, <1>8, <1>13, <1>14, <1>15, Arrives

-----------------------------------------------------------------------------
(***************************************************************************)
(* Giving back by hand.                                                    *)
(***************************************************************************)
\* A step into the destructors with a good stack keeps the invariant.
LEMMA Leaves ==
  ASSUME TypeOK', Good', pc' = "unwinding"
  PROVE  IInv'
<1>1. "unwinding" \notin Points /\ "unwinding" \notin {"returning", "exited"}
  BY PointsAre
<1> QED BY <1>1 DEF IInv

\* Objects without resources are good whatever exists.
LEMMA PopEmpties ==
  ASSUME NEW s \in Seq(Objects), Sorted(s), Len(s) > 0, NEW lv, NEW due, NEW g,
         GoodStack(Front(s), lv, due, g), \A k \in DOMAIN Front(s) : Front(s)[k].holds = {}
  PROVE  GoodStack(Front(s), {}, {}, g)
BY DEF GoodStack, OneOwner, Covered

\* Umem::create, mlock: the mapping is returned in u, or given back by hand.
LEMMA MlockKeeps == IInv /\ Mlock => IInv'
<1> SUFFICES ASSUME IInv, Mlock PROVE IInv'
  OBVIOUS
<1>1. CASE Return(Move(Append(stack, Empty("u")), "u", "base"), "u", "umem_result") /\ UNCHANGED live
  <2>1. pc = "mlock" /\ UNCHANGED <<live, bottom, granted, refused, othervars>>
    BY <1>1 DEF Mlock
  <2> QED BY <1>1, <2>1, MlockReturns
<1>2. CASE pc' = "unwinding" /\ stack' = Front(stack) /\ live' = live \ {"umem"}
  <2>1. pc = "mlock" /\ UNCHANGED <<bottom, granted, refused, args, sxdp_flags, run, leaked>>
    BY DEF Mlock, othervars
  <2>2. pc \in Points
    BY <2>1 DEF Points, InUmem
  <2>3. /\ stack \in Seq(Objects) /\ Sorted(stack) /\ Arranged(stack, live, Owners(pc))
        /\ live = {"umem"} /\ Len(stack) > 0 /\ Last(stack).name = "base" /\ Good /\ TypeOK
    <3>1. LastAt("mlock", live) = "base"
      BY DEF LastAt, InUmem, InLoader, Closing
    <3>2. Topmost(pc) /\ LiveAt(pc, live)
      BY <2>2, Here
    <3> QED BY <2>1, <2>2, <3>1, <3>2, Here DEF LiveAt, InUmem, Topmost, IInv
  <2>4. /\ Front(stack) \in Seq(Objects) /\ DOMAIN Front(stack) = 1..(Len(stack) - 1)
        /\ \A k \in 1..(Len(stack) - 1) : Front(stack)[k] = stack[k]
    BY <2>3, PopSorted
  <2>5. \A k \in DOMAIN Front(stack) : Front(stack)[k].holds = {}
    <3> SUFFICES ASSUME NEW k \in 1..(Len(stack) - 1) PROVE stack[k].holds = {}
      BY <2>4
    <3>1. k \in DOMAIN stack /\ k < Len(stack) /\ Len(stack) \in DOMAIN stack
      BY SMTT(30), <2>3
    <3>2. Rank(stack[k].name) < Rank(stack[Len(stack)].name)
      BY <2>3, <3>1 DEF Sorted
    <3>3. stack[k].name # "base"
      BY SMTT(30), <2>3, <3>1, <3>2, RankIsNat, ObjectIs DEF Last
    <3>4. Owners(pc)["umem"] = "base"
      BY <2>1, ResourcesAre DEF Owners, OwnerAt, UmemOwner, InUmem
    <3> QED BY SMTT(30), <2>3, <3>1, <3>3, <3>4 DEF Arranged
  <2>6. Good'
    <3>1. GoodStack(stack, live, live \ (refused \cup leaked), granted) /\ leaked \subseteq {"umem"}
      BY <2>3 DEF Good
    <3>2. GoodStack(Front(stack), live, {}, granted)
      <4>1. live \in SUBSET Resources /\ {} \subseteq (live \ (refused \cup leaked)) \ Last(stack).holds
        BY <2>3 DEF TypeOK
      <4> QED BY <2>3, <3>1, <4>1, PopGood
    <3>3. GoodStack(Front(stack), {}, {}, granted)
      BY <2>3, <2>5, <3>2, PopEmpties
    <3>4. live' = {} /\ live' \ (refused' \cup leaked') = {}
      BY <1>2, <2>3
    <3>5. GoodStack(stack', live', live' \ (refused' \cup leaked'), granted')
      BY <1>2, <2>1, <3>3, <3>4
    <3> QED BY <2>1, <3>1, <3>5 DEF Good
  <2>7. TypeOK'
    BY <1>2, <2>1, <2>3, <2>4 DEF TypeOK
  <2> QED BY <1>2, <2>6, <2>7, Leaves
<1> QED BY <1>1, <1>2 DEF Mlock

\* s without r in its object a.
Drops(t, s, a, r) ==
  t = [k \in DOMAIN s |-> IF k = a THEN Object(s[a].name, s[a].holds \ {r}, s[a].mode) ELSE s[k]]

\* For DropEffect: who owns r, what exists without it, the same objects.
Owning(s, a, own, r) == own[r] = s[a].name
Without(lv2, lv, r)  == lv2 = lv \ {r}
SameNames(t, s)      == Len(t) = Len(s) /\ \A k \in DOMAIN s : t[k].name = s[k].name

\* Giving back a resource by name of its owner.
LEMMA DropEffect ==
  ASSUME NEW s \in Seq(Objects), NEW lv \in SUBSET Resources, NEW own, NEW g,
         NEW a \in DOMAIN s, NEW r \in lv, Owning(s, a, own, r),
         Sorted(s), Arranged(s, lv, own), Remembered(s, g), NEW t, Drops(t, s, a, r),
         NEW lv2, Without(lv2, lv, r)
  PROVE  /\ t \in Seq(Objects) /\ Sorted(t) /\ Arranged(t, lv2, own)
         /\ Remembered(t, g) /\ SameNames(t, s)
<1>1. /\ t[a].name = s[a].name /\ t[a].holds = s[a].holds \ {r} /\ t[a].mode = s[a].mode
      /\ t[a] \in Objects
  <2>1. s[a].name \in Names /\ s[a].holds \in SUBSET Resources /\ s[a].mode \in Modes
    BY ObjectIs
  <2> QED BY <2>1 DEF Drops, Object, Objects
<1>2. \A k \in DOMAIN s : t[k].name = s[k].name /\ t[k] \in Objects
  BY SMTT(30), <1>1 DEF Drops
<1>3. t \in Seq(Objects) /\ Len(t) = Len(s) /\ DOMAIN t = DOMAIN s
  <2>1. DOMAIN t = 1..Len(s) /\ Len(s) \in Nat /\ DOMAIN t = DOMAIN s
    BY SMTT(30) DEF Drops
  <2>2. t = [k \in 1..Len(s) |-> t[k]]
    BY <2>1 DEF Drops
  <2>3. \A k \in 1..Len(s) : t[k] \in Objects
    BY <1>2, <2>1
  <2> QED BY SMTT(30), <2>1, <2>2, <2>3
<1>4. Sorted(t)
  BY SMTT(30), <1>2, <1>3 DEF Sorted
<1>5. Arranged(t, lv \ {r}, own)
  <2>1. \A k \in DOMAIN s : k # a => s[k].name # s[a].name
    BY OneOfAName
  <2>2. ASSUME NEW k \in DOMAIN t PROVE t[k].holds = {q \in lv \ {r} : own[q] = t[k].name}
    <3>1. CASE k = a
      BY <1>1, <1>3, <3>1 DEF Arranged, Owning
    <3>2. CASE k # a
      BY SMTT(30), <1>3, <2>1, <3>2 DEF Arranged, Drops, Owning
    <3> QED BY <3>1, <3>2
  <2>3. \A q \in lv \ {r} : \E k \in DOMAIN t : t[k].name = own[q]
    BY <1>2, <1>3 DEF Arranged
  <2> QED BY <2>2, <2>3 DEF Arranged
<1>6. Remembered(t, g)
  <2> SUFFICES ASSUME NEW k \in DOMAIN s
               PROVE  t[k].name = s[k].name /\ t[k].mode = s[k].mode /\ t[k].holds \subseteq s[k].holds
    BY SMTT(30), <1>3 DEF Remembered
  <2> QED BY <1>1 DEF Drops
<1> QED BY <1>2, <1>3, <1>4, <1>5, <1>6 DEF SameNames, Without

\* What stop_redirect, join and detach do in main: the resource is gone and so is
\* its handle, or both stay.
LEMMA ExplicitEffect ==
  ASSUME IInv, pc \in {"stop_redirect", "join", "detach"}, NEW name, NEW r \in live,
         OwnerAt(pc, r) = name, NEW there, Explicitly(pc, name, r, there)
  PROVE  /\ stack' \in Seq(Objects) /\ Len(stack') = Len(stack) /\ Sorted(stack')
         /\ Arranged(stack', live', Owners(pc)) /\ Remembered(stack', granted)
         /\ \A k \in DOMAIN stack : stack'[k].name = stack[k].name
         /\ live' = live \/ live' = live \ {r}
         /\ pc' \in {there, "unwinding"}
         /\ UNCHANGED <<bottom, granted, args, sxdp_flags, run, leaked>>
<1>1. pc \in Points
  BY DEF Points, Closing
<1>2. /\ stack \in Seq(Objects) /\ Sorted(stack) /\ Arranged(stack, live, Owners(pc))
      /\ Remembered(stack, granted) /\ live \in SUBSET Resources
  BY <1>1, Here
<1>3. Owners(pc)[r] = name
  BY <1>2 DEF Owners
<1>4. PICK a \in DOMAIN stack : stack[a].name = name
  BY <1>2, <1>3 DEF Arranged
<1>5. ObjectNamed(stack, name) = stack[a] /\ r \in stack[a].holds
  BY <1>2, <1>4, TheNamed, HoldsOwn
<1>6. /\ GiveBack(r, stack[a])
      /\ stack' = [k \in DOMAIN stack |->
                     IF stack[k].name = name /\ r \notin live'
                     THEN Object(name, stack[a].holds \ {r}, stack[a].mode) ELSE stack[k]]
      /\ pc' \in {there, "unwinding"}
      /\ UNCHANGED <<bottom, granted, args, sxdp_flags, run, leaked>>
  BY <1>5 DEF Explicitly, othervars
<1>7. live' = live \/ live' = live \ {r}
  BY <1>6 DEF GiveBack
<1>8. CASE r \in live'
  <2>1. stack' = stack /\ live' = live
    BY SMTT(30), <1>2, <1>6, <1>7, <1>8
  <2> QED BY <1>2, <1>6, <2>1
<1>9. CASE r \notin live'
  <2>1. live' = live \ {r}
    BY <1>7, <1>9
  <2>2. \A k \in DOMAIN stack : stack[k].name = name <=> k = a
    BY <1>2, <1>4, OneOfAName
  <2>3. Drops(stack', stack, a, r)
    BY <1>4, <1>6, <1>9, <2>2 DEF Drops
  <2>4. Owning(stack, a, Owners(pc), r) /\ Without(live', live, r)
    BY <1>3, <1>4, <2>1 DEF Owning, Without
  <2>5. /\ stack' \in Seq(Objects) /\ Sorted(stack') /\ Arranged(stack', live', Owners(pc))
        /\ Remembered(stack', granted) /\ SameNames(stack', stack)
    BY <1>2, <2>3, <2>4, DropEffect
  <2> QED BY <1>6, <2>1, <2>5 DEF SameNames
<1> QED BY <1>8, <1>9

\* Such a step on the way to the next one keeps the invariant.
LEMMA ClosingKeeps ==
  ASSUME IInv, NEW here \in {"stop_redirect", "join"}, NEW there \in {"join", "drain"},
         NEW name, NEW r \in live, OwnerAt(here, r) = name, Explicitly(here, name, r, there),
         pc' = there, LiveAt(there, live')
  PROVE  IInv'
<1>1. pc = here
  BY DEF Explicitly
<1>2. /\ stack' \in Seq(Objects) /\ Len(stack') = Len(stack) /\ Sorted(stack')
      /\ Arranged(stack', live', Owners(pc)) /\ Remembered(stack', granted)
      /\ \A k \in DOMAIN stack : stack'[k].name = stack[k].name
      /\ live' = live \/ live' = live \ {r}
      /\ pc' = there /\ UNCHANGED <<bottom, granted, args, sxdp_flags, run, leaked>>
  BY <1>1, ExplicitEffect
<1>3. here \in Points /\ there \in Points
  BY DEF Points, Closing
<1>4. Recorded(here) /\ Topmost(here) /\ stack \in Seq(Objects) /\ TypeOK /\ leaked \subseteq {"umem"}
  BY <1>1, <1>3, Here DEF IInv
<1>5. Owners(there) = Owners(here)
  BY DEF Owners, OwnerAt, UmemOwner, XskOwner, LoaderOwner, InUmem, InXsk, InLoader
<1>6. Recorded(there)'
  BY <1>2, <1>4 DEF Recorded, InUmem, InXsk, InLoader, Closing
<1>7. Expected(there)'
  BY DEF Expected, InUmem, InXsk, InLoader
<1>8. AtPoint(there)'
  BY <1>1, <1>2, <1>5, <1>6, <1>7 DEF AtPoint
<1>9. Topmost(there)'
  <2>1. LastAt(here, live) = "loader_result" /\ LastAt(there, live') = "loader_result"
    BY DEF LastAt, InUmem, InLoader, Closing
  <2>2. Len(stack) > 0 /\ stack[Len(stack)].name = "loader_result" /\ Len(stack) \in DOMAIN stack
    BY SMTT(30), <1>4, <2>1 DEF Topmost, Last
  <2> QED BY <1>2, <2>1, <2>2 DEF Topmost, Last
<1>10. TypeOK'
  BY <1>2, <1>3, <1>4 DEF TypeOK
<1> QED BY <1>2, <1>3, <1>4, <1>8, <1>9, <1>10, Arrives

\* Such a step to the end of the scope, the last one or one whose message
\* throws, leaves the rest to the destructors.
LEMMA ClosingLeaves ==
  ASSUME IInv, pc \in {"stop_redirect", "join", "detach"}, NEW name,
         NEW r \in live \cap {"map_entry", "worker", "attach"}, OwnerAt(pc, r) = name,
         NEW there, Explicitly(pc, name, r, there), pc' = "unwinding"
  PROVE  IInv'
<1>1. pc \in Points
  BY DEF Points, Closing
<1>2. LiveAt(pc, live) /\ TypeOK /\ live \in SUBSET Resources /\ leaked \subseteq {"umem"}
  BY <1>1, Here DEF IInv
<1>3. OwnerAt(pc, "attach") = "loader"
  BY DEF OwnerAt, LoaderOwner, XskParts, InLoader
<1>4. /\ stack' \in Seq(Objects) /\ Sorted(stack')
      /\ Arranged(stack', live', Owners(pc)) /\ Remembered(stack', granted)
      /\ live' = live \/ live' = live \ {r}
      /\ UNCHANGED <<bottom, granted, args, sxdp_flags, run, leaked>>
  BY ExplicitEffect
<1>5. live' \in SUBSET Resources /\ {"umem", "obj"} \cup XskParts \subseteq live'
  <2>1. Resources \ {"map_entry", "worker"} \subseteq live
    BY <1>2 DEF LiveAt
  <2> QED BY <1>2, <1>4, <2>1, ResourcesAre DEF XskParts
<1>6. \A a \in live' : Uses(a) \subseteq live'
  <2>1. \A a \in Resources : Uses(a) \subseteq {"umem", "obj"} \cup XskParts
    BY ResourcesAre DEF Uses, XskParts
  <2> QED BY <1>5, <2>1
<1>7. "attach" \in live' => Has(stack', "loader")
  <2> SUFFICES ASSUME "attach" \in live' PROVE Has(stack', "loader")
    OBVIOUS
  <2>1. Owners(pc)["attach"] = "loader"
    BY <1>3, <1>5 DEF Owners
  <2> QED BY <1>4, <2>1 DEF Arranged, Has
<1>8. OneOwner(stack', live') /\ Covered(stack', live') /\ Supported(stack') /\ Placed(stack')
  BY <1>4, <1>5, <1>6, <1>7, ArrangedIsGood
<1>9. Good'
  <2>1. Covered(stack', live' \ (refused' \cup leaked'))
    BY <1>8 DEF Covered
  <2> QED BY <1>2, <1>4, <1>8, <2>1 DEF Good, GoodStack
<1>10. TypeOK'
  BY <1>2, <1>4, <1>5 DEF TypeOK
<1> QED BY <1>9, <1>10, Leaves

\* run_receiver, stop_redirect.
LEMMA StopRedirectKeeps == IInv /\ StopRedirect => IInv'
<1> SUFFICES ASSUME IInv, StopRedirect PROVE IInv'
  OBVIOUS
<1>1. Explicitly("stop_redirect", "loader", "map_entry", "join") /\ pc = "stop_redirect"
  BY DEF StopRedirect, Explicitly
<1>2. live = Resources
  <2>1. LiveAt(pc, live)
    BY <1>1, Here DEF Points, Closing
  <2> QED BY <1>1, <2>1 DEF LiveAt
<1>3. "map_entry" \in live /\ OwnerAt("stop_redirect", "map_entry") = "loader"
  BY <1>2, ResourcesAre DEF OwnerAt, LoaderOwner, XskParts, InLoader
<1>4. live' = live \/ live' = live \ {"map_entry"}
  BY <1>1, <1>3, ExplicitEffect
<1>5. LiveAt("join", live')
  BY <1>2, <1>4, ResourcesAre DEF LiveAt, InUmem
<1>6. CASE pc' = "join"
  BY <1>1, <1>3, <1>5, <1>6, ClosingKeeps
<1>7. CASE pc' = "unwinding"
  BY <1>1, <1>3, <1>7, ClosingLeaves
<1> QED BY <1>1, <1>6, <1>7 DEF Explicitly

\* run_receiver, join.
LEMMA JoinWorkerKeeps == IInv /\ JoinWorker => IInv'
<1> SUFFICES ASSUME IInv, JoinWorker PROVE IInv'
  OBVIOUS
<1>1. Explicitly("join", "poll_thread", "worker", "drain") /\ pc = "join"
  BY DEF JoinWorker, Explicitly
<1>2. LiveAt("join", live)
  BY <1>1, Here DEF Points, Closing
<1>3. "worker" \in live /\ OwnerAt("join", "worker") = "poll_thread"
  BY SMTT(30), <1>2, ResourcesAre DEF LiveAt, OwnerAt, XskParts
<1>4. live' = live \/ live' = live \ {"worker"}
  BY <1>1, <1>3, ExplicitEffect
<1>5. LiveAt("drain", live')
  BY <1>2, <1>4, ResourcesAre DEF LiveAt, InUmem
<1>6. CASE pc' = "drain"
  BY <1>1, <1>3, <1>5, <1>6, ClosingKeeps
<1>7. CASE pc' = "unwinding"
  BY <1>1, <1>3, <1>7, ClosingLeaves
<1> QED BY <1>1, <1>6, <1>7 DEF Explicitly

\* run_receiver, detach: the last thing done by hand.
LEMMA DetachKeeps == IInv /\ Detach => IInv'
<1> SUFFICES ASSUME IInv, Detach PROVE IInv'
  OBVIOUS
<1>1. Explicitly(pc, "loader", "attach", "unwinding") /\ pc = "detach" /\ pc' = "unwinding"
  BY DEF Detach, Explicitly
<1>2. LiveAt("detach", live)
  BY <1>1, Here DEF Points, Closing
<1>3. "attach" \in live /\ OwnerAt("detach", "attach") = "loader"
  BY SMTT(30), <1>2, ResourcesAre DEF LiveAt, OwnerAt, LoaderOwner, XskParts, InLoader
<1> QED BY <1>1, <1>3, ClosingLeaves

\* Past the result of a function there are only objects without resources.
LEMMA LocalsAreEmpty ==
  ASSUME NEW s \in Seq(Objects), Sorted(s), NEW lv \in SUBSET Resources, NEW p \in Results,
         Arranged(s, lv, Owners(p)), LiveAt(p, lv), NEW b \in DOMAIN s, s[b].name = p, b < Len(s)
  PROVE  Last(s).holds = {}
<1>1. Len(s) \in DOMAIN s /\ b \in Nat /\ Len(s) \in Nat
  BY SMTT(30)
<1>2. s[Len(s)].name \in Names /\ Rank(s[Len(s)].name) \in Nat
  BY <1>1, ObjectIs
<1>3. Rank(p) < Rank(s[Len(s)].name)
  BY <1>1 DEF Sorted
<1>4. \A r \in lv : Rank(OwnerAt(p, r)) =< Rank(p)
  <2>1. CASE p = "umem_result"
    <3>1. lv = {"umem"} /\ OwnerAt(p, "umem") = p
      BY <2>1 DEF LiveAt, OwnerAt, UmemOwner, InUmem
    <3> QED BY SMTT(30), <2>1, <3>1, Ranks
  <2>2. CASE p = "xsk_result"
    <3>1. lv = {"umem"} \cup XskParts /\ \A r \in lv : OwnerAt(p, r) \in {"umem", "xsk_result"}
      BY <2>2 DEF LiveAt, OwnerAt, UmemOwner, XskOwner, InUmem, InXsk, XskParts
    <3> QED BY SMTT(30), <2>2, <3>1, Ranks
  <2>3. CASE p = "loader_result"
    <3>1. \A r \in lv : OwnerAt(p, r) \in {"umem", "xsk", "poll_thread", "loader_result"}
      BY <2>3 DEF OwnerAt, UmemOwner, XskOwner, LoaderOwner, InUmem, InXsk, InLoader
    <3> QED BY SMTT(30), <2>3, <3>1, Ranks
  <2> QED BY <2>1, <2>2, <2>3 DEF Results
<1>5. \A r \in lv : Owners(p)[r] # s[Len(s)].name
  <2> SUFFICES ASSUME NEW r \in lv, Owners(p)[r] = s[Len(s)].name PROVE FALSE
    OBVIOUS
  <2>1. OwnerAt(p, r) = s[Len(s)].name
    BY DEF Owners
  <2>2. p \in Names
    BY NamesAre DEF Results
  <2> QED BY SMTT(30), <1>2, <1>3, <1>4, <2>1, <2>2, RankIsNat
<1>6. s[Len(s)].holds = {}
  BY SMTT(30), <1>1, <1>5 DEF Arranged
<1> QED BY <1>6 DEF Last

\* Destroying an empty object changes no owner.
LEMMA PopArranged ==
  ASSUME NEW s \in Seq(Objects), Sorted(s), Len(s) > 0, NEW lv \in SUBSET Resources, NEW own, NEW g,
         Arranged(s, lv, own), Remembered(s, g), Last(s).holds = {}
  PROVE  Arranged(Front(s), lv, own) /\ Remembered(Front(s), g)
<1>1. /\ DOMAIN Front(s) = 1..(Len(s) - 1) /\ Len(s) \in DOMAIN s /\ Len(s) \in Nat
      /\ \A k \in 1..(Len(s) - 1) : Front(s)[k] = s[k] /\ k \in DOMAIN s
      /\ \A k \in DOMAIN s : k \in 1..(Len(s) - 1) \/ k = Len(s)
  BY SMTT(30), PopSorted
<1>2. \A r \in lv : own[r] # s[Len(s)].name
  BY SMTT(30), <1>1 DEF Arranged, Last
<1>3. Arranged(Front(s), lv, own)
  <2>1. \A k \in DOMAIN Front(s) : Front(s)[k].holds = {r \in lv : own[r] = Front(s)[k].name}
    BY SMTT(30), <1>1 DEF Arranged
  <2>2. \A r \in lv : \E k \in DOMAIN Front(s) : Front(s)[k].name = own[r]
    BY SMTT(30), <1>1, <1>2 DEF Arranged
  <2> QED BY <2>1, <2>2 DEF Arranged
<1>4. Remembered(Front(s), g)
  BY SMTT(30), <1>1 DEF Remembered
<1> QED BY <1>3, <1>4

\* The destructors of the locals of a create function that succeeded find
\* nothing to release.
LEMMA ReturningKeeps == IInv /\ Returning => IInv'
<1> SUFFICES ASSUME IInv, Returning PROVE IInv'
  OBVIOUS
<1>1. PICK p \in Results : /\ pc = "returning" /\ bottom \in DOMAIN stack /\ stack[bottom].name = p
                           /\ DestroyLast(bottom, p) /\ UNCHANGED <<bottom, args, sxdp_flags, run>>
  BY DEF Returning, IInv
<1>2. TypeOK /\ Good /\ AtPoint(p) /\ p \in Points
  BY <1>1, PointsAre DEF IInv, Point
<1>3. /\ stack \in Seq(Objects) /\ Sorted(stack) /\ Remembered(stack, granted)
      /\ live \in SUBSET Resources /\ leaked \subseteq {"umem"}
      /\ Arranged(stack, live, Owners(p)) /\ LiveAt(p, live) /\ Expected(p) /\ Recorded(p)
  BY <1>2 DEF TypeOK, Good, GoodStack, AtPoint
<1>4. Len(stack) > 0 /\ bottom \in Nat /\ bottom =< Len(stack) /\ Len(stack) \in Nat /\ bottom > 0
  BY SMTT(30), <1>1, <1>3
<1>5. p \notin InUmem \cup InXsk \cup InLoader
  BY DEF Results, InUmem, InXsk, InLoader
<1>6. CASE Len(stack) = bottom
  <2>1. pc' = p /\ UNCHANGED <<stack, live, granted, refused, leaked, bottom, args, sxdp_flags, run>>
    BY <1>1, <1>6 DEF DestroyLast, kernelvars
  <2>2. AtPoint(p)'
    BY <1>2, <2>1 DEF AtPoint, Expected, Recorded
  <2>3. Topmost(p)'
    <3>1. LastAt(p, live') = p /\ p \notin {"setrlimit", "mmap"}
      BY DEF LastAt, InUmem, InLoader, Closing, Results
    <3> QED BY <1>1, <1>4, <1>6, <2>1, <3>1 DEF Topmost, Last
  <2>4. TypeOK'
    BY <1>2, <2>1 DEF TypeOK
  <2> QED BY <1>2, <1>3, <2>1, <2>2, <2>3, <2>4, Arrives
<1>7. CASE Len(stack) # bottom
  <2>1. Last(stack).holds = {}
    <3>1. bottom < Len(stack)
      BY SMTT(30), <1>4, <1>7
    <3> QED BY <1>1, <1>3, <3>1, LocalsAreEmpty
  <2>2. /\ stack' = Front(stack) /\ leaked' = leaked \cup Last(stack).holds
        /\ UNCHANGED <<pc, granted, live, refused>>
    BY <1>1, <1>7, <2>1 DEF DestroyLast
  <2>3. /\ Front(stack) \in Seq(Objects) /\ Len(Front(stack)) = Len(stack) - 1
        /\ DOMAIN Front(stack) = 1..(Len(stack) - 1)
        /\ \A k \in 1..(Len(stack) - 1) : Front(stack)[k] = stack[k]
        /\ Sorted(Front(stack))
    BY <1>3, <1>4, PopSorted
  <2>4. Arranged(Front(stack), live, Owners(p)) /\ Remembered(Front(stack), granted)
    BY <1>3, <1>4, <2>1, PopArranged
  <2>5. bottom' \in DOMAIN stack' /\ stack'[bottom'].name = p
    <3>1. bottom \in 1..(Len(stack) - 1)
      BY SMTT(30), <1>4, <1>7
    <3> QED BY <1>1, <2>2, <2>3, <3>1
  <2>6. Expected(p)'
    <3>1. p = "loader_result" => Has(stack', "loader")
      <4> SUFFICES ASSUME p = "loader_result" PROVE Has(stack', "loader")
        OBVIOUS
      <4>1. PICK k \in DOMAIN stack : stack[k].name = "loader"
        BY <1>3 DEF Expected, Has
      <4>2. k \in Nat /\ k =< Len(stack)
        BY SMTT(30), <1>3, <4>1
      <4>3. k # Len(stack)
        <5> SUFFICES ASSUME k = Len(stack) PROVE FALSE
          OBVIOUS
        <5>1. Rank(stack[bottom].name) < Rank(stack[k].name)
          BY SMTT(30), <1>1, <1>3, <1>4, <1>7, <4>1 DEF Sorted
        <5> QED BY SMTT(30), <1>1, <4>1, <5>1, Ranks
      <4>4. k \in 1..(Len(stack) - 1)
        BY SMTT(30), <1>3, <4>1, <4>2, <4>3
      <4> QED BY <2>2, <2>3, <4>1, <4>4 DEF Has
    <3>2. p \notin {"prepared", "open"}
      BY DEF Results
    <3> QED BY <1>5, <3>1, <3>2 DEF Expected
  <2>7. Recorded(p)'
    BY <1>1, <1>3, <2>2 DEF Recorded
  <2>8. AtPoint(p)'
    BY <1>3, <2>2, <2>4, <2>6, <2>7 DEF AtPoint
  <2>9. leaked' \subseteq {"umem"} /\ Sorted(stack') /\ Remembered(stack', granted')
    BY <1>3, <2>1, <2>2, <2>3, <2>4
  <2>10. TypeOK'
    BY <1>1, <1>2, <2>2, <2>3 DEF TypeOK
  <2>11. pc' = "returning"
    BY <1>1, <2>2
  <2> QED BY <1>2, <2>5, <2>8, <2>9, <2>10, <2>11, Arrives
<1> QED BY <1>6, <1>7

\* The destructors of everything in scope.
LEMMA UnwindingKeeps == IInv /\ Unwinding => IInv'
<1> SUFFICES ASSUME IInv, Unwinding PROVE IInv'
  OBVIOUS
<1> DEFINE due == live \ (refused \cup leaked)
<1>1. /\ pc = "unwinding" /\ DestroyLast(0, "exited") /\ UNCHANGED <<bottom, args, sxdp_flags, run>>
      /\ TypeOK /\ Good
  BY DEF Unwinding, IInv
<1>2. /\ stack \in Seq(Objects) /\ live \in SUBSET Resources /\ Len(stack) \in Nat
      /\ GoodStack(stack, live, due, granted) /\ leaked \subseteq {"umem"}
      /\ Sorted(stack) /\ OneOwner(stack, live) /\ Placed(stack) /\ Remembered(stack, granted)
  BY SMTT(30), <1>1 DEF TypeOK, Good, GoodStack
<1> HIDE DEF due
<1>3. CASE Len(stack) = 0
  <2>1. pc' = "exited" /\ UNCHANGED <<stack, live, granted, refused, leaked>>
    BY <1>1, <1>3 DEF DestroyLast, kernelvars
  <2>2. TypeOK' /\ Good'
    BY <1>1, <2>1 DEF TypeOK, Good
  <2>3. "exited" \notin Points /\ stack' = <<>>
    BY SMTT(30), <1>2, <1>3, <2>1, PointsAre
  <2> QED BY <2>1, <2>2, <2>3 DEF IInv
<1>4. CASE Len(stack) # 0
  <2>1. PICK o : o = Last(stack)
    OBVIOUS
  <2>2. /\ Len(stack) > 0 /\ Len(stack) \in DOMAIN stack /\ o = stack[Len(stack)]
        /\ o.holds \subseteq live /\ o.holds \subseteq Resources
    BY SMTT(30), <1>2, <1>4, <2>1 DEF Last, OneOwner
  <2>3. CASE o.holds = {} \/ o.name = "base"
    <3>1. /\ stack' = Front(stack) /\ leaked' = leaked \cup o.holds
          /\ UNCHANGED <<pc, granted, live, refused>>
      BY <1>1, <1>4, <2>1, <2>3 DEF DestroyLast
    <3>2. leaked' \subseteq {"umem"}
      BY <1>2, <2>2, <2>3, <3>1 DEF Placed
    <3>3. live' \ (refused' \cup leaked') \subseteq due \ Last(stack).holds
      BY <2>1, <3>1 DEF due
    <3>4. GoodStack(stack', live', live' \ (refused' \cup leaked'), granted')
      <4>1. GoodStack(Front(stack), live, live' \ (refused' \cup leaked'), granted)
        BY <1>2, <2>2, <3>3, PopGood
      <4> QED BY <3>1, <4>1
    <3>5. stack' \in Seq(Objects)
      BY <1>2, <2>2, <3>1, PopSorted
    <3>6. TypeOK' /\ Good' /\ pc' = "unwinding"
      BY <1>1, <3>1, <3>2, <3>4, <3>5 DEF TypeOK, Good
    <3> QED BY <3>6, Leaves
  <2>4. CASE o.holds # {} /\ o.name # "base"
    <3>1. PICK r : /\ FirstOf(r, o.holds) /\ GiveBack(r, o) /\ Releases(stack', stack, r)
                   /\ UNCHANGED <<pc, granted, leaked>>
      <4>1. PICK q : q = FirstIn(ReleaseOrder, o.holds)
        OBVIOUS
      <4>2. /\ GiveBack(q, o) /\ stack' = Append(Front(stack), Object(o.name, o.holds \ {q}, o.mode))
            /\ UNCHANGED <<pc, granted, leaked>>
        BY <1>1, <1>4, <2>1, <2>4, <4>1 DEF DestroyLast
      <4>3. FirstOf(q, o.holds) /\ Releases(stack', stack, q)
        BY <2>1, <4>1, <4>2 DEF FirstOf, Releases
      <4> QED BY <4>2, <4>3
    <3>2. Unused(r, o.holds)
      BY <2>2, <2>4, <3>1, FirstToRelease
    <3>3. r \in o.holds
      BY <3>2 DEF Unused
    <3>4. r = "attach" => o.mode = granted.attach
      BY <1>2, <2>2, <3>3 DEF Remembered
    <3>5. \/ live' = live \ {r} /\ refused' = refused
          \/ live' = live /\ refused' = refused \cup {r}
      BY <3>1, <3>4 DEF GiveBack
    <3>6. Spent(live', live, r)
      BY <3>5 DEF Spent
    <3>7. live' \ (refused' \cup leaked') \subseteq due \ {r}
      BY <3>1, <3>5 DEF due
    <3>8. stack' \in Seq(Objects) /\ GoodStack(stack', live', live' \ (refused' \cup leaked'), granted)
      <4>1. Unused(r, Last(stack).holds)
        BY <2>1, <3>2
      <4> QED BY <1>2, <2>2, <3>1, <3>6, <3>7, <4>1, ReleaseGood
    <3>9. TypeOK' /\ Good' /\ pc' = "unwinding"
      BY <1>1, <1>2, <3>1, <3>6, <3>8 DEF TypeOK, Good, Spent
    <3> QED BY <3>9, Leaves
  <2> QED BY <2>3, <2>4
<1> QED BY <1>3, <1>4

-----------------------------------------------------------------------------
(***************************************************************************)
(* The theorems.                                                           *)
(***************************************************************************)
\* The invariant holds at the start.
LEMMA Initially == Init => IInv
<1> SUFFICES ASSUME Init PROVE IInv
  OBVIOUS
<1>1. "setrlimit" \in Points /\ pc = "setrlimit" /\ "setrlimit" \notin {"returning", "exited"}
  BY DEF Init, Points
<1>2. stack = <<>> /\ stack \in Seq(Objects) /\ DOMAIN stack = {} /\ live = {} /\ leaked = {}
  BY SMTT(30) DEF Init
<1>3. TypeOK
  BY <1>1, <1>2 DEF Init, TypeOK, Grants, RunModes
<1>4. Good
  <2>1. Sorted(stack) /\ OneOwner(stack, live) /\ Supported(stack) /\ Placed(stack)
    BY <1>2 DEF Sorted, OneOwner, Supported, Placed
  <2>2. Remembered(stack, granted) /\ Covered(stack, live \ (refused \cup leaked))
    BY <1>2 DEF Remembered, Covered
  <2> QED BY <1>2, <2>1, <2>2 DEF Good, GoodStack
<1>5. AtPoint("setrlimit")
  <2>1. Arranged(stack, live, Owners("setrlimit"))
    BY <1>2 DEF Arranged
  <2>2. LiveAt("setrlimit", live)
    BY <1>2 DEF LiveAt, InUmem
  <2>3. Expected("setrlimit")
    BY DEF Expected, InUmem, InXsk, InLoader
  <2>4. Recorded("setrlimit")
    BY DEF Init, Recorded, InUmem, InXsk, InLoader, Closing
  <2> QED BY <2>1, <2>2, <2>3, <2>4 DEF AtPoint
<1>6. Topmost("setrlimit")
  BY <1>2 DEF Topmost
<1> QED BY <1>1, <1>3, <1>4, <1>5, <1>6 DEF IInv, Point

\* Every step keeps the invariant.
LEMMA StepKeeps == IInv /\ [Next]_vars => IInv'
<1> SUFFICES ASSUME IInv, [Next]_vars PROVE IInv'
  OBVIOUS
<1>1. CASE \/ SetRlimit \/ LogUmem \/ SetRingSizes \/ RegisterUmem \/ GetMmapOffsets \/ FindInterface
           \/ SetBusyPoll \/ LoadObject \/ SetTargetIp \/ LogAttach \/ WorkerPrepared \/ Running
           \/ Drain
  BY <1>1, Calls
<1>2. CASE Mmap
  BY <1>2, MmapKeeps
<1>3. CASE Mlock
  BY SMTT(30), <1>3, MlockKeeps
<1>4. CASE Socket
  BY <1>4, SocketKeeps
<1>5. CASE MapRing
  BY <1>5, MapRingKeeps
<1>6. CASE BindZeroCopy
  BY <1>6, BindZeroCopyKeeps
<1>7. CASE BindCopy
  BY <1>7, BindCopyKeeps
<1>8. CASE AssembleXsk
  BY <1>8, AssembleXskKeeps
<1>9. CASE OpenObject
  BY <1>9, OpenObjectKeeps
<1>10. CASE UpdateXsksMap
  BY <1>10, UpdateXsksMapKeeps
<1>11. CASE AttachDrv
  BY <1>11, AttachDrvKeeps
<1>12. CASE AttachSkb
  BY <1>12, AttachSkbKeeps
<1>13. CASE ReturnLoader
  BY <1>13, ReturnLoaderKeeps
<1>14. CASE TakeUmem
  BY <1>14, TakeUmemKeeps
<1>15. CASE TakeXsk
  BY <1>15, TakeXskKeeps
<1>16. CASE SpawnWorker
  BY <1>16, SpawnWorkerKeeps
<1>17. CASE EmplaceLoader
  BY <1>17, EmplaceLoaderKeeps
<1>18. CASE StopRedirect
  BY <1>18, StopRedirectKeeps
<1>19. CASE JoinWorker
  BY <1>19, JoinWorkerKeeps
<1>20. CASE Detach
  BY <1>20, DetachKeeps
<1>21. CASE Returning
  BY <1>21, ReturningKeeps
<1>22. CASE Unwinding
  BY <1>22, UnwindingKeeps
<1>23. CASE Exited \/ UNCHANGED vars
  <2>1. UNCHANGED vars
    BY <1>23 DEF Exited
  <2>2. TypeOK' /\ Good'
    BY <2>1 DEF vars, IInv, TypeOK, Good
  <2>3. AtPoint(Point)' <=> AtPoint(Point)
    BY <2>1 DEF vars, Point, AtPoint, Expected, Recorded
  <2>4. Topmost(pc)' <=> Topmost(pc)
    BY <2>1 DEF vars, Topmost
  <2> QED BY <2>1, <2>2, <2>3, <2>4 DEF vars, IInv
<1> QED BY SMTT(30), <1>1, <1>2, <1>3, <1>4, <1>5, <1>6, <1>7, <1>8, <1>9, <1>10, <1>11, <1>12, <1>13, <1>14,
           <1>15, <1>16, <1>17, <1>18, <1>19, <1>20, <1>21, <1>22, <1>23 DEF Next

\* The invariant holds at every point of every construction and destruction.
THEOREM ConstructionInvariant == Spec => []IInv
<1>1. Init => IInv
  BY Initially
<1>2. IInv /\ [Next]_vars => IInv'
  BY StepKeeps
<1> QED BY <1>1, <1>2, PTL DEF Spec

\* No handle is stale and none is doubled, through every move, early return and
\* destructor of a moved-from object (the std::exchange in the move constructors
\* of Umem, Xsk, MmapRing and XdpLoader).
THEOREM ResourcesHaveOneOwner == Spec => []OneOwnerPerResource
<1>1. IInv => OneOwnerPerResource
  BY DEF IInv, Good, GoodStack, OneOwner, OneOwnerPerResource
<1> QED BY <1>1, ConstructionInvariant, PTL

\* When the program has exited, whichever call failed, everything built was given
\* back, but for what the kernel refused and for the UMEM mapping if the raw
\* pointer was its only handle (Umem::create logging before u exists).
THEOREM NothingEverLeaks == Spec => []NothingLeaks
<1>1. IInv => NothingLeaks
  <2> SUFFICES ASSUME IInv, pc = "exited"
               PROVE  live \subseteq refused \cup leaked /\ leaked \subseteq {"umem"}
    BY DEF NothingLeaks
  <2>1. stack = <<>> /\ DOMAIN stack = {}
    BY SMTT(30) DEF IInv
  <2>2. Covered(stack, live \ (refused \cup leaked)) /\ leaked \subseteq {"umem"}
    BY DEF IInv, Good, GoodStack
  <2> QED BY <2>1, <2>2 DEF Covered
<1> QED BY <1>1, ConstructionInvariant, PTL

\* The kernel refuses nothing but an entry or a detachment.
RefusedOnly == refused \subseteq {"map_entry", "attach"}

\* Every step keeps that.
LEMMA RefusedOnlyKeeps == RefusedOnly /\ [Next]_vars => RefusedOnly'
<1> SUFFICES ASSUME RefusedOnly, [Next]_vars PROVE RefusedOnly'
  OBVIOUS
<1>1. ASSUME NEW r, NEW o, GiveBack(r, o) PROVE RefusedOnly'
  BY <1>1 DEF GiveBack, RefusedOnly
<1>2. CASE UNCHANGED refused
  BY <1>2 DEF RefusedOnly
<1>3. CASE StopRedirect \/ JoinWorker \/ Detach
  <2>1. PICK here, name, r, there : Explicitly(here, name, r, there)
    BY <1>3 DEF StopRedirect, JoinWorker, Detach
  <2> QED BY <1>1, <1>2, <2>1 DEF Explicitly
<1>4. CASE Returning \/ Unwinding
  <2>1. PICK n, there : DestroyLast(n, there)
    BY <1>4 DEF Returning, Unwinding
  <2> QED BY <1>1, <1>2, <2>1 DEF DestroyLast, kernelvars
<1>5. CASE ~(StopRedirect \/ JoinWorker \/ Detach \/ Returning \/ Unwinding)
  <2>1. UNCHANGED refused
    <3>1. CASE UNCHANGED vars \/ Exited
      BY <3>1 DEF vars, Exited
    <3>2. CASE \/ SetRlimit \/ LogUmem \/ SetRingSizes \/ RegisterUmem \/ GetMmapOffsets
               \/ FindInterface \/ SetBusyPoll \/ LoadObject \/ SetTargetIp \/ LogAttach
               \/ WorkerPrepared \/ Running \/ Drain
      BY <3>2 DEF SetRlimit, LogUmem, SetRingSizes, RegisterUmem, GetMmapOffsets, FindInterface,
           SetBusyPoll, LoadObject, SetTargetIp, LogAttach, WorkerPrepared, Running, Drain,
           Call, kernelvars
    <3>3. CASE Mmap \/ Mlock \/ Socket \/ MapRing \/ BindZeroCopy \/ BindCopy \/ AssembleXsk
      BY <3>3 DEF Mmap, Mlock, Socket, MapRing, BindZeroCopy, BindCopy, AssembleXsk, Fails, kernelvars
    <3>4. CASE OpenObject \/ UpdateXsksMap \/ AttachDrv \/ AttachSkb \/ ReturnLoader
      BY <3>4 DEF OpenObject, UpdateXsksMap, AttachDrv, AttachSkb, ReturnLoader, Attach, Fails, kernelvars
    <3>5. CASE TakeUmem \/ TakeXsk \/ SpawnWorker \/ EmplaceLoader
      BY <3>5 DEF TakeUmem, TakeXsk, SpawnWorker, EmplaceLoader, Fails, kernelvars
    <3> QED BY <1>5, <3>1, <3>2, <3>3, <3>4, <3>5 DEF Next
  <2> QED BY <1>2, <2>1
<1> QED BY <1>3, <1>4, <1>5

\* It holds throughout.
LEMMA AlwaysRefusedOnly == Spec => []RefusedOnly
<1>1. Init => RefusedOnly
  BY DEF Init, RefusedOnly
<1> QED BY <1>1, RefusedOnlyKeeps, PTL DEF Spec

\* Nothing goes before what uses it: the worker's rings, socket and UMEM outlive
\* the worker, the socket outlives its rings and the redirections to it, the
\* UMEM outlives the socket (the order of main's variables and of Xsk's members).
THEOREM LifetimesAlwaysNest == Spec => []LifetimesNest
<1>1. IInv /\ RefusedOnly => LifetimesNest
  <2> SUFFICES ASSUME IInv, RefusedOnly PROVE LifetimesNest
    OBVIOUS
  <2>1. /\ Covered(stack, live \ (refused \cup leaked)) /\ Supported(stack) /\ OneOwner(stack, live)
        /\ leaked \subseteq {"umem"} /\ stack \in Seq(Objects)
    BY DEF IInv, Good, GoodStack, TypeOK
  <2>2. ASSUME NEW a \in live \ (refused \cup leaked) PROVE Uses(a) \subseteq live
    <3> SUFFICES ASSUME NEW b \in Uses(a) PROVE b \in live
      OBVIOUS
    <3>1. PICK k \in DOMAIN stack : a \in stack[k].holds
      BY <2>1 DEF Covered
    <3>2. PICK j \in 1..k : b \in stack[j].holds
      BY <2>1, <3>1 DEF Supported
    <3>3. j \in DOMAIN stack
      BY SMTT(30), <2>1, <3>1, <3>2
    <3> QED BY <2>1, <3>2, <3>3 DEF OneOwner
  <2>3. \A a \in live : a \notin {"map_entry", "attach", "umem"} => Uses(a) \subseteq live
    BY <2>1, <2>2 DEF RefusedOnly
  <2>4. "worker" \in live => {"fd", "umem"} \cup Range(Rings) \subseteq live
    BY <2>3, RingsAre DEF Uses
  <2>5. live \cap Range(Rings) # {} => "fd" \in live
    BY <2>3, RingsAre DEF Uses
  <2>6. "fd" \in live => "umem" \in live
    BY <2>3 DEF Uses
  <2>7. "map_entry" \in live \ refused => "fd" \in live
    BY <2>1, <2>2 DEF Uses
  <2>8. "attach" \in live \ refused => {"fd", "umem", "obj"} \subseteq live
    BY <2>1, <2>2 DEF Uses
  <2> QED BY <2>4, <2>5, <2>6, <2>7, <2>8 DEF LifetimesNest
<1> QED BY <1>1, ConstructionInvariant, AlwaysRefusedOnly, PTL

\* What run_receiver reports of huge pages, zero copy and native XDP is what the
\* kernel granted, whichever fallback was taken, and no bind asks for both modes.
THEOREM ModesAreAlwaysTheGrantedOnes == Spec => []ModesAreTheGrantedOnes
<1>1. IInv => ModesAreTheGrantedOnes
  <2> SUFFICES ASSUME IInv PROVE ModesAreTheGrantedOnes
    OBVIOUS
  <2>1. sxdp_flags # {"zerocopy", "copy"}
    <3>1. sxdp_flags \in {{}, {"zerocopy"}, {"copy"}}
      BY DEF IInv, TypeOK
    <3>2. ~ {"zerocopy", "copy"} \subseteq sxdp_flags
      BY <3>1
    <3> QED BY <3>2
  <2>2. ASSUME pc \in Closing
        PROVE  /\ run.hugetlb = granted.huge
               /\ run.zero_copy = (granted.bind = "zero_copy")
               /\ run.native_xdp = (granted.attach = "drv")
    <3>1. Recorded(pc)
      BY <2>2, Here DEF Points
    <3> QED BY <2>2, <3>1 DEF Recorded, Closing, InUmem
  <2> QED BY <2>1, <2>2 DEF ModesAreTheGrantedOnes, Closing
<1> QED BY <1>1, ConstructionInvariant, PTL

\* The program is detached by the destructor of the object that holds it.
LEMMA DetachedLast ==
  ASSUME IInv, Unwinding, "attach" \in live, "attach" \notin live'
  PROVE  Len(stack) \in DOMAIN stack /\ "attach" \in stack[Len(stack)].holds
<1>1. stack \in Seq(Objects) /\ OneOwner(stack, live) /\ DestroyLast(0, "exited")
  BY DEF Unwinding, IInv, TypeOK, Good, GoodStack
<1>2. Len(stack) # 0
  <2> SUFFICES ASSUME Len(stack) = 0 PROVE FALSE
    OBVIOUS
  <2> QED BY <1>1 DEF DestroyLast, kernelvars
<1>3. PICK o : o = Last(stack)
  OBVIOUS
<1>4. Len(stack) \in DOMAIN stack /\ o = stack[Len(stack)] /\ o.holds \subseteq Resources
  <2>1. Len(stack) \in DOMAIN stack
    BY SMTT(30), <1>1, <1>2
  <2> QED BY <1>1, <1>3, <2>1, ObjectIs DEF Last
<1>5. o.holds # {} /\ o.name # "base"
  BY <1>1, <1>2, <1>3 DEF DestroyLast
<1>6. PICK q : q = FirstIn(ReleaseOrder, o.holds)
  OBVIOUS
<1>7. GiveBack(q, o) /\ FirstOf(q, o.holds)
  BY <1>1, <1>2, <1>3, <1>5, <1>6 DEF DestroyLast, FirstOf
<1>8. q = "attach"
  BY <1>7 DEF GiveBack
<1>9. q \in o.holds
  BY <1>4, <1>5, <1>7, FirstToRelease DEF Unused
<1> QED BY <1>4, <1>8, <1>9

\* If that is a complete loader, the thread declared after it is gone already.
LEMMA WorkerIsGone ==
  ASSUME IInv, RefusedOnly, Len(stack) \in DOMAIN stack, "attach" \in stack[Len(stack)].holds,
         ObjectNamed(stack, "loader").holds # {}
  PROVE  "worker" \notin live
<1> DEFINE n == Len(stack)
<1>1. /\ stack \in Seq(Objects) /\ Sorted(stack) /\ Placed(stack)
      /\ Covered(stack, live \ (refused \cup leaked)) /\ leaked \subseteq {"umem"}
  BY DEF IInv, TypeOK, Good, GoodStack
<1>2. PICK j \in 1..n : stack[j].name = "loader"
  BY <1>1 DEF Placed
<1>3. j \in DOMAIN stack /\ stack[j].holds # {}
  <2>1. j \in DOMAIN stack
    BY SMTT(30), <1>1
  <2>2. ObjectNamed(stack, "loader") = stack[j]
    BY <1>1, <1>2, <2>1, TheNamed
  <2> QED BY <2>1, <2>2
<1>4. j = n
  BY <1>1, <1>2, <1>3 DEF Placed
<1> SUFFICES ASSUME "worker" \in live PROVE FALSE
  OBVIOUS
<1>5. PICK k \in DOMAIN stack : "worker" \in stack[k].holds
  BY <1>1 DEF Covered, RefusedOnly
<1>6. stack[k].name = "poll_thread"
  BY <1>1, <1>5 DEF Placed
<1>7. k \in Nat /\ n \in Nat /\ k =< n
  BY SMTT(30), <1>1
<1>8. k # n
  BY <1>2, <1>4, <1>6
<1>9. Rank(stack[k].name) < Rank(stack[n].name)
  BY SMTT(30), <1>1, <1>3, <1>4, <1>7, <1>8 DEF Sorted
<1> QED BY SMTT(30), <1>2, <1>4, <1>6, <1>9, Ranks

\* On every exceptional exit the worker is joined before a complete loader takes
\* its program off the interface ("declared before the worker", main.cpp).
THEOREM WorkerAlwaysGoesBeforeLoader == Spec => WorkerGoesBeforeLoader
<1>1. IInv /\ RefusedOnly /\ [Next]_vars =>
        [pc = "unwinding" /\ "attach" \in live \ live' /\ ObjectNamed(stack, "loader").holds # {}
         => "worker" \notin live]_vars
  <2> SUFFICES ASSUME IInv, RefusedOnly, Next, pc = "unwinding", "attach" \in live \ live',
                      ObjectNamed(stack, "loader").holds # {}
               PROVE  "worker" \notin live
    OBVIOUS
  <2>1. Unwinding
    <3>1. \A here, there : here # "unwinding" => ~Call(here, there)
      BY DEF Call
    <3>2. ~(\/ SetRlimit \/ LogUmem \/ SetRingSizes \/ RegisterUmem \/ GetMmapOffsets
            \/ FindInterface \/ SetBusyPoll \/ LoadObject \/ SetTargetIp \/ LogAttach
            \/ WorkerPrepared \/ Running \/ Drain)
      BY <3>1 DEF SetRlimit, LogUmem, SetRingSizes, RegisterUmem, GetMmapOffsets, FindInterface,
           SetBusyPoll, LoadObject, SetTargetIp, LogAttach, WorkerPrepared, Running, Drain
    <3>3. ~(Mmap \/ Mlock \/ Socket \/ MapRing \/ BindZeroCopy \/ BindCopy \/ AssembleXsk)
      BY DEF Mmap, Mlock, Socket, MapRing, BindZeroCopy, BindCopy, AssembleXsk
    <3>4. ~(OpenObject \/ UpdateXsksMap \/ AttachDrv \/ AttachSkb \/ ReturnLoader)
      BY DEF OpenObject, UpdateXsksMap, AttachDrv, AttachSkb, ReturnLoader
    <3>5. ~(TakeUmem \/ TakeXsk \/ SpawnWorker \/ EmplaceLoader \/ Returning \/ Exited)
      BY DEF TakeUmem, TakeXsk, SpawnWorker, EmplaceLoader, Returning, Exited
    <3>6. ~(StopRedirect \/ JoinWorker \/ Detach)
      BY DEF StopRedirect, JoinWorker, Detach, Explicitly
    <3> QED BY <3>2, <3>3, <3>4, <3>5, <3>6 DEF Next
  <2>2. Len(stack) \in DOMAIN stack /\ "attach" \in stack[Len(stack)].holds
    BY <2>1, DetachedLast
  <2> QED BY <2>2, WorkerIsGone
<1> QED BY <1>1, ConstructionInvariant, AlwaysRefusedOnly, PTL DEF Spec, WorkerGoesBeforeLoader
=============================================================================
