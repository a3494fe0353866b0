---------------------------- MODULE RuntimeAtomic ----------------------------
(***************************************************************************)
(* What the process-wide runtime promises to callers: it is on or off, and *)
(* kernels exist only while it is on.  uni_simd_finalize() therefore       *)
(* refuses to switch it off while a kernel is alive.                       *)
(***************************************************************************)
CONSTANT Kernels          \* addresses kernels can be allocated at

VARIABLES initialized,    \* the runtime is on
          live            \* kernels that exist

vars == <<initialized, live>>

Init == ~initialized /\ live = {}

Initialize == initialized' = TRUE /\ UNCHANGED live

Finalize == live = {} /\ initialized' = FALSE /\ UNCHANGED live

Create(kernel) ==
  /\ initialized /\ kernel \notin live
  /\ live' = live \cup {kernel} /\ UNCHANGED initialized

Free(kernel) == kernel \in live /\ live' = live \ {kernel} /\ UNCHANGED initialized

Next == Initialize \/ Finalize \/ \E kernel \in Kernels : Create(kernel) \/ Free(kernel)

Spec == Init /\ [][Next]_vars
=============================================================================
