------------------------------- MODULE Runtime -------------------------------
(***************************************************************************)
(* The process-wide runtime of the C API (struct Runtime and the functions *)
(* that use it): a mutex, the initialized flag and the number of kernels.  *)
(*                                                                         *)
(* Threads call the API in any order.  Every access to memory under the    *)
(* mutex is a step of its own, because operations on a null handle read    *)
(* the flag without the mutex.                                             *)
(*                                                                         *)
(* A definition whose comment starts with Fault is no part of the model:   *)
(* it is the definition of the same name with a plausible mistake, which a *)
(* property below must notice.                                             *)
(***************************************************************************)
EXTENDS Integers, FiniteSets

CONSTANTS
  Threads,
  Kernels,      \* addresses kernels can be allocated at
  None          \* no thread and no kernel

ASSUME RuntimeAssumption ==
  IsFiniteSet(Kernels) /\ None \notin Threads /\ None \notin Kernels

VARIABLES
  mutex,          \* thread that holds Runtime::mutex, or None
  initialized,
  kernel_count,
  live,           \* kernels allocated and not deleted
  owned,          \* kernels whose handles callers hold and do not use
  thread_stage,   \* how far each thread's call is
  op,             \* which operation each thread calls
  handle,         \* the kernel that operation creates or frees
  thread_answer   \* what each thread's last call returned

shared == <<mutex, initialized, kernel_count, live>>
runtime_vars == <<shared, owned, thread_stage, op, handle, thread_answer>>

Atomic == INSTANCE RuntimeAtomic

-----------------------------------------------------------------------------
LockedOps == {"initialize", "finalize", "create", "create_unknown", "free"}
Ops == LockedOps \cup {"null_handle"}
Stages == {"idle", "waiting", "checking", "finishing"}
Answers == {"none", "SUCCESS", "INVALID_STATE", "INVALID_ARGUMENT", "NOT_INITIALIZED",
            "HANDLE", "NULL"}

Failure(operation) ==
  IF operation \in {"create", "create_unknown"} THEN "NULL" ELSE "INVALID_STATE"

ReturnTo(thread, value) ==
  /\ thread_stage' = [thread_stage EXCEPT ![thread] = "idle"]
  /\ op' = [op EXCEPT ![thread] = "none"]
  /\ thread_answer' = [thread_answer EXCEPT ![thread] = value]

GoTo(thread, next) ==
  thread_stage' = [thread_stage EXCEPT ![thread] = next] /\ UNCHANGED <<op, thread_answer>>

At(thread, where, operations) ==
  mutex = thread /\ thread_stage[thread] = where /\ op[thread] \in operations

-----------------------------------------------------------------------------
RuntimeInit ==
  /\ mutex = None /\ initialized = FALSE /\ kernel_count = 0
  /\ live = {} /\ owned = {}
  /\ thread_stage = [thread \in Threads |-> "idle"]
  /\ op = [thread \in Threads |-> "none"]
  /\ handle = [thread \in Threads |-> None]
  /\ thread_answer = [thread \in Threads |-> "none"]

(* A caller enters the API.  A handle that is freed is in no other use;    *)
(* "create_unknown" names an id that does not exist.                       *)
CallRuntime(thread, operation) ==
  /\ thread_stage[thread] = "idle" /\ operation # "free"
  /\ thread_stage' = [thread_stage EXCEPT ![thread] = "waiting"]
  /\ op' = [op EXCEPT ![thread] = operation]
  /\ thread_answer' = [thread_answer EXCEPT ![thread] = "none"]
  /\ UNCHANGED <<shared, owned, handle>>

CallFree(thread, kernel) ==
  /\ thread_stage[thread] = "idle" /\ kernel \in owned
  /\ owned' = owned \ {kernel}
  /\ thread_stage' = [thread_stage EXCEPT ![thread] = "waiting"]
  /\ op' = [op EXCEPT ![thread] = "free"]
  /\ handle' = [handle EXCEPT ![thread] = kernel]
  /\ thread_answer' = [thread_answer EXCEPT ![thread] = "none"]
  /\ UNCHANGED shared

(* Operations on a null handle only ask whether the runtime is on.         *)
NullHandle(thread) ==
  /\ thread_stage[thread] = "waiting" /\ op[thread] = "null_handle"
  /\ ReturnTo(thread, IF initialized THEN "INVALID_ARGUMENT" ELSE "NOT_INITIALIZED")
  /\ UNCHANGED <<shared, owned, handle>>

Lock(thread) ==
  /\ thread_stage[thread] = "waiting" /\ op[thread] \in LockedOps
  /\ mutex = None /\ mutex' = thread
  /\ GoTo(thread, "checking")
  /\ UNCHANGED <<initialized, kernel_count, live, owned, handle>>

(* The mutex may throw; the catch clause answers and nothing has happened: *)
(* a kernel that was to be freed stays with its owner.                     *)
LockFails(thread) ==
  /\ thread_stage[thread] = "waiting" /\ op[thread] \in LockedOps
  /\ owned' = IF op[thread] = "free" THEN owned \cup {handle[thread]} ELSE owned
  /\ handle' = [handle EXCEPT ![thread] = None]
  /\ ReturnTo(thread, Failure(op[thread]))
  /\ UNCHANGED shared

(* uni_simd_initialize                                                     *)
Initialize(thread) ==
  /\ At(thread, "checking", {"initialize"})
  /\ initialized' = TRUE /\ mutex' = None
  /\ ReturnTo(thread, "SUCCESS")
  /\ UNCHANGED <<kernel_count, live, owned, handle>>

(* Fault: uni_simd_finalize does not look at the count.                    *)
FinalizeCheckSkipped(thread) ==
  /\ At(thread, "checking", {"finalize"})
  /\ GoTo(thread, "finishing")
  /\ UNCHANGED <<shared, owned, handle>>

(* Fault: the comparison is off by one kernel.                             *)
FinalizeCheckOffByOne(thread) ==
  /\ At(thread, "checking", {"finalize"})
  /\ \/ kernel_count > 1 /\ mutex' = None /\ ReturnTo(thread, "INVALID_STATE")
     \/ kernel_count <= 1 /\ UNCHANGED mutex /\ GoTo(thread, "finishing")
  /\ UNCHANGED <<initialized, kernel_count, live, owned, handle>>

(* uni_simd_finalize: refuse while kernels are counted ...                 *)
FinalizeCheck(thread) ==
  /\ At(thread, "checking", {"finalize"})
  /\ \/ kernel_count # 0 /\ mutex' = None /\ ReturnTo(thread, "INVALID_STATE")
     \/ kernel_count = 0 /\ UNCHANGED mutex /\ GoTo(thread, "finishing")
  /\ UNCHANGED <<initialized, kernel_count, live, owned, handle>>

(* ... or switch the runtime off.                                          *)
FinalizeStore(thread) ==
  /\ At(thread, "finishing", {"finalize"})
  /\ initialized' = FALSE /\ mutex' = None
  /\ ReturnTo(thread, "SUCCESS")
  /\ UNCHANGED <<kernel_count, live, owned, handle>>

(* Fault: the count goes up whether or not there is a kernel.              *)
CreateRefusedCounting(thread) ==
  /\ At(thread, "checking", {"create", "create_unknown"})
  /\ kernel_count' = kernel_count + 1 /\ mutex' = None
  /\ ReturnTo(thread, "NULL")
  /\ UNCHANGED <<initialized, live, owned, handle>>

(* uni_simd_kernel_create: the runtime is off, the id is unknown or there  *)
(* is no memory ...                                                        *)
RefuseCreate(thread) ==
  /\ At(thread, "checking", {"create", "create_unknown"})
  /\ mutex' = None
  /\ ReturnTo(thread, "NULL")
  /\ UNCHANGED <<initialized, kernel_count, live, owned, handle>>

(* ... or a kernel is allocated ...                                        *)
CreateAllocate(thread, kernel) ==
  /\ At(thread, "checking", {"create"}) /\ initialized /\ kernel \notin live
  /\ live' = live \cup {kernel}
  /\ handle' = [handle EXCEPT ![thread] = kernel]
  /\ GoTo(thread, "finishing")
  /\ UNCHANGED <<mutex, initialized, kernel_count, owned>>

(* Fault: the new kernel is not counted.                                   *)
CreateCountForgotten(thread) ==
  /\ At(thread, "finishing", {"create"})
  /\ mutex' = None
  /\ owned' = owned \cup {handle[thread]}
  /\ handle' = [handle EXCEPT ![thread] = None]
  /\ ReturnTo(thread, "HANDLE")
  /\ UNCHANGED <<initialized, kernel_count, live>>

(* ... counted and handed out.                                             *)
CreateCount(thread) ==
  /\ At(thread, "finishing", {"create"})
  /\ kernel_count' = kernel_count + 1 /\ mutex' = None
  /\ owned' = owned \cup {handle[thread]}
  /\ handle' = [handle EXCEPT ![thread] = None]
  /\ ReturnTo(thread, "HANDLE")
  /\ UNCHANGED <<initialized, live>>

(* uni_simd_kernel_free: delete the kernel ...                             *)
FreeDelete(thread) ==
  /\ At(thread, "checking", {"free"})
  /\ live' = live \ {handle[thread]}
  /\ GoTo(thread, "finishing")
  /\ UNCHANGED <<mutex, initialized, kernel_count, owned, handle>>

(* Fault: the mutex is still held when the function returns.               *)
FreeCountKeepsMutex(thread) ==
  /\ At(thread, "finishing", {"free"})
  /\ kernel_count' = kernel_count - 1
  /\ handle' = [handle EXCEPT ![thread] = None]
  /\ ReturnTo(thread, "SUCCESS")
  /\ UNCHANGED <<mutex, initialized, live, owned>>

(* ... then count it out.                                                  *)
FreeCount(thread) ==
  /\ At(thread, "finishing", {"free"})
  /\ kernel_count' = kernel_count - 1 /\ mutex' = None
  /\ handle' = [handle EXCEPT ![thread] = None]
  /\ ReturnTo(thread, "SUCCESS")
  /\ UNCHANGED <<initialized, live, owned>>

Locked(thread) ==
  \/ Initialize(thread) \/ FinalizeCheck(thread) \/ FinalizeStore(thread)
  \/ RefuseCreate(thread) \/ CreateCount(thread)
  \/ FreeDelete(thread) \/ FreeCount(thread)
  \/ \E kernel \in Kernels : CreateAllocate(thread, kernel)

Enter(thread) ==
  \/ NullHandle(thread) \/ Lock(thread) \/ LockFails(thread)
  \/ \E operation \in Ops : CallRuntime(thread, operation)
  \/ \E kernel \in Kernels : CallFree(thread, kernel)

RuntimeNext == \E thread \in Threads : Enter(thread) \/ Locked(thread)

(* A thread that holds the mutex keeps running; std::mutex promises nobody *)
(* a turn.                                                                 *)
Fairness == \A thread \in Threads : WF_runtime_vars(Locked(thread))

RuntimeSpec == RuntimeInit /\ [][RuntimeNext]_runtime_vars /\ Fairness

-----------------------------------------------------------------------------
RuntimeTypeOK ==
  /\ mutex \in Threads \cup {None} /\ initialized \in BOOLEAN /\ kernel_count \in Nat
  /\ live \subseteq Kernels /\ owned \subseteq live
  /\ thread_stage \in [Threads -> Stages] /\ op \in [Threads -> Ops \cup {"none"}]
  /\ handle \in [Threads -> Kernels \cup {None}] /\ thread_answer \in [Threads -> Answers]

Between(operation) ==
  \E thread \in Threads : thread_stage[thread] = "finishing" /\ op[thread] = operation

(* Runtime::kernel_count is the number of kernels that exist, up to the    *)
(* one a thread is creating or freeing while it holds the mutex.           *)
CountIsExact ==
  kernel_count = Cardinality(live) - (IF Between("create") THEN 1 ELSE 0)
                                   + (IF Between("free") THEN 1 ELSE 0)

(* No kernel exists while the runtime is off: whatever interleaving of     *)
(* create, free and finalize, the flag never goes down under a kernel.     *)
KernelsNeedRuntime == live # {} => initialized

(* Every interleaving of the calls' steps looks to the flag and to the     *)
(* kernels like whole calls one after the other.                           *)
IsAtomic == Atomic!Spec

(* Whoever enters a critical section leaves it: no path of any operation   *)
(* returns with the mutex held or waits inside it.                         *)
MutexIsReleased == \A thread \in Threads : mutex = thread ~> mutex = None
=============================================================================
