---------------------------- MODULE NaClCallbacks ----------------------------
(***************************************************************************)
(* Callbacks of the NaCl backend and the program counter that authorizes   *)
(* an allocation.  The patched callback system call                        *)
(* (backends/rlbox_nacl/apply_backend.py) saves the program counters of    *)
(* the calling sandbox thread in its NaClSandbox_Thread, and then runs the *)
(* trusted function of the slot.  p4c_allocate reads them back (through    *)
(* PolicyRuntime::allocate_from_callback) and allocates.                   *)
(*                                                                         *)
(* Sandbox threads run at the same time, and a trusted function may call   *)
(* into the sandbox again (invoke_sandbox_function), where the same thread *)
(* may make another callback system call: the saved counters are neither   *)
(* kept on a stack nor restored.                                           *)
(***************************************************************************)
EXTENDS InterspecRuntime, Sequences

CONSTANTS
  SandboxThreads,   \* sandbox threads
  Slots,            \* callback slots that sandbox code passes
  Registered,       \* the slots that hold a trusted function
  AllocSlot,        \* callback_slot_for_key of the allocation callback
  MaxNesting,       \* bound: callbacks inside one another on a thread
  SiteRanges        \* the registered sites

ASSUME CallbackAssumption ==
  /\ AllocSlot \in Registered /\ Registered \subseteq Slots
  /\ MaxNesting \in Nat
  /\ SiteRanges \subseteq AllocationSite
  /\ 0 \in Pcs

VARIABLES
  saved,    \* thread -> callbackNewProgramCounter of its NaClSandbox_Thread
  frames,   \* thread -> its callbacks, the innermost last
  granted   \* what was allocated, with the counter of the system call

callbackVars == <<saved, frames, granted>>
naclVars == <<vars, callbackVars>>

Frame == [slot : Registered,
          new_prog_ctr : Pcs,   \* natp->user.new_prog_ctr at the entry
          size : Sizes,
          at : {"entered", "read", "returning", "in_sandbox"},
          pc : Pcs]             \* the local variable pc of the callback

CallbackTypeOK ==
  /\ TypeOK
  /\ saved \in [SandboxThreads -> Pcs]
  /\ frames \in [SandboxThreads -> Seq(Frame)]
  /\ granted \subseteq [site_id : SiteIds, new_prog_ctr : Pcs]

Depth(t) == Len(frames[t])
Innermost(t) == frames[t][Depth(t)]
Runs(t, point) == Depth(t) > 0 /\ Innermost(t).at = point

(* The innermost callback of t goes on to a point. *)
Goto(t, point) == frames' = [frames EXCEPT ![t][Depth(t)].at = point]

InSandbox(t) == Depth(t) > 0 => Innermost(t).at = "in_sandbox"

-----------------------------------------------------------------------------
(* Mutant: one place for all threads. *)
Save_Global(t, pc) == saved' = [u \in SandboxThreads |-> pc]

(* callbackNewProgramCounter = natp->user.new_prog_ctr, in the data of the *)
(* thread itself (custom_app_state).                                       *)
Save(t, pc) == saved' = [saved EXCEPT ![t] = pc]

(* callbackSlot[callbackSlotNumber] != 0 *)
HoldsFunction(slot) == slot \in Registered

(* The callback system call, which runs nothing for an unknown slot. *)
EnterCallback(t, slot, pc, size) ==
  /\ InSandbox(t)
  /\ Depth(t) < MaxNesting
  /\ HoldsFunction(slot)
  /\ Save(t, pc)
  /\ frames' = [frames EXCEPT ![t] =
                  Append(@, [slot |-> slot, new_prog_ctr |-> pc,
                             size |-> size, at |-> "entered", pc |-> 0])]
  /\ UNCHANGED <<vars, granted>>

(* pc = impl.callback_program_counter(), which is the new one as well, so  *)
(* that the second attempt of allocate_from_callback is never made.        *)
ReadProgramCounter(t) ==
  /\ Runs(t, "entered")
  /\ Innermost(t).slot = AllocSlot
  /\ frames' = [frames EXCEPT ![t][Depth(t)].pc = saved[t],
                              ![t][Depth(t)].at = "read"]
  /\ UNCHANGED <<vars, saved, granted>>

(* runtime_.allocate_from_pc(size, pc) *)
AllocateForCallback(t) ==
  /\ Runs(t, "read")
  /\ LET f == Innermost(t) IN
     \/ /\ AllocateFromPc(f.size, f.pc)
        /\ granted' = granted \cup
             {[site_id |-> s.id, new_prog_ctr |-> f.new_prog_ctr] :
                s \in FindSite(f.pc)}
     \/ /\ FindSite(f.pc) = {} \/ ~ CanAllocate(f.size)
        /\ UNCHANGED <<vars, granted>>
  /\ Goto(t, "returning")
  /\ UNCHANGED saved

(* Another trusted function calls into the sandbox, once.                  *)
InvokeSandbox(t) ==
  /\ Runs(t, "entered")
  /\ Innermost(t).slot # AllocSlot
  /\ Goto(t, "in_sandbox")
  /\ UNCHANGED <<vars, saved, granted>>

(* The sandbox function that a callback called returns to it. *)
ReturnToCallback(t) ==
  /\ Runs(t, "in_sandbox")
  /\ Goto(t, "returning")
  /\ UNCHANGED <<vars, saved, granted>>

LeaveCallback(t) ==
  /\ Runs(t, "returning")
  /\ frames' = [frames EXCEPT ![t] = SubSeq(@, 1, Depth(t) - 1)]
  /\ UNCHANGED <<vars, saved, granted>>

(* The types and the sites of SiteRanges are registered. *)
CallbackInit ==
  /\ types = [id \in TypeIds |->
                IF \E s \in SiteRanges : s.type_id = id
                THEN (CHOOSE s \in SiteRanges : s.type_id = id).type_hash
                ELSE NoHash]
  /\ type_ids = [h \in TypeHashes |->
                   IF \E id \in TypeIds : types[id] = h
                   THEN CHOOSE id \in TypeIds : types[id] = h ELSE 0]
  /\ sites = SiteRanges
  /\ sites_by_id = [id \in SiteIds |->
                      IF \E s \in SiteRanges : s.id = id
                      THEN (CHOOSE s \in SiteRanges : s.id = id).begin ELSE 0]
  /\ site_types = [id \in SiteIds |->
                     IF \E s \in SiteRanges : s.id = id
                     THEN (CHOOSE s \in SiteRanges : s.id = id).type_hash
                     ELSE NoHash]
  /\ allocations = {}
  /\ used = 0
  /\ saved = [t \in SandboxThreads |-> 0]
  /\ frames = [t \in SandboxThreads |-> <<>>]
  /\ granted = {}

CallbackNext ==
  \E t \in SandboxThreads :
    \/ \E slot \in Slots, pc \in Pcs, size \in Sizes :
         EnterCallback(t, slot, pc, size)
    \/ ReadProgramCounter(t)
    \/ AllocateForCallback(t)
    \/ InvokeSandbox(t)
    \/ ReturnToCallback(t)
    \/ LeaveCallback(t)

CallbackSpec == CallbackInit /\ [][CallbackNext]_naclVars

-----------------------------------------------------------------------------
(* P7A_PROVENANCE.md: "allocation authority follows the actual thread that *)
(* executed the syscall rather than a process-wide value that U could      *)
(* indirectly cause to become stale across nested or concurrent            *)
(* execution".  The site of every object that a callback was granted       *)
(* contains the program counter of the very system call that asked for it, *)
(* whatever other threads, and callbacks nested in one another, have saved *)
(* since: a counter is read before anything can overwrite it.              *)
AuthorityFollowsCaller ==
  \A g \in granted :
    \E s \in sites : /\ s.id = g.site_id
                     /\ g.new_prog_ctr \in s.begin .. (s.end - 1)
=============================================================================
