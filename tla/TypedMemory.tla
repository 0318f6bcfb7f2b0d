---------------------------- MODULE TypedMemory ----------------------------
(***************************************************************************)
(* What trusted code T relies on when it consumes a pointer coming from    *)
(* the sandbox, with no bump pointer, no ordered map and no lock: a set of *)
(* live typed objects, and the set of the addresses that were ever handed  *)
(* out.  README.md and P7C_GENERALIZATION.md of the repository call the    *)
(* second one the absence of physical address reuse.                       *)
(*                                                                         *)
(* InterspecRuntime implements this specification.                         *)
(***************************************************************************)
EXTENDS Naturals

VARIABLES
  objects,   \* live objects: {base, size, type_hash, site_id}
  spent      \* addresses that belong, or once belonged, to an object

memVars == <<objects, spent>>

Extent(o) == o.base .. (o.base + o.size - 1)

Live == UNION {Extent(o) : o \in objects}

(* o is a new object on addresses that were never handed out.  The         *)
(* allocator may consume more addresses than the object has (padding).     *)
Fresh(o) ==
  /\ o.size > 0
  /\ Extent(o) \cap spent = {}
  /\ Extent(o) \subseteq spent'
  /\ spent \subseteq spent'

Init == objects = {} /\ spent = {}

(* A new object appears. *)
Grant ==
  \E o \in objects' :
    /\ Fresh(o)
    /\ objects' = objects \cup {o}

(* A live object dies; its addresses stay spent. *)
Retire ==
  \E o \in objects :
    /\ objects' = objects \ {o}
    /\ UNCHANGED spent

(* A live object moves to fresh addresses: it may change its size, never   *)
(* its type nor the allocation site that vouches for it.                   *)
Move ==
  \E o \in objects, n \in objects' :
    /\ Fresh(n)
    /\ n.type_hash = o.type_hash
    /\ n.site_id = o.site_id
    /\ objects' = (objects \ {o}) \cup {n}

Next == Grant \/ Retire \/ Move

Spec == Init /\ [][Next]_memVars
=============================================================================
