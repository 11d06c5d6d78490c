----------------------------- MODULE SecureBuffer -----------------------------
(***************************************************************************)
(* classes SecureBytes and SecureString (src/src/secure_bytes.cpp): which  *)
(* memory they own, and what is in it when they give it back: of each      *)
(* memory, the cells that hold a byte of a secret.  A std::vector's bytes  *)
(* are on the heap; a std::string of up to Local bytes keeps them in       *)
(* itself, and a move copies those and overwrites only the first.          *)
(***************************************************************************)
EXTENDS Naturals, FiniteSets

CONSTANTS
  Object,     \* the objects, all of one class
  Local,      \* bytes a std::string keeps in itself, 15
  MaxBytes    \* bound: the longest secret

ASSUME SecureBufferAssumption == Local \in Nat \ {0} /\ MaxBytes \in Nat

VARIABLES
  class,      \* "bytes" or "string"
  mem,        \* per object: capacity, secret cells on the heap and in itself, size
  alive,      \* the objects constructed and not destroyed
  left,       \* the kinds of memory given back with a secret in them
  held        \* not in the code: secret bytes that each object is to hold

bufferVars == <<class, mem, alive, left, held>>

Wiped(c, n) == c \ 1 .. n
InObject(m) == class = "string" /\ m.used <= Local

\* Secret bytes that an object shows.
Visible(m) == Cardinality((IF InObject(m) THEN m.inside ELSE m.heap) \cap 1 .. m.used)

\* Not in the code, what became of the memory: shrunk says of the heap that
\* resize gave it a smaller size, and husk of the object that a string of at
\* least two bytes was moved out of its own cells.
Empty ==
  [capacity |-> 0, heap |-> {}, inside |-> {}, used |-> 0, shrunk |-> FALSE, husk |-> FALSE]

BufferInit ==
  /\ class \in {"bytes", "string"}
  /\ mem = [o \in Object |-> Empty] /\ held = [o \in Object |-> 0]
  /\ alive = {} /\ left = {}

-----------------------------------------------------------------------------
\* clear(): secure_zero of the size, not of the capacity, and shrink_to_fit;
\* nothing for an empty buffer.
Cleared(m) ==
  IF m.used = 0 THEN m
  ELSE IF InObject(m) THEN [m EXCEPT !.inside = Wiped(@, m.used), !.used = 0]
  ELSE [m EXCEPT !.capacity = 0, !.heap = {}, !.used = 0, !.shrunk = FALSE]
\* The secret cells of the heap that clear() gives back.
ReturnedUnwiped(m) == IF m.used > 0 /\ ~ InObject(m) THEN m.heap ELSE {}
Returned(m) == IF m.used > 0 /\ ~ InObject(m) THEN Wiped(m.heap, m.used) ELSE {}

\* The standard library's move: the source of one, and a target that is empty.
Moved(m) ==
  IF InObject(m) THEN [m EXCEPT !.used = 0, !.inside = @ \ {1}, !.husk = @ \/ m.used >= 2]
  ELSE [m EXCEPT !.used = 0, !.capacity = 0, !.heap = {}, !.shrunk = FALSE]
Into(t, m) ==
  IF InObject(m)
  THEN [t EXCEPT !.used = m.used, !.inside = (m.inside \cap 1 .. m.used) \cup Wiped(@, m.used)]
  ELSE [t EXCEPT !.used = m.used, !.capacity = m.capacity, !.heap = m.heap, !.shrunk = m.shrunk]

\* The kind of the memory that is given back with a secret in these cells.
Given(kind, cells) == IF cells = {} THEN {} ELSE {kind}
HeapKind(m)  == IF m.shrunk THEN "resized" ELSE "heap"
OwnKind(m)   == IF m.husk THEN "husk" ELSE "object"

\* From a std::vector or a std::string, which the caller gives up by value, and
\* whose own destructor wipes nothing.
Own(o, n) ==
  LET m == IF class = "string" /\ n <= Local
           THEN [Empty EXCEPT !.used = n, !.inside = 1 .. n]
           ELSE [Empty EXCEPT !.used = n, !.capacity = n, !.heap = 1 .. n]
  IN  /\ o \notin alive
      /\ alive' = alive \cup {o}
      /\ mem' = [mem EXCEPT ![o] = Into(Empty, m)]
      /\ left' = left \cup Given(OwnKind(Moved(m)), Moved(m).inside)
      /\ held' = [held EXCEPT ![o] = n]
      /\ UNCHANGED class

MoveConstruct(o, p) ==
  /\ o \notin alive /\ p \in alive
  /\ alive' = alive \cup {o}
  /\ mem' = [mem EXCEPT ![o] = Into(Empty, mem[p]), ![p] = Cleared(Moved(mem[p]))]
  /\ held' = [held EXCEPT ![o] = held[p], ![p] = 0]
  /\ UNCHANGED <<class, left>>

\* operator=: nothing for a buffer that is moved to itself.
SameNever(o, p) == FALSE
Same(o, p) == o = p
MoveAssign(o, p) ==
  /\ {o, p} \subseteq alive
  /\ IF Same(o, p) THEN UNCHANGED <<mem, left>>
     ELSE LET t == Cleared(mem[o])
              m == IF o = p THEN t ELSE mem[p]
          IN  /\ left' = left \cup Given(HeapKind(mem[o]), Returned(mem[o]) \cup t.heap)
              /\ mem' = [mem EXCEPT ![o] = Into([t EXCEPT !.capacity = 0, !.heap = {},
                                                          !.shrunk = FALSE], m),
                                    ![p] = Cleared(Moved(m))]
  /\ held' = IF o = p THEN held ELSE [held EXCEPT ![o] = held[p], ![p] = 0]
  /\ UNCHANGED <<class, alive>>

ClearBuffer(o) ==
  /\ o \in alive
  /\ mem' = [mem EXCEPT ![o] = Cleared(@)]
  /\ left' = left \cup Given(HeapKind(mem[o]), Returned(mem[o]))
  /\ held' = [held EXCEPT ![o] = 0]
  /\ UNCHANGED <<class, alive>>

\* The destructor calls clear, and then the members' destructors run.
DestroyBuffer(o) ==
  LET m == Cleared(mem[o])
  IN  /\ o \in alive
      /\ alive' = alive \ {o}
      /\ left' = left \cup Given(HeapKind(mem[o]), Returned(mem[o]) \cup m.heap)
                      \cup Given(OwnKind(m), m.inside)
      /\ mem' = [mem EXCEPT ![o] = Empty]
      /\ held' = [held EXCEPT ![o] = 0]
      /\ UNCHANGED class

\* resize(), of SecureBytes: the vector's own reallocation wipes nothing.
ResizeBuffer(o, n) ==
  LET m == mem[o]
      fits == n <= m.capacity
  IN  /\ class = "bytes" /\ o \in alive
      /\ mem' = [mem EXCEPT ![o].capacity = IF fits THEN @ ELSE n,
                            ![o].heap = @ \ (m.used + 1 .. n), ![o].used = n,
                            ![o].shrunk = @ \/ n < m.used]
      /\ left' = left \cup Given("resized", IF fits THEN {} ELSE m.heap)
      /\ held' = [held EXCEPT ![o] = IF @ < n THEN @ ELSE n]
      /\ UNCHANGED <<class, alive>>

BufferNext ==
  \E o \in Object :
    \/ \E n \in 0 .. MaxBytes : Own(o, n) \/ ResizeBuffer(o, n)
    \/ \E p \in Object : MoveConstruct(o, p) \/ MoveAssign(o, p)
    \/ ClearBuffer(o) \/ DestroyBuffer(o)

BufferSpec == BufferInit /\ [][BufferNext]_bufferVars

-----------------------------------------------------------------------------
\* Memory is given back without a byte of a secret in it, for secrets of every
\* length and whatever was moved, assigned, cleared and destroyed in whatever
\* order, but for two kinds of memory, each told by its own history.  Of
\* SecureBytes: the heap that resize itself gives back when it reallocates, or that
\* resize had made smaller.  Of SecureString: the own cells of an object, or of the
\* constructor's argument, out of which a string of 2 to Local bytes was moved; so
\* a longer one is wiped everywhere, and a short one in the object that holds it.
NothingLeft == left \subseteq (IF class = "bytes" THEN {"resized"} ELSE {"husk"})

\* A secret is neither lost nor doubled by a move, one to itself included: each
\* object shows the bytes it is to hold.
OneOwner == \A o \in Object : Visible(mem[o]) = held[o]
=============================================================================
