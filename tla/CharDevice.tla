----------------------------- MODULE CharDevice -----------------------------
(***************************************************************************)
(* The device file and the proc file of Misc/DD/simpleDriver.c, used by    *)
(* processes that do what test_app.c does (open, any number of writes and  *)
(* reads, close) and by processes that read the proc file to its end.      *)
(* Every open allocates a block and puts it into the one kernel_buffer;    *)
(* every release frees what is there.  A step is one access to             *)
(* kernel_buffer, to len or to a block.  A block freed twice or used after *)
(* it was freed stops the kernel (fault).                                  *)
(***************************************************************************)
EXTENDS Integers, FiniteSets

CONSTANTS
  Clients, Cats,     \* processes that use the device file and the proc file
  Blocks, Null,      \* what kmalloc returns
  Data, Junk         \* what is written, and what a fresh block holds

VARIABLES
  buffer,        \* kernel_buffer
  live,          \* blocks allocated and not freed
  content,       \* of every block
  init,          \* how far hwm_init is
  pc, ptr,       \* of every client, and its copy of kernel_buffer
  mine,          \* what the client wrote last since it opened the file
  shared,        \* whether the file was ever used by two at a time
  failed,        \* whether a kmalloc failed
  fault,
  len, cat, found   \* the flag of the proc file; its readers and their finds

file == <<buffer, live, content, init, pc, ptr, mine, shared, failed, fault>>
proc == <<len, cat, found>>
vars == <<file, proc>>

Init ==
  /\ buffer = Null /\ live = {} /\ content = [b \in Blocks |-> Junk]
  /\ init = "created" /\ shared = FALSE /\ failed = FALSE /\ fault = "none"
  /\ pc = [c \in Clients |-> "closed"] /\ ptr = [c \in Clients |-> Null]
  /\ mine = [c \in Clients |-> Junk]
  /\ len = 1 /\ cat = [c \in Cats |-> "read"] /\ found = [c \in Cats |-> 0]

-----------------------------------------------------------------------------
Move(c, from, to) == fault = "none" /\ pc[c] = from /\ pc' = [pc EXCEPT ![c] = to]
Drop(c) == ptr' = [ptr EXCEPT ![c] = Null]
Using == {c \in Clients : pc[c] # "closed"}

(* kmalloc, which may fail and does not clear the block. *)
OpenAlloc(c) ==
  /\ Move(c, "closed", "store")
  /\ \/ \E b \in Blocks \ live :
          ptr' = [ptr EXCEPT ![c] = b] /\ live' = live \cup {b}
          /\ UNCHANGED failed
     \/ failed' = TRUE /\ UNCHANGED <<ptr, live>>
  /\ shared' = (shared \/ Using # {} \/ init = "created")
  /\ UNCHANGED <<buffer, content, init, mine, fault, proc>>

OpenStore(c) ==
  /\ Move(c, "store", IF ptr[c] = Null THEN "closed" ELSE "open")
  /\ buffer' = ptr[c] /\ Drop(c)
  /\ UNCHANGED <<live, content, init, mine, shared, failed, fault, proc>>

Load(c, label) ==
  /\ Move(c, "open", label) /\ ptr' = [ptr EXCEPT ![c] = buffer]
  /\ UNCHANGED <<buffer, live, content, init, mine, shared, failed, fault, proc>>

(* copy_to_user and copy_from_user fail on NULL. *)
Read(c) ==
  /\ Move(c, "read", "open")
  /\ IF ptr[c] \in live \cup {Null} THEN UNCHANGED fault ELSE fault' = "freed"
  /\ Drop(c) /\ UNCHANGED <<buffer, live, content, init, mine, shared, failed, proc>>

Write(c) ==
  /\ Move(c, "write", "open")
  /\ IF ptr[c] \in live \cup {Null} THEN UNCHANGED fault ELSE fault' = "freed"
  /\ \E d \in Data :
       /\ content' = (IF ptr[c] \in live THEN [content EXCEPT ![ptr[c]] = d] ELSE content)
       /\ mine' = [mine EXCEPT ![c] = d]
  /\ Drop(c) /\ UNCHANGED <<buffer, live, init, shared, failed, proc>>

(* Nothing is known of the contents of a block when kmalloc returns it. *)
Cleared(b) == [x \in Blocks |-> IF x = b THEN Junk ELSE content[x]]

(* Mutant: the block is not freed. *)
Free_Keeps(c) ==
  /\ Move(c, "free", "closed")
  /\ mine' = [mine EXCEPT ![c] = Junk] /\ Drop(c)
  /\ UNCHANGED <<buffer, live, content, init, shared, failed, fault, proc>>

(* kfree of NULL does nothing; kernel_buffer keeps its value. *)
Free(c) ==
  /\ Move(c, "free", "closed")
  /\ IF ptr[c] \in live \cup {Null} THEN UNCHANGED fault ELSE fault' = "double free"
  /\ live' = live \ {ptr[c]} /\ content' = Cleared(ptr[c])
  /\ mine' = [mine EXCEPT ![c] = Junk] /\ Drop(c)
  /\ UNCHANGED <<buffer, init, shared, failed, proc>>

(* hwm_init copies its greeting into the buffer of whoever opened the file
   since cdev_add, and dies if nobody did; the file stays. *)
Greet ==
  /\ fault = "none" /\ init = "created"
  /\ init' = (IF buffer = Null THEN "oops" ELSE "loaded")
  /\ IF buffer \in live \cup {Null} THEN UNCHANGED fault ELSE fault' = "freed"
  /\ content' = (IF buffer \in live THEN [content EXCEPT ![buffer] = Junk] ELSE content)
  /\ UNCHANGED <<buffer, live, pc, ptr, mine, shared, failed, proc>>

-----------------------------------------------------------------------------
(* read_proc: len is tested, and then set. *)
TestLen(c) ==
  /\ cat[c] = "read"
  /\ cat' = [cat EXCEPT ![c] = IF len = 1 THEN "data" ELSE "end"]
  /\ UNCHANGED <<file, len, found>>

GetData(c) ==
  /\ cat[c] = "data"
  /\ len' = 0 /\ cat' = [cat EXCEPT ![c] = "read"] /\ found' = [found EXCEPT ![c] = @ + 1]
  /\ UNCHANGED file

GetEnd(c) ==
  /\ cat[c] = "end"
  /\ len' = 1 /\ cat' = [cat EXCEPT ![c] = "done"]
  /\ UNCHANGED <<file, found>>

Client(c) ==
  \/ OpenAlloc(c) \/ OpenStore(c) \/ (\E label \in {"read", "write", "free"} : Load(c, label))
  \/ Read(c) \/ Write(c) \/ Free(c)
Cat(c) == TestLen(c) \/ GetData(c) \/ GetEnd(c)
DeviceFile == Greet \/ \E c \in Clients : Client(c)
ProcFile == \E c \in Cats : Cat(c)

-----------------------------------------------------------------------------
(* Type invariant. *)
TypeOK ==
  /\ buffer \in Blocks \cup {Null} /\ live \subseteq Blocks
  /\ content \in [Blocks -> Data \cup {Junk}] /\ init \in {"created", "loaded", "oops"}
  /\ pc \in [Clients -> {"closed", "store", "open", "read", "write", "free"}]
  /\ ptr \in [Clients -> Blocks \cup {Null}]
  /\ mine \in [Clients -> Data \cup {Junk}]
  /\ shared \in BOOLEAN /\ failed \in BOOLEAN /\ fault \in {"none", "freed", "double free"}
  /\ len \in {0, 1} /\ cat \in [Cats -> {"read", "data", "end", "done"}] /\ found \in [Cats -> Nat]

(* As long as one process at a time has the file open, and none during the
   insmod, no block is freed twice, used after it was freed or lost, through
   any number of opens and failed allocations. *)
AloneIsSafe ==
  ~shared => fault = "none" /\ Cardinality(live) = Cardinality({c \in Using : pc[c] # "store" \/ ptr[c] # Null})

(* With several, a block can be lost only together with a block that will be
   freed twice: until then there is one live block for every open file,
   unless a failed kmalloc overwrote kernel_buffer. *)
OneBlockEach ==
  fault = "none" /\ ~failed => Cardinality(live) = Cardinality(Using)

(* A process that has the file for itself reads what it wrote last, or what
   kmalloc found in the block. *)
ReadsOwn ==
  ~shared => \A c \in Clients : pc[c] = "read" => content[ptr[c]] = mine[c]

(* The readers of the proc file share one flag: one of them may find the file
   empty, and each finds its contents at most once more for every other that
   came to the end.  One of them finds them, and the next one will again. *)
CatsShare ==
  LET done == {c \in Cats : cat[c] = "done"}
  IN /\ \A c \in Cats : found[c] <= 1 + Cardinality(done \ {c})
     /\ done = Cats => len = 1 /\ \E c \in Cats : found[c] > 0

(* What the users of the device file and of the proc file can rely on. *)
CharSafe == TypeOK /\ AloneIsSafe /\ OneBlockEach /\ ReadsOwn /\ CatsShare

(* Every reader of the proc file comes to its end. *)
CatsEnd == <>(\A c \in Cats : cat[c] = "done")
=============================================================================
