------------------------------- MODULE Pipes -------------------------------
(***************************************************************************)
(* Parents, children and the pipes between them.  Server is                *)
(* Misc/Local/IPC/client-server.c: a parent forks its children one after   *)
(* the other, writes to the pipe of each and waits for all; a child        *)
(* inherits the write ends of the pipes of its elder siblings.  Copy is    *)
(* Misc/CFILE/s2.c: a child waits in select before it closes its own write *)
(* end, and copies what its parent writes.  A step is a system call; a     *)
(* read returns data, or the end once no process holds the write end.      *)
(***************************************************************************)
EXTENDS Naturals, FiniteSets

CONSTANTS
  Clients,   \* CLIENTS
  MaxText    \* bound: the length of the string of s2.c, which fits into a pipe

Children == 1..Clients
Parent == 0

VARIABLES
  server,    \* where the parent of client-server.c is
  turn,      \* its loop counter
  child,     \* where each child is
  writers,   \* the processes that hold the write end of each pipe
  written,   \* whether the message is in the pipe, or was
  got,       \* what each child read
  text,      \* the length of the string of s2.c
  parent, copier,   \* where the two processes of s2.c are
  ends,      \* the processes of s2.c that hold the write end
  sent, copied      \* the bytes written to the pipe and taken from it

serverVars == <<server, turn, child, writers, written, got>>
copyVars == <<text, parent, copier, ends, sent, copied>>
vars == <<serverVars, copyVars>>

ServerInit ==
  /\ server = "pipe" /\ turn = 1
  /\ child = [c \in Children |-> "none"]
  /\ writers = [c \in Children |-> {}] /\ written = [c \in Children |-> FALSE]
  /\ got = [c \in Children |-> "nothing"]

CopyInit ==
  /\ text \in 0..MaxText
  /\ parent = "fork" /\ copier = "none" /\ ends = {} /\ sent = 0 /\ copied = 0

Init == ServerInit /\ CopyInit

-----------------------------------------------------------------------------
(* The descriptors of a process are closed when it ends. *)
Without(p) == [c \in Children |-> writers[c] \ {p}]
NextTurn(loop, after) ==
  IF turn < Clients THEN server' = loop /\ turn' = turn + 1 ELSE server' = after /\ turn' = 1

Pipe ==
  /\ server = "pipe"
  /\ \/ server' = "fork" /\ writers' = [writers EXCEPT ![turn] = {Parent}]
     \/ server' = "exited" /\ writers' = Without(Parent)
  /\ UNCHANGED <<turn, child, written, got, copyVars>>

(* A fork that fails is taken for a child: the parent goes on. *)
Fork ==
  /\ server = "fork"
  /\ \/ /\ child' = [child EXCEPT ![turn] = "close"]
        /\ writers' = [c \in Children |->
                         IF Parent \in writers[c] THEN writers[c] \cup {turn} ELSE writers[c]]
     \/ UNCHANGED <<child, writers>>
  /\ NextTurn("pipe", "write")
  /\ UNCHANGED <<written, got, copyVars>>

(* A pipe that nobody can read kills the parent. *)
Write ==
  /\ server = "write"
  /\ IF child[turn] = "none"
     THEN server' = "killed" /\ writers' = Without(Parent) /\ UNCHANGED written
     ELSE server' = "close" /\ written' = [written EXCEPT ![turn] = TRUE] /\ UNCHANGED writers
  /\ UNCHANGED <<turn, child, got, copyVars>>

Close ==
  /\ server = "close"
  /\ writers' = [writers EXCEPT ![turn] = @ \ {Parent}]
  /\ NextTurn("write", "wait")
  /\ UNCHANGED <<child, written, got, copyVars>>

(* wait reaps an ended child, or fails if there is none. *)
Await ==
  /\ server = "wait"
  /\ \/ \E c \in Children : child[c] = "exited" /\ child' = [child EXCEPT ![c] = "reaped"]
     \/ (\A c \in Children : child[c] \in {"none", "reaped"}) /\ UNCHANGED child
  /\ NextTurn("wait", "exited")
  /\ UNCHANGED <<writers, written, got, copyVars>>

(* Mutant: the child does not close its own write end. *)
ChildClose_Keeps(c) ==
  /\ child[c] = "close" /\ child' = [child EXCEPT ![c] = "read"]
  /\ UNCHANGED <<server, turn, writers, written, got, copyVars>>

ChildClose(c) ==
  /\ child[c] = "close" /\ child' = [child EXCEPT ![c] = "read"]
  /\ writers' = [writers EXCEPT ![c] = @ \ {c}]
  /\ UNCHANGED <<server, turn, written, got, copyVars>>

ChildRead(c) ==
  /\ child[c] = "read"
  /\ \/ written[c] /\ got' = [got EXCEPT ![c] = "message"]
     \/ ~written[c] /\ writers[c] = {} /\ got' = [got EXCEPT ![c] = "end"]
  /\ child' = [child EXCEPT ![c] = "exited"] /\ writers' = Without(c)
  /\ UNCHANGED <<server, turn, written, copyVars>>

ServerStep == Pipe \/ Fork \/ Write \/ Close \/ Await
ChildStep(c) == ChildClose(c) \/ ChildRead(c)
Server == ServerStep \/ \E c \in Children : ChildStep(c)

-----------------------------------------------------------------------------
CopyFork ==
  /\ parent = "fork"
  /\ \/ parent' = "write" /\ copier' = "select" /\ ends' = {"parent", "copier"}
     \/ parent' = "exited" /\ UNCHANGED <<copier, ends>>
  /\ UNCHANGED <<text, sent, copied, serverVars>>

CopyWrite ==
  /\ parent = "write" /\ parent' = "close" /\ sent' = text
  /\ UNCHANGED <<text, copier, ends, copied, serverVars>>

CopyClose ==
  /\ parent = "close" /\ parent' = "wait" /\ ends' = ends \ {"parent"}
  /\ UNCHANGED <<text, copier, sent, copied, serverVars>>

CopyAwait ==
  /\ parent = "wait" /\ copier = "exited" /\ parent' = "exited"
  /\ UNCHANGED <<text, copier, ends, sent, copied, serverVars>>

Readable == copied < sent \/ ends = {}

(* The child still holds a write end itself: only data can wake it. *)
CopySelect ==
  /\ copier = "select" /\ Readable /\ copier' = "close"
  /\ UNCHANGED <<text, parent, ends, sent, copied, serverVars>>

CopierClose ==
  /\ copier = "close" /\ copier' = "read" /\ ends' = ends \ {"copier"}
  /\ UNCHANGED <<text, parent, sent, copied, serverVars>>

(* One byte at a time, until the end. *)
CopyRead ==
  /\ copier = "read" /\ Readable
  /\ IF copied < sent THEN copied' = copied + 1 /\ UNCHANGED copier
                      ELSE copier' = "exited" /\ UNCHANGED copied
  /\ UNCHANGED <<text, parent, ends, sent, serverVars>>

CopyParent == CopyFork \/ CopyWrite \/ CopyClose \/ CopyAwait
Copier == CopySelect \/ CopierClose \/ CopyRead
Copy == CopyParent \/ Copier

Next == Server \/ Copy

Fairness ==
  /\ WF_vars(ServerStep) /\ (\A c \in Children : WF_vars(ChildStep(c)))
  /\ WF_vars(CopyParent) /\ WF_vars(Copier)

Spec == Init /\ [][Next]_vars /\ Fairness

-----------------------------------------------------------------------------
(* Type invariant. *)
TypeOK ==
  /\ server \in {"pipe", "fork", "write", "close", "wait", "exited", "killed"}
  /\ turn \in Children
  /\ child \in [Children -> {"none", "close", "read", "exited", "reaped"}]
  /\ writers \in [Children -> SUBSET (Children \cup {Parent})]
  /\ written \in [Children -> BOOLEAN] /\ got \in [Children -> {"nothing", "message", "end"}]
  /\ text \in 0..MaxText /\ sent \in {0, text} /\ copied \in 0..text
  /\ parent \in {"fork", "write", "close", "wait", "exited"}
  /\ copier \in {"none", "select", "close", "read", "exited"}
  /\ ends \subseteq {"parent", "copier"}

(* A child of the server misses its message only if the server is gone before it
   wrote it; a server that comes to its end leaves no child behind, and has sent
   every child its message. *)
EveryChildServed ==
  /\ \A c \in Children : got[c] = "end" => server \in {"exited", "killed"} /\ ~written[c]
  /\ server = "exited" /\ written[Clients] =>
       \A c \in Children : child[c] = "reaped" /\ got[c] = "message"

(* A write end that the server does not hold any more is held by younger siblings
   of its reader at most, and by the reader until it closes its own: the youngest
   child of a server that is gone can end, and so the next, and so all. *)
OnlyYoungerHold ==
  \A c \in Children : \A w \in writers[c] \ {Parent} :
    w > c \/ (w = c /\ child[c] = "close")

(* The child of s2.c copies what its parent wrote, and waits for ever if that is
   nothing. *)
CopyExact ==
  /\ copier = "exited" => copied = text
  /\ text = 0 => copier \in {"none", "select"}

PipesSafe == TypeOK /\ EveryChildServed /\ OnlyYoungerHold /\ CopyExact

(* The server and its children end, whatever fails. *)
ServerEnds ==
  <>(/\ server \in {"exited", "killed"}
     /\ \A c \in Children : child[c] \in {"none", "exited", "reaped"})

(* The processes of s2.c end unless the string is empty. *)
CopyEnds == <>(parent = "exited" \/ text = 0)
=============================================================================
