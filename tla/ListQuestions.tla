--------------------------- MODULE ListQuestions ---------------------------
(***************************************************************************)
(* The linked-list programs of C-Programming-Questions/Linked_List.  Each  *)
(* builds its list or lists from an array (createlist) and runs one        *)
(* function over them; here the program and its arrays are chosen by Init, *)
(* an action is one iteration of the function's loop, and the heap is the  *)
(* data and the next pointer of every node.  Node 0 is NULL: following it  *)
(* ends the program in "crashed".  A list that a function copies node by   *)
(* node into fresh nodes is the sequence out.  Three programs allocate one *)
(* node too many and leave its data to malloc: arg stands for it.  In two  *)
(* the list that is printed at the end has a last node whose pointer is    *)
(* never set: loose is what malloc left there, NULL or a wild pointer.     *)
(***************************************************************************)
EXTENDS Integers, Sequences, FiniteSets, SequencesExt, FiniteSetsExt

CONSTANTS
  Values,    \* the numbers in the arrays
  MaxLen,    \* the longest array
  Args,      \* the second argument of a function, or the garbage of a node
  UIntSize   \* the number of values of an unsigned int

ASSUME ValuesAssumption == Values \subseteq 0..9 /\ {0, 1} \subseteq Values
ASSUME LengthAssumption == MaxLen \in Nat
ASSUME UIntAssumption == UIntSize \in Nat \ {0} /\ UIntSize % 2 = 0
ASSUME ArgsAssumption == Args \subseteq 0..(UIntSize - 1)

VARIABLES
  prog, list1, list2, arg,   \* the program and its input
  loose,                     \* the pointer that nothing sets
  data, next, head, freed,   \* the heap: the nodes, the list, what free took
  p, q, i, acc, out,         \* the variables of the functions
  pc                         \* the loop that runs

input == <<prog, list1, list2, arg, loose>>
heap == <<data, next, head, freed>>
vars == <<input, heap, p, q, i, acc, out, pc>>

TwoLists == {"addlist", "compare", "getintersection", "mergelist"}
WithArg == {"findnode", "remove_node", "partition"}
ExtraNode == {"deepcopy", "binary", "visited"}
OpenEnded == {"addlist", "deepcopy"}
Programs == TwoLists \cup WithArg \cup ExtraNode \cup
  {"getlength", "findmid", "ispalindrome", "reverse", "movelast", "deletenode", "swap_two", "seg"}

Lists == SeqOf(Values, MaxLen)
Undefined == <<-1>>     \* the function ends without a return
Wild == -1              \* a pointer to no node, and not NULL
SumDigits == 4          \* bound: with more of them the sum of addlist overflows an int
Head1 == IF data = <<>> \/ (list1 = <<>> /\ prog \notin ExtraNode) THEN 0 ELSE 1
Head2 == IF list2 = <<>> THEN 0 ELSE Len(list1) + 1

(* createlist: node k + 1 behind node k.  The programs with an extra node
   build their list in main; the one of Detect_And_Remove_Loop, whose data
   here is the field visited, ends in a node that points to itself. *)
Init ==
  /\ prog \in Programs /\ list1 \in Lists
  /\ list2 \in (IF prog \in TwoLists THEN Lists ELSE {<<>>})
  /\ arg \in (IF prog \in WithArg \cup ExtraNode THEN Args ELSE {0})
  /\ loose \in (IF prog \in OpenEnded THEN {0, Wild} ELSE {0})
  /\ prog = "binary" => list1 \in Seq({0, 1})
  /\ prog = "addlist" => Len(list1) <= SumDigits /\ Len(list2) <= SumDigits
  /\ data = CASE prog = "visited" -> Append([k \in DOMAIN list1 |-> 0], arg)
              [] prog \in ExtraNode \ {"visited"} -> Append(list1, arg)
              [] OTHER -> list1 \o list2
  /\ next = [k \in DOMAIN data |->
               CASE k = Len(data) -> IF prog = "visited" THEN k ELSE 0
                 [] k = Len(list1) /\ prog \in TwoLists -> 0
                 [] OTHER -> k + 1]
  /\ head = Head1 /\ p = Head1
  /\ q = IF prog \in TwoLists THEN Head2 ELSE Head1
  /\ freed = {} /\ i = (IF prog = "addlist" THEN 1 ELSE 0) /\ acc = 0 /\ out = <<>>
  /\ pc = IF prog \in {"swap_two", "remove_node", "reverse", "movelast"} THEN "start" ELSE "run"

-----------------------------------------------------------------------------
At(program, label) == prog = program /\ pc = label

Walk(pp, qq) == p' = pp /\ q' = qq /\ UNCHANGED <<input, heap, i, acc, out, pc>>
Go(label) == pc' = label /\ UNCHANGED <<input, heap, p, q, i, acc, out>>
Crash == Go("crashed")
ReturnList == Go("done")                \* the function returns head
Return(r) == pc' = "done" /\ out' = r /\ UNCHANGED <<input, heap, p, q, i, acc>>

GetLength ==
  /\ At("getlength", "run")
  /\ IF p # 0 THEN /\ acc' = acc + 1 /\ p' = next[p]
                   /\ UNCHANGED <<input, heap, q, i, out, pc>>
              ELSE Return(<<acc>>)

FindMid ==
  /\ At("findmid", "run")
  /\ CASE q # 0 /\ next[q] # 0 -> Walk(next[p], next[next[q]])
       [] ~(q # 0 /\ next[q] # 0) /\ p # 0 -> Return(<<data[p]>>)
       [] OTHER -> Crash

(* Mutant: the leading pointer goes one node too far. *)
FindNode_TooFar ==
  \/ /\ At("findnode", "run")
     /\ CASE i <= arg /\ q # 0 -> /\ q' = next[q] /\ i' = i + 1
                                  /\ UNCHANGED <<input, heap, p, acc, out, pc>>
          [] i <= arg /\ q = 0 -> Crash
          [] OTHER -> Go("both")
  \/ /\ At("findnode", "both")
     /\ CASE q # 0 -> Walk(next[p], next[q])
          [] q = 0 /\ p # 0 -> Return(<<data[p]>>)
          [] OTHER -> Crash

FindNode ==
  \/ /\ At("findnode", "run")
     /\ CASE i < arg /\ q # 0 -> /\ q' = next[q] /\ i' = i + 1
                                 /\ UNCHANGED <<input, heap, p, acc, out, pc>>
          [] i < arg /\ q = 0 -> Crash
          [] OTHER -> Go("both")
  \/ /\ At("findnode", "both")
     /\ CASE q # 0 -> Walk(next[p], next[q])
          [] q = 0 /\ p # 0 -> Return(<<data[p]>>)
          [] OTHER -> Crash

GetIntersection ==
  /\ At("getintersection", "run")
  /\ CASE ~(p # 0 /\ q # 0) -> Return(Undefined)
       [] p # 0 /\ q # 0 /\ data[p] = data[q] -> Return(<<data[p]>>)
       [] OTHER -> Walk(next[p], next[q])

Compare ==
  /\ At("compare", "run")
  /\ CASE ~(p # 0 /\ q # 0) -> Return(<<1>>)
       [] p # 0 /\ q # 0 /\ data[p] # data[q] -> Return(<<0>>)
       [] OTHER -> Walk(next[p], next[q])

(* The second half is copied in reverse and compared with the first. *)
IsPalindrome ==
  \/ /\ At("ispalindrome", "run")
     /\ IF q # 0 /\ next[q] # 0 THEN Walk(next[p], next[next[q]]) ELSE Go("copy")
  \/ /\ At("ispalindrome", "copy")
     /\ IF p # 0 THEN /\ out' = <<data[p]>> \o out /\ p' = next[p]
                      /\ UNCHANGED <<input, heap, q, i, acc, pc>>
                 ELSE /\ p' = head /\ pc' = "compare"
                      /\ UNCHANGED <<input, heap, q, i, acc, out>>
  \/ /\ At("ispalindrome", "compare")
     /\ CASE out = <<>> -> Return(<<1>>)
          [] out # <<>> /\ data[p] # Head(out) -> Return(<<0>>)
          [] OTHER -> /\ p' = next[p] /\ out' = Tail(out)
                      /\ UNCHANGED <<input, heap, q, i, acc, pc>>

-----------------------------------------------------------------------------
(* The nodes that the function frees are deleted with free(temp) commented out. *)
DeleteNode ==
  /\ At("deletenode", "run")
  /\ IF p # 0 /\ next[p] # 0
     THEN /\ next' = [next EXCEPT ![p] = next[next[p]]] /\ p' = next'[p]
          /\ UNCHANGED <<input, data, head, freed, q, i, acc, out, pc>>
     ELSE ReturnList

(* q = p->ptr, of NULL for an empty list. *)
Second(label) ==
  IF head = 0 THEN Crash
  ELSE /\ q' = next[head] /\ pc' = label
       /\ UNCHANGED <<input, heap, p, i, acc, out>>

(* Reverse_Linked_List and Reverse_Linked_List_No_Recursion have one function. *)
ReverseStart == At("reverse", "start") /\ Second("run")

(* Mutant: the old head keeps its pointer to the second node. *)
ReverseLoop_OpenHead ==
  /\ At("reverse", "run")
  /\ IF q # 0 THEN /\ next' = [next EXCEPT ![q] = p] /\ p' = q /\ q' = next[q]
                   /\ UNCHANGED <<input, data, head, freed, i, acc, out, pc>>
              ELSE /\ head' = p /\ pc' = "done"
                   /\ UNCHANGED <<input, data, next, freed, p, q, i, acc, out>>

ReverseLoop ==
  /\ At("reverse", "run")
  /\ IF q # 0 THEN /\ next' = [next EXCEPT ![q] = p] /\ p' = q /\ q' = next[q]
                   /\ UNCHANGED <<input, data, head, freed, i, acc, out, pc>>
              ELSE /\ next' = [next EXCEPT ![head] = 0] /\ head' = p /\ pc' = "done"
                   /\ UNCHANGED <<input, data, freed, p, q, i, acc, out>>

MoveLast ==
  \/ /\ At("movelast", "start")
     /\ CASE head = 0 -> Crash
          [] head # 0 /\ next[head] = 0 -> ReturnList
          [] OTHER -> Go("run")
  \/ /\ At("movelast", "run")
     /\ IF next[next[p]] # 0 THEN Walk(next[p], q)
        ELSE /\ head' = next[p] /\ next' = [next EXCEPT ![p] = 0, ![next[p]] = head]
             /\ pc' = "done" /\ UNCHANGED <<input, data, freed, p, q, i, acc, out>>

SwapTwo ==
  \/ At("swap_two", "start") /\ Second("run")
  \/ /\ At("swap_two", "run")
     /\ IF q = 0 THEN Crash
        ELSE /\ data' = [data EXCEPT ![p] = data[q], ![q] = data[p]]
             /\ IF next[q] = 0 THEN pc' = "done" /\ UNCHANGED <<p, q>>
                ELSE p' = next[next[p]] /\ q' = next[next[q]] /\ UNCHANGED pc
             /\ UNCHANGED <<input, next, head, freed, i, acc, out>>

(* The head is tested once, so that a second match behind it stays. *)
RemoveNode ==
  \/ /\ At("remove_node", "start")
     /\ IF head # 0 /\ data[head] = arg
        THEN /\ freed' = {head} /\ head' = next[head] /\ p' = head'
             /\ IF head' = 0 THEN pc' = "crashed" /\ q' = 0
                ELSE pc' = "run" /\ q' = next[head']
             /\ UNCHANGED <<input, data, next, i, acc, out>>
        ELSE Second("run")
  \/ /\ At("remove_node", "run")
     /\ CASE q = 0 -> ReturnList
          [] q # 0 /\ data[q] = arg ->
               /\ next' = [next EXCEPT ![p] = next[q]] /\ freed' = freed \cup {q}
               /\ q' = next[q] /\ UNCHANGED <<input, data, head, p, i, acc, out, pc>>
          [] OTHER -> Walk(next[p], next[q])

(* p looks for an even number, q for an odd one; what they find changes places. *)
Seg ==
  /\ At("seg", "run")
  /\ CASE p # 0 /\ data[p] % 2 # 0 -> Walk(next[p], q)
       [] ~(p # 0 /\ data[p] % 2 # 0) /\ q # 0 /\ data[q] % 2 = 0 -> Walk(p, next[q])
       [] p # 0 /\ data[p] % 2 = 0 /\ q # 0 /\ data[q] % 2 # 0 ->
            /\ data' = [data EXCEPT ![p] = data[q], ![q] = data[p]]
            /\ p' = next[p] /\ q' = next[q]
            /\ UNCHANGED <<input, next, head, freed, i, acc, out, pc>>
       [] OTHER -> ReturnList

-----------------------------------------------------------------------------
MergeList ==
  /\ At("mergelist", "run")
  /\ CASE i = Len(list1) -> ReturnList
       [] i < Len(list1) /\ q = 0 -> Crash
       [] OTHER -> /\ out' = out \o (IF data[p] < data[q] THEN <<data[p], data[q]>>
                                                          ELSE <<data[q], data[p]>>)
                   /\ p' = next[p] /\ q' = next[q] /\ i' = i + 1
                   /\ UNCHANGED <<input, heap, acc, pc>>

(* out is the list of the smaller numbers, i long, and then the other one. *)
Partition ==
  /\ At("partition", "run")
  /\ IF p = 0 THEN ReturnList
     ELSE /\ \/ data[p] >= arg /\ out' = Append(out, data[p]) /\ UNCHANGED i
             \/ data[p] < arg /\ out' = InsertAt(out, i + 1, data[p]) /\ i' = i + 1
          /\ p' = next[p] /\ UNCHANGED <<input, heap, q, acc, pc>>

(* addlist of both lists: the sum is multiplied by 1, 10, 100... in turn; then
   the digits of the total are put one before the other by fin_list. *)
AddList ==
  \/ /\ At("addlist", "run") /\ p # 0
     /\ acc' = acc * i + data[p] /\ i' = i * 10 /\ p' = next[p]
     /\ UNCHANGED <<input, heap, q, out, pc>>
  \/ /\ At("addlist", "run") /\ p = 0
     /\ out' = <<acc>> /\ acc' = 0 /\ i' = 1 /\ p' = q /\ pc' = "second"
     /\ UNCHANGED <<input, heap, q>>
  \/ /\ At("addlist", "second") /\ p # 0
     /\ acc' = acc * i + data[p] /\ i' = i * 10 /\ p' = next[p]
     /\ UNCHANGED <<input, heap, q, out, pc>>
  \/ /\ At("addlist", "second") /\ p = 0
     /\ acc' = out[1] + acc /\ out' = <<>> /\ pc' = "digits"
     /\ UNCHANGED <<input, heap, p, q, i>>

(* The list is printed as far as its last node, and on from there. *)
EndOfPrint == IF loose = 0 THEN "done" ELSE "crashed"

(* The node of the last digit is the first that fin_list makes, and the only one
   whose ptr it does not set.  The sum 0 has no node. *)
FinList ==
  /\ At("addlist", "digits")
  /\ CASE acc > 0 -> /\ out' = <<acc % 10>> \o out /\ acc' = acc \div 10
                     /\ UNCHANGED <<input, heap, p, q, i, pc>>
       [] acc = 0 /\ out = <<>> -> ReturnList
       [] OTHER -> Go(EndOfPrint)

(* Each turn of the copy loop fills a node and makes the next one, so that the
   copy gets a node more, whose data and next nothing fills in. *)
DeepCopy ==
  /\ At("deepcopy", "run")
  /\ IF next[p] = 0
     THEN /\ out' = Append(out, arg) /\ pc' = EndOfPrint
          /\ UNCHANGED <<input, heap, p, q, i, acc>>
     ELSE /\ out' = Append(out, data[p]) /\ p' = next[p]
          /\ UNCHANGED <<input, heap, q, i, acc, pc>>

(* The | of C on two numbers that are not negative. *)
Or(a, b) ==
  LET or[x \in Nat \X Nat] ==
        IF x = <<0, 0>> THEN 0
        ELSE 2 * or[<<x[1] \div 2, x[2] \div 2>>] + (IF x[1] % 2 = 1 \/ x[2] % 2 = 1 THEN 1 ELSE 0)
  IN or[<<a, b>>]

(* The data of the extra node is read, too, and its lowest bit shifted out. *)
ConvertBinary ==
  /\ At("binary", "run")
  /\ IF p = 0 THEN Return(<<acc \div 2>>)
     ELSE /\ acc' = Or((2 * acc) % UIntSize, data[p]) /\ p' = next[p]
          /\ UNCHANGED <<input, heap, q, i, out, pc>>

(* Mutant: a node is not marked. *)
Visit_Unmarked ==
  /\ At("visited", "run")
  /\ IF data[p] = 1
     THEN /\ next' = [next EXCEPT ![p] = 0] /\ pc' = "done"
          /\ UNCHANGED <<input, data, head, freed, p, q, i, acc, out>>
     ELSE Walk(next[p], q)

(* Detect_And_Remove_Loop: the flag of the last node is not initialised. *)
Visit ==
  /\ At("visited", "run")
  /\ IF data[p] = 1
     THEN /\ next' = [next EXCEPT ![p] = 0] /\ pc' = "done"
          /\ UNCHANGED <<input, data, head, freed, p, q, i, acc, out>>
     ELSE /\ data' = [data EXCEPT ![p] = 1] /\ p' = next[p]
          /\ UNCHANGED <<input, next, head, freed, q, i, acc, out, pc>>

Next ==
  \/ GetLength \/ FindMid \/ FindNode \/ GetIntersection \/ Compare \/ IsPalindrome
  \/ DeleteNode \/ ReverseStart \/ ReverseLoop \/ MoveLast \/ SwapTwo \/ RemoveNode \/ Seg
  \/ MergeList \/ Partition \/ AddList \/ FinList \/ DeepCopy \/ ConvertBinary \/ Visit

(* A sequential program: it runs on as long as it can. *)
Fairness == WF_vars(Next)
Spec == Init /\ [][Next]_vars /\ Fairness

-----------------------------------------------------------------------------
(* The nodes from x on; a chain longer than the heap is a cycle, cut there. *)
NodesFrom(x) ==
  LET Chain[k \in 0..(Len(data) + 1)] ==
        IF k = 0 THEN <<>>
        ELSE LET c == Chain[k - 1]
                 y == IF c = <<>> THEN x ELSE next[Last(c)]
             IN IF y = 0 THEN c ELSE Append(c, y)
  IN Chain[Len(data) + 1]
Reach(x) == ToSet(NodesFrom(x))
List(x) == [k \in DOMAIN NodesFrom(x) |-> data[NodesFrom(x)[k]]]

(* Type invariant. *)
TypeOK ==
  /\ prog \in Programs /\ list1 \in Lists /\ list2 \in Lists /\ arg \in Args \cup {0} /\ loose \in {0, Wild}
  /\ Len(data) = Len(list1) + Len(list2) + (IF prog \in ExtraNode THEN 1 ELSE 0)
  /\ DOMAIN next = DOMAIN data /\ freed \subseteq DOMAIN data
  /\ {head, p, q} \cup {next[k] : k \in DOMAIN next} \subseteq 0..Len(data)
  /\ i \in Nat /\ acc \in Nat /\ out \in Seq(Int)
  /\ pc \in {"start", "run", "both", "copy", "compare", "second", "digits", "done", "crashed"}

(* What the two pointers of a function keep between them: the fast pointer is
   twice as far as the slow one, the pointer ahead of the n-th node is n nodes
   ahead, and the trailing pointer is right behind the leading one. *)
PointersInStep ==
  LET Place(x) == IF x = 0 THEN Len(list1) + 1 ELSE x
  IN /\ prog \in {"findmid", "ispalindrome"} /\ pc = "run" /\ q # 0 => q = 2 * p - 1
     /\ prog = "findnode" /\ pc = "both" /\ p # 0 => Place(q) - p = arg
     /\ prog \in {"remove_node", "swap_two"} /\ pc = "run" => next[p] = q
     /\ prog = "reverse" /\ pc = "run" /\ q # 0 => p = q - 1

(* No function loses a node or follows a freed one: at every step a node is in
   reach or was freed, except the alternate nodes of deletenode, which the code
   unlinks and does not free. *)
NothingLost ==
  LET reach == Reach(head) \cup Reach(p) \cup Reach(q) \cup Reach(Head2)
      Dropped(k) == prog = "deletenode" /\ k % 2 = 0
  IN /\ reach \cap freed = {}
     /\ \A k \in DOMAIN data \ (reach \cup freed) : Dropped(k)
     /\ pc = "done" =>
          \A k \in DOMAIN data \ (Reach(head) \cup Reach(Head2) \cup freed) : Dropped(k)

(* The inputs on which a program follows NULL: seven of them do for some, most
   for the empty list; swap_two needs an even number of elements (its main says
   so), mergelist as many in the second list as in the first.  The copy of
   deepcopy and the digits of every sum but 0 end in a pointer that was never
   set: whether their print ends is up to what malloc left there. *)
CrashesExactly ==
  LET bad == CASE prog \in {"findmid", "reverse", "movelast"} -> list1 = <<>>
               [] prog = "findnode" -> arg \notin 1..Len(list1)
               [] prog = "swap_two" -> list1 = <<>> \/ Len(list1) % 2 = 1
               [] prog = "remove_node" -> list1 = <<>> \/ list1 = <<arg>>
               [] prog = "mergelist" -> Len(list2) < Len(list1)
               [] prog = "addlist" -> loose # 0 /\ \E d \in ToSet(list1 \o list2) : d > 0
               [] prog = "deepcopy" -> loose # 0
               [] OTHER -> FALSE
  IN (pc = "crashed" => bad) /\ (pc = "done" => ~bad)

(* How far the pointers of a function go: their distance at every step, and the
   inputs that drive them past the end of a list. *)
StaysInList == PointersInStep /\ CrashesExactly

Odd(k) == k % 2 = 1
Number(s) == FoldLeft(LAMBDA v, d : 10 * v + d, 0, s)
Bits(s) == FoldLeft(LAMBDA v, b : 2 * v + b, 0, s)
Pick(s, T) ==     \* the elements whose indices are in T
  LET picked[k \in 0..Len(s)] ==
        IF k = 0 THEN <<>> ELSE IF k \in T THEN Append(picked[k - 1], s[k]) ELSE picked[k - 1]
  IN picked[Len(s)]
Sorted(s) == \A j, k \in DOMAIN s : j < k => s[j] <= s[k]
Count(s, x) == Cardinality({k \in DOMAIN s : s[k] = x})

(* What the heads of the programs promise, with what the code does otherwise:
   compare takes a prefix for equal, getintersection compares elements of the
   same index, remove_node never tests the element behind a removed head, the
   garbage of the extra node stays in the number but for its lowest bit, while
   the highest of an unsigned int falls out, deepcopy prints a node more, whose
   data was never set, addlist is right up to two digits,
   and mergelist interleaves pairs, which is sorted if every pair is below the
   next, and drops what is left of the second list. *)
MeansWhatItSays ==
  LET n == Len(list1)
      both == 1..(IF n < Len(list2) THEN n ELSE Len(list2))
      same == {k \in both : list1[k] = list2[k]}
      min(k) == IF list1[k] < list2[k] THEN list1[k] ELSE list2[k]
      max(k) == list1[k] + list2[k] - min(k)
      yes(b) == <<IF b THEN 1 ELSE 0>>
  IN pc = "done" \/ (pc = "crashed" /\ prog \in OpenEnded) =>
       CASE prog = "getlength" -> out = <<n>>
         [] prog = "findmid" -> out = <<list1[n \div 2 + 1]>>
         [] prog = "findnode" -> out = <<Reverse(list1)[arg]>>
         [] prog = "getintersection" ->
              out = IF same = {} THEN Undefined
                    ELSE <<list1[CHOOSE k \in same : \A j \in same : k <= j]>>
         [] prog = "compare" -> out = yes(IsPrefix(list1, list2) \/ IsPrefix(list2, list1))
         [] prog = "ispalindrome" -> out = yes(Reverse(list1) = list1)
         [] prog = "deletenode" -> List(head) = [k \in 1..((n + 1) \div 2) |-> list1[2 * k - 1]]
         [] prog = "reverse" -> List(head) = Reverse(list1)
         [] prog = "movelast" -> n > 0 => List(head) = <<Last(list1)>> \o Front(list1)
         [] prog = "swap_two" -> List(head) = [k \in 1..n |-> list1[IF Odd(k) THEN k + 1 ELSE k - 1]]
         [] prog = "remove_node" ->
              List(head) = Pick(list1, IF list1[1] # arg THEN {k \in 1..n : list1[k] # arg}
                                        ELSE {2} \cup {k \in 3..n : list1[k] # arg})
         [] prog = "seg" ->
              /\ \A x \in Values : Count(List(head), x) = Count(list1, x)
              /\ LET odd == {k \in 1..n : Odd(data[k])}
                 IN odd = {} \/ \E a, b \in 1..n : odd = a..b /\ (a = 1 \/ b = n)
         [] prog = "mergelist" ->
              /\ \A x \in Values : Count(out, x) = Count(list1 \o SubSeq(list2, 1, n), x)
              /\ Sorted(out) <=> \A k \in 1..(n - 1) : max(k) <= min(k + 1)
         [] prog = "partition" ->
              out = Pick(list1, {k \in 1..n : list1[k] < arg}) \o Pick(list1, {k \in 1..n : list1[k] >= arg})
         [] prog = "addlist" ->
              n <= 2 /\ Len(list2) <= 2 => Number(out) = Number(list1) + Number(list2)
         [] prog = "deepcopy" -> out = Append(list1, arg)
         [] prog = "binary" -> out = <<Or(Bits(list1) % (UIntSize \div 2), arg \div 2)>>
         [] prog = "visited" -> NodesFrom(head) = [k \in 1..(n + 1) |-> k]

(* What a program does to its heap at every step, and its result at the end. *)
ResultsRight == TypeOK /\ NothingLost /\ MeansWhatItSays

(* Every program ends, the one with the loop in its list included. *)
Terminates == <>(pc \in {"done", "crashed"})
=============================================================================
