------------------------------ MODULE AddressSpace ------------------------------
(***************************************************************************)
(* What the PageTable trait of src/walker.rs promises its consumer: an     *)
(* address space is a set of disjoint leaf mappings, and every call either *)
(* takes its whole effect at one instant and returns Ok, or has no effect  *)
(* and returns an error that the mappings justify.  Tables, frames and     *)
(* levels are invisible here, with two exceptions that the code lets       *)
(* through: a table that maps nothing, which a call that failed half-way   *)
(* leaves behind, makes a later map refuse with AlreadyMapped, and an      *)
(* allocator that will not take a table back makes unmap and merge_at      *)
(* fail after their effect.                                                *)
(***************************************************************************)
EXTENDS PagingGeometry

CONSTANTS
  Requests,   \* the calls the consumer may make
  BootMaps,   \* mappings of the table that may be adopted
  Foreign,    \* TRUE if the adopted table has frames the allocator refuses
  Damaged,    \* TRUE if the adopted table holds entries that are no legal kind
  Loose       \* TRUE if it has tables in which nothing is mapped

VARIABLES
  open,     \* there is a page table
  maps,     \* its mappings: [pages, pa, fl]
  call,     \* the call in progress
  outcome,  \* "pending", "Ok" or an error; "none" between calls
  untidy    \* tables may map nothing: a call failed half-way, or they were adopted

asvars == <<open, maps, call, outcome, untidy>>

NoCall == [op |-> "none"]

ASInit ==
  open = FALSE /\ maps = {} /\ call = NoCall /\ outcome = "none" /\ untidy = FALSE

ExactAt(r) == {m \in maps : m.pages = Pages(r)}

Overlapping(r) == {m \in maps : m.pages \cap Pages(r) # {}}

AsLeaf(r, p, fl) == [pages |-> Pages(r), pa |-> p, fl |-> fl]

\* The E mappings, one level finer, that translate as one mapping of r does.
Pieces(r, p, fl) ==
  LET fine == Size(r) \div E IN
  {[pages |-> r.start + i * fine .. r.start + (i + 1) * fine - 1,
    pa |-> p + i * fine, fl |-> fl] : i \in Slots}

\* The bases and flags with which the mappings inside r make one leaf.
Merges(r) ==
  {m \in Overlapping(r) : m.pa % Size(r) = 0 /\ Overlapping(r) = Pieces(r, m.pa, m.fl)}

MergeArguments(r) ==
  IF check_leaf_range(r) # "Ok" THEN check_leaf_range(r)
  ELSE IF ~size_is_supported(Size(r)) THEN "UnsupportedSize"
  ELSE IF Size(r) = 1 THEN "NotCoalescable" ELSE "Ok"

-------------------------------------------------------------------------------
\* The mappings after a successful call r; the set of possibilities is empty
\* when the call must not succeed.
Effects(r) ==
  CASE r.op = "map" ->
         IF exact_leaf_size(r, r.pa) = "Ok" /\ Overlapping(r) = {}
         THEN {maps \cup {AsLeaf(r, r.pa, r.fl)}} ELSE {}
    [] r.op = "remap" ->
         {(maps \ {m}) \cup {AsLeaf(r, r.pa, r.fl)} :
            m \in {x \in ExactAt(r) : paddr_is_valid(r.pa) /\ r.pa % Size(r) = 0}}
    [] r.op = "protect" ->
         {(maps \ {m}) \cup {AsLeaf(r, m.pa, r.fl)} : m \in ExactAt(r)}
    [] r.op = "unmap" ->
         {maps \ {m} : m \in ExactAt(r)}
    [] r.op = "split_at" ->
         {(maps \ {m}) \cup Pieces(r, m.pa, m.fl) : m \in {x \in ExactAt(r) : Size(r) > 1}}
    [] r.op = "merge_at" ->
         {maps : m \in {x \in ExactAt(r) : MergeArguments(r) = "Ok"}} \cup
         {(maps \ Overlapping(r)) \cup {AsLeaf(r, m.pa, m.fl)} :
            m \in IF MergeArguments(r) = "Ok" THEN Merges(r) ELSE {}}

\* The errors call r may return instead, and when.
MayRefuse(r, e) ==
  \/ e = "InvalidEntryKind" /\ Damaged
  \/ /\ r.op = "map"
     /\ \/ e = "InvalidMappingShape" /\ r.start = r.end
        \/ e = exact_leaf_size(r, r.pa) /\ e # "Ok"
        \/ e = "AlreadyMapped" /\ (Overlapping(r) # {} \/ untidy \/ Damaged)
        \/ e \in {"OutOfMemory", "NotAligned"}
  \/ /\ r.op \in {"remap", "protect", "unmap", "split_at"}
     /\ \/ e = "NotMapped" /\ (ExactAt(r) = {} \/ (r.op = "split_at" /\ Size(r) = 1))
        \/ e = "AddressOutOfRange" /\ ~vaddr_is_valid(r.start)
        \/ e = "AddressOutOfRange" /\ \E m \in maps : {r.start, UMAX - 1} \subseteq m.pages
        \/ e = "AddressOutOfRange" /\ r.op = "remap" /\ ~paddr_is_valid(r.pa)
        \/ e = "NotAligned" /\ r.op = "remap" /\ \E m \in ExactAt(r) : r.pa % Size(r) # 0
        \/ e \in {"OutOfMemory", "NotAligned"} /\ r.op = "split_at"
  \/ /\ r.op = "merge_at"
     /\ \/ e = MergeArguments(r) /\ e # "Ok"
        \/ e \in {"NotMapped", "NotCoalescable"} /\ Effects(r) = {}

Errors == {"InvalidEntryKind", "InvalidMappingShape", "AddressOutOfRange", "NotAligned",
           "UnsupportedSize", "AlreadyMapped", "NotMapped", "NotCoalescable", "OutOfMemory"}

-------------------------------------------------------------------------------
Create ==
  /\ ~open
  /\ open' = TRUE
  /\ \/ maps' = {} /\ UNCHANGED untidy
     \/ maps' = BootMaps /\ untidy' = Loose
  /\ UNCHANGED <<call, outcome>>

Close ==
  /\ open /\ outcome = "none"
  /\ open' = FALSE /\ maps' = {} /\ untidy' = FALSE
  /\ UNCHANGED <<call, outcome>>

\* Wrong arguments are refused at once.
Invoke(r) ==
  /\ open /\ outcome = "none"
  /\ call' = r
  /\ \/ outcome' = "pending"
     \/ \E e \in Errors : MayRefuse(r, e) /\ outcome' = e
  /\ UNCHANGED <<open, maps, untidy>>

Succeed ==
  /\ outcome = "pending"
  /\ outcome' = "Ok"
  /\ maps' \in Effects(call)
  /\ UNCHANGED <<open, call, untidy>>

Refuse(e) ==
  /\ outcome = "pending"
  /\ MayRefuse(call, e)
  /\ outcome' = e
  /\ untidy' = (untidy \/ (call.op = "map" /\ e \in {"OutOfMemory", "NotAligned"}))
  /\ UNCHANGED <<open, maps, call>>

ReleaseRefused ==
  /\ Foreign /\ outcome = "Ok" /\ call.op \in {"unmap", "merge_at"}
  /\ outcome' = "DeallocRefused"
  /\ untidy' = TRUE
  /\ UNCHANGED <<open, maps, call>>

Complete ==
  /\ outcome \notin {"none", "pending"}
  /\ call' = NoCall /\ outcome' = "none"
  /\ UNCHANGED <<open, maps, untidy>>

ASNext ==
  \/ Create \/ Close
  \/ \E r \in Requests : Invoke(r)
  \/ Succeed \/ \E e \in Errors : Refuse(e)
  \/ ReleaseRefused \/ Complete

ASSpec == ASInit /\ [][ASNext]_asvars

===============================================================================
