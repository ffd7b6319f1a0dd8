---------------------------- MODULE CapDependency ----------------------------
(***************************************************************************)
(* msm_vidc_prepare_dependency_list (src/driver/vidc/src/msm_vidc_control.c) *)
(* orders the session's capabilities so that every capability comes after *)
(* all of its parents, and stores the order in inst->caps_list.            *)
(*                                                                         *)
(* The capability table is an input: Init chooses any table over Caps in   *)
(* which each entry is unused (cap_id 0), well formed (cap_id = its index) *)
(* or mismatched, and lists its children as a sequence of distinct ids.    *)
(* parents[] is the inverse of children[] over the used entries.            *)
(*                                                                         *)
(* The function is a sequence of loops; each loop iteration is one step   *)
(* so that the list_for_each_entry_safe iterators, which read the next     *)
(* node before the body runs, are modelled as the code has them.           *)
(***************************************************************************)
EXTENDS Naturals, Sequences, Graphs

CONSTANTS
  Caps,        \* capability ids 1..INST_CAP_MAX-1 (a set 1..n)
  MaxChildren, \* bound on the length of a children[] array
  MaxCalls,    \* bound on the calls of msm_vidc_prepare_dependency_list
  IdTables,    \* the cap_id columns to explore: [Caps -> Caps \cup {0}]
  SelfLoopIds, \* the entries that may list themselves as a child
  ListHead         \* model value: the list head reached by an iterator

ASSUME /\ Caps = 1..Cardinality(Caps) /\ IdTables \subseteq [Caps -> Caps \cup {0}]
       /\ MaxChildren \in Nat /\ MaxCalls \in Nat

\* Children arrays: sequences of distinct ids, at most MaxChildren long.
ChildSeqs == {s \in SetToAllKPermutations(Caps) : Len(s) <= MaxChildren}

VARIABLES
  cap_id,    \* inst->capabilities->cap[c].cap_id (0: entry unused)
  children,  \* inst->capabilities->cap[c].children[]
  caps_list, \* inst->caps_list
  root,      \* root_list (root_visited[c] <=> c is on it)
  opt,       \* opt_list  (opt_visited[c]  <=> c is on it)
  pc,        \* "idle", or the loop the call is in
  pos,       \* phase-1 iterator: index of the current root_list entry
  cur,       \* phase-2 iterator: the current opt_list entry, or ListHead
  num_nodes, tmp_count, tmp_count_total,
  rc,        \* return value of the last completed call
  calls      \* completed calls

vars == <<cap_id, children, caps_list, root, opt, pc, pos, cur, num_nodes, tmp_count,
          tmp_count_total, rc, calls>>

\* is_valid_cap: the entry is in use
IsValidCap(c) == cap_id[c] # 0

\* cap->parents[]: every used entry that lists c as a child
Parents(c) == {p \in Caps : IsValidCap(p) /\ c \in ToSet(children[p])}

\* is_root: parents[0] is INST_CAP_NONE
IsRoot(c) == Parents(c) = {}

\* Mutant: only the lowest-numbered parent is looked up.
FirstParentVisited(c, list) ==
  Parents(c) # {} => Min(Parents(c)) \in ToSet(list)

\* is_all_parents_visited(cap, root_visited)
IsAllParentsVisited(c, list) == Parents(c) \subseteq ToSet(list)

\* Mutant: the walk runs off the end instead of stopping at the head.
NextNodePastEnd(list, c) ==
  LET i == SelectInSeq(list, LAMBDA x : x = c)
  IN  IF i = Len(list) THEN 0 ELSE list[i + 1]

\* The node after c on list, or the head when c is the last entry; read
\* before the body, as list_for_each_entry_safe does.
NextNode(list, c) ==
  LET i == SelectInSeq(list, LAMBDA x : x = c)
  IN  IF i = Len(list) THEN ListHead ELSE list[i + 1]

\* The error label: both local lists are freed, caps_list is untouched.
Fail ==
  /\ root' = <<>> /\ opt' = <<>>
  /\ rc' = "EINVAL" /\ pc' = "idle" /\ calls' = calls + 1

-----------------------------------------------------------------------------
Init ==
  /\ cap_id \in IdTables
  /\ children \in {f \in [Caps -> ChildSeqs] :
                    \A c \in Caps \ SelfLoopIds : c \notin ToSet(f[c])}
  /\ caps_list = <<>> /\ root = <<>> /\ opt = <<>>
  /\ pc = "idle" /\ pos = 0 /\ cur = ListHead
  /\ num_nodes = 0 /\ tmp_count = 0 /\ tmp_count_total = 0
  /\ rc = "none" /\ calls = 0

\* Entry and the first loop: a call with caps_list built returns 0; else
\* every used id goes to root_list (no parents) or opt_list, in id order;
\* a cap_id that differs from its index fails with -EINVAL.
Populate ==
  LET used == {c \in Caps : IsValidCap(c)}
      Ordered(S) == SetToSortSeq(S, <)
  IN  /\ pc = "idle"
      /\ calls < MaxCalls
      /\ IF caps_list # <<>>
           THEN /\ rc' = "OK" /\ calls' = calls + 1
                /\ UNCHANGED <<root, opt, pc>>
           ELSE IF \E c \in used : cap_id[c] # c
             THEN Fail
             ELSE /\ root' = Ordered({c \in used : IsRoot(c)})
                  /\ opt' = Ordered({c \in used : ~IsRoot(c)})
                  /\ pc' = IF \E c \in used : IsRoot(c) THEN "phase1"
                                                        ELSE "count"
                  /\ UNCHANGED <<rc, calls>>
      /\ pos' = 1
      /\ UNCHANGED <<cap_id, children, caps_list, cur, num_nodes, tmp_count,
                     tmp_count_total>>

\* swap_node(cap, &opt_list, ..., &root_list, ...): -EINVAL unless the
\* cap is on opt_list and not on root_list; else moved to root_list's tail.
SwapNode(s, ch) ==
  IF ch \notin ToSet(s.opt) \/ ch \in ToSet(s.root)
    THEN [s EXCEPT !.err = TRUE]
    ELSE [s EXCEPT !.opt = Remove(@, ch), !.root = Append(@, ch)]

\* One iteration of the root_list walk: every valid child of root[pos]
\* not yet on root_list whose parents all are, is swapped onto it.  The
\* walk ends after an entry that was the last one when its body started.
ChildStep(s, ch) ==
  IF s.err \/ ~IsValidCap(ch) \/ ch \in ToSet(s.root)
       \/ ~IsAllParentsVisited(ch, s.root)
    THEN s
    ELSE SwapNode(s, ch)

Phase1 ==
  LET s == FoldLeft(ChildStep, [root |-> root, opt |-> opt, err |-> FALSE],
                    children[root[pos]])
      last == pos >= Len(root)
  IN  /\ pc = "phase1"
      /\ pos <= Len(root)
      /\ IF s.err THEN Fail /\ UNCHANGED <<pos, cur, num_nodes, tmp_count,
                                          tmp_count_total>>
         ELSE /\ root' = s.root /\ opt' = s.opt
              /\ pos' = pos + 1
              /\ pc' = IF last THEN "count" ELSE "phase1"
              /\ UNCHANGED <<rc, calls, cur, num_nodes, tmp_count,
                             tmp_count_total>>
      /\ UNCHANGED <<cap_id, children, caps_list>>

\* Count the opt_list entries; the opt_list walk starts at its first entry.
Count ==
  /\ pc = "count"
  /\ num_nodes' = Len(opt)
  /\ tmp_count_total' = Len(opt)
  /\ tmp_count' = Len(opt)
  /\ cur' = IF opt = <<>> THEN ListHead ELSE opt[1]
  /\ pc' = "phase2"
  /\ UNCHANGED <<cap_id, children, caps_list, root, opt, pos, rc, calls>>

\* Mutant: the "loop detected" check is missing.
DetectLoopNever(tc, nn, total) ==
  IF tc # 0 THEN [err |-> FALSE, nn |-> nn, tc |-> tc]
  ELSE [err |-> FALSE, nn |-> total, tc |-> total]

\* Mutant: a round is judged before its last entry.
DetectLoopEarly(tc, nn, total) ==
  IF tc > 1 THEN [err |-> FALSE, nn |-> nn, tc |-> tc]
  ELSE IF nn = total THEN [err |-> TRUE, nn |-> nn, tc |-> tc]
  ELSE [err |-> FALSE, nn |-> total, tc |-> total]

\* The loop detection at the end of each round over opt_list: a round in
\* which no entry moved to root_list fails with "loop detected".
DetectLoop(tc, nn, total) ==
  IF tc # 0 THEN [err |-> FALSE, nn |-> nn, tc |-> tc]
  ELSE IF nn = total THEN [err |-> TRUE, nn |-> nn, tc |-> tc]
  ELSE [err |-> FALSE, nn |-> total, tc |-> total]

\* One iteration of the opt_list walk: the entry leaves opt_list and goes
\* to root_list if its parents all are there, else back to the tail of
\* opt_list.  The iterator moves to the node that followed the entry
\* before the body ran.
Phase2 ==
  LET e     == cur
      nxt   == NextNode(opt, e)
      ok    == IsAllParentsVisited(e, root)
      total == IF ok THEN tmp_count_total - 1 ELSE tmp_count_total
      d     == DetectLoop(tmp_count - 1, num_nodes, total)
  IN  /\ pc = "phase2"
      /\ cur # ListHead
      /\ IF d.err
           THEN Fail /\ UNCHANGED <<pos, cur, num_nodes, tmp_count,
                                    tmp_count_total>>
           ELSE /\ root' = IF ok THEN Append(root, e) ELSE root
                /\ opt' = IF ok THEN Remove(opt, e)
                                ELSE Append(Remove(opt, e), e)
                /\ tmp_count_total' = total
                /\ num_nodes' = d.nn
                /\ tmp_count' = d.tc
                /\ cur' = nxt
                /\ UNCHANGED <<pos, pc, rc, calls>>
      /\ UNCHANGED <<cap_id, children, caps_list>>

\* The walk has reached the list head: a non-empty opt_list fails, else
\* list_replace_init moves root_list into caps_list.
Finish ==
  /\ pc = "phase2"
  /\ cur = ListHead
  /\ IF opt # <<>>
       THEN Fail /\ UNCHANGED caps_list
       ELSE /\ caps_list' = root
            /\ root' = <<>> /\ opt' = opt
            /\ rc' = "OK" /\ pc' = "idle" /\ calls' = calls + 1
  /\ UNCHANGED <<cap_id, children, pos, cur, num_nodes, tmp_count, tmp_count_total>>

Step == Phase1 \/ Count \/ Phase2 \/ Finish

Next == Populate \/ Step

\* The calling thread, once inside the function, keeps running it.
Spec == Init /\ [][Next]_vars /\ WF_vars(Step)

-----------------------------------------------------------------------------
TypeOK ==
  /\ cap_id \in IdTables /\ children \in [Caps -> ChildSeqs]
  /\ caps_list \in Seq(Caps) /\ root \in Seq(Caps) /\ opt \in Seq(Caps)
  /\ pc \in {"idle", "phase1", "count", "phase2"}
  /\ pos \in Nat /\ cur \in Caps \cup {ListHead}
  /\ {num_nodes, tmp_count, tmp_count_total} \subseteq Int
  /\ rc \in {"none", "OK", "EINVAL"} /\ calls \in 0..MaxCalls

\* The used capabilities and the parent edges between them.
DependencyGraph ==
  LET used == {c \in Caps : IsValidCap(c)}
  IN  [node |-> used,
       edge |-> {e \in used \X used : e[1] \in Parents(e[2])}]

(***************************************************************************)
(* Reference definition of a correct dependency list: every used           *)
(* capability exactly once, each after all of its parents.                 *)
(***************************************************************************)
IsDependencyOrder(list) ==
  /\ IsInjective(list)
  /\ ToSet(list) = DependencyGraph.node
  /\ \A i, j \in DOMAIN list : list[i] \in Parents(list[j]) => i < j

(***************************************************************************)
(* Whatever caps_list msm_vidc_prepare_dependency_list stores is a         *)
(* parent-before-child order of all used capabilities.                    *)
(***************************************************************************)
TopologicalOrder ==
  caps_list # <<>> => IsDependencyOrder(caps_list)

(***************************************************************************)
(* A completed call returns 0 exactly when the table is well formed and    *)
(* its parent graph is acyclic, and -EINVAL otherwise: no false "loop      *)
(* detected" on a DAG, and no success on a cycle.                          *)
(***************************************************************************)
FailsExactlyOnCycle ==
  (pc = "idle" /\ calls > 0)
    => (rc = "OK" <=> /\ \A c \in Caps : IsValidCap(c) => cap_id[c] = c
                      /\ IsDag(DependencyGraph))

(***************************************************************************)
(* Every call returns: the two list walks, which move entries while they  *)
(* iterate, always reach the list head, on every table, cyclic or not.    *)
(***************************************************************************)
Terminates == pc # "idle" ~> pc = "idle"
====
