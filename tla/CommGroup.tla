------------------------------ MODULE CommGroup -----------------------------
(***************************************************************************)
(* Communicator groups, src/include/mys/impl/commgroup.c: from the color   *)
(* and the key of every rank, mys_commgroup_create builds on each rank     *)
(* five tables that say who is in which group and where.                   *)
(*                                                                         *)
(* The ranks only meet in collective calls of MPI, whose results are fixed *)
(* by their arguments, so the model follows one rank, me; every rank is me *)
(* in some behaviour.  MPI_Comm_split and qsort are external: they are the *)
(* relations Split and Sorted.  The pass over the sorted rows is taken row *)
(* by row, and its tables are functions on all integers that could be an   *)
(* index, so a write outside of an array shows.                            *)
(***************************************************************************)
EXTENDS Integers, FiniteSets

CONSTANTS NumRanks,   \* size of global_comm
          Colors,     \* the colors a caller can ask for
          Keys,       \* the keys, also the numbers of processors
          Hosts,      \* the host names, in their order under strcmp
          Numas,      \* what numa_node_of_cpu can return
          NumaNums    \* what numa_num_configured_nodes can return

\* What a configuration must give.
CommGroupAssumption ==
    /\ NumRanks \in Nat \ {0}
    /\ Colors \subseteq Nat /\ Keys \subseteq Int /\ Hosts \subseteq Int
    /\ Numas \subseteq Nat /\ NumaNums \subseteq Nat \ {0}

Ranks == 0 .. NumRanks - 1

VARIABLES
    by,                                     \* which routine makes the group
    me,                                     \* global_myrank
    host, numa,                             \* where each rank runs
    numa_num,                               \* the NUMA nodes its host has
    color,                                  \* group_color of each rank
    local,                                  \* local_myrank of each rank
    rows,                                   \* temp, sorted
    i, group_index, last_color,             \* the pass
    group_id, group_num, _group_ids, _local_ranks, _brothers,
    _neighbors, _group_sizes

place == <<host, numa, numa_num>>
asked == <<by, me, place, color, local, rows, group_num>>
tables == <<group_id, _group_ids, _local_ranks, _brothers, _neighbors, _group_sizes>>
vars == <<asked, i, group_index, last_color, tables>>

-----------------------------------------------------------------------------
\* MPI_Comm_split: within a color, ranks are counted from 0 in the order of
\* the keys, and of the ranks for equal keys.
Before(key, r, s) == key[r] < key[s] \/ (key[r] = key[s] /\ r < s)
Peers(r) == {s \in Ranks : color[s] = color[r]}
Split(key) == local = [r \in Ranks |-> Cardinality({s \in Peers(r) : Before(key, s, r)})]

\* Mutant of Sorted: the rows are compared by local rank first.
SortedByLocal(row) ==
    \A m, n \in DOMAIN row : m < n =>
        \/ local[row[m]] < local[row[n]]
        \/ local[row[m]] = local[row[n]] /\ color[row[m]] < color[row[n]]

\* qsort with _mys_commgroup_sort_i4; a row is named by its global rank.
Sorted(row) ==
    \A m, n \in DOMAIN row : m < n =>
        \/ color[row[m]] < color[row[n]]
        \/ color[row[m]] = color[row[n]] /\ local[row[m]] < local[row[n]]

\* mys_commgroup_create up to the pass; the loops that fill in -1 and 0.
Create(key) ==
    /\ Split(key) /\ local \in [Ranks -> Ranks]
    /\ rows \in [1 .. NumRanks -> Ranks]
    /\ \A r \in Ranks : \E m \in 1 .. NumRanks : rows[m] = r
    /\ Sorted(rows)
    /\ group_num = Cardinality({r \in Ranks : local[r] = 0})
    /\ me \in Ranks
    /\ i = 1 /\ group_index = -1 /\ last_color = -1
    /\ group_id = -1                 \* not initialised; every rank has a row
    /\ _group_ids = [r \in Ranks |-> -1]
    /\ _local_ranks = [r \in Ranks |-> -1]
    /\ _brothers = [n \in 0 .. Cardinality(Peers(me)) - 1 |-> -1]
    /\ _neighbors = [g \in 0 .. group_num - 1 |-> -1]
    /\ _group_sizes = [g \in 0 .. group_num - 1 |-> 0]

\* A caller's own colors.
CreateByColor == /\ by = "color"
                 /\ host = [r \in Ranks |-> 0] /\ numa = host /\ numa_num = host
                 /\ color \in [Ranks -> Colors]
                 /\ \E key \in [Ranks -> Keys] : Create(key)

\* _mys_commgroup_get_rank2node: a host's place among the sorted names.
Node(r) == Cardinality({h \in {host[s] : s \in Ranks} : h < host[r]})

CreateNode == /\ by = "node"
              /\ host \in [Ranks -> Hosts] /\ numa = [r \in Ranks |-> 0] /\ numa_num = numa
              /\ color = [r \in Ranks |-> Node(r)]
              /\ Create([r \in Ranks |-> r])

\* mys_commgroup_create_numa, when the three queries succeed on every rank:
\* node_id is the first rank of the host, and each rank counts with the number
\* of NUMA nodes of its own host.
FirstOn(h) == CHOOSE r \in Ranks :
    host[r] = h /\ \A s \in Ranks : host[s] = h => r <= s

CreateNuma ==
    /\ by = "numa"
    /\ host \in [Ranks -> Hosts]
    /\ numa \in [Ranks -> Numas]
    /\ \E num \in [Hosts -> NumaNums] : numa_num = [r \in Ranks |-> num[host[r]]]
    /\ color = [r \in Ranks |-> FirstOn(host[r]) * numa_num[r] + numa[r]]
    /\ \E cpu \in [Ranks -> Keys] : Create(cpu)

Init == CreateByColor \/ CreateNode \/ CreateNuma

-----------------------------------------------------------------------------
\* An element of an array, or -1 outside: the five queries, and for the model
\* also what the pass reads.
Query(array, n) == IF n \in DOMAIN array THEN array[n] ELSE -1

\* An assignment to an element of an array, inside its bounds or not.
Written(array, n, v) == [m \in DOMAIN array \cup {n} |-> IF m = n THEN v ELSE array[m]]

\* The group of the row: the next one when the color changes.
GroupOf(r) == IF color[r] # last_color THEN group_index + 1 ELSE group_index

\* One turn of the loop over the rows.
Visit ==
    /\ i <= NumRanks
    /\ LET r == rows[i]
           g == GroupOf(r)
       IN /\ group_index' = g /\ last_color' = color[r]
          /\ group_id' = IF r = me THEN g ELSE group_id
          /\ _neighbors' = IF local[r] = local[me] THEN Written(_neighbors, g, r) ELSE _neighbors
          /\ _group_ids' = Written(_group_ids, r, g)
          /\ _local_ranks' = Written(_local_ranks, r, local[r])
          /\ _group_sizes' = Written(_group_sizes, g, Query(_group_sizes, g) + 1)
          /\ _brothers' = IF color[r] = color[me] THEN Written(_brothers, local[r], r) ELSE _brothers
    /\ i' = i + 1
    /\ UNCHANGED asked

Spec == Init /\ [][Visit]_vars

-----------------------------------------------------------------------------
Group(r) == Query(_group_ids, r)
Local(r) == Query(_local_ranks, r)

\* Ids follow the order of the colors without a gap, and two ranks have one
\* id exactly when they have one color.
IdsFollowColors ==
    /\ \A r, s \in Ranks : Group(r) < Group(s) <=> color[r] < color[s]
    /\ {Group(r) : r \in Ranks} = 0 .. group_num - 1
    /\ group_id = Group(me)

\* Brothers, neighbours and sizes answer the same question from the other end.
TablesAreInverse ==
    /\ \A r \in Ranks : Group(r) = group_id => Query(_brothers, Local(r)) = r
    /\ \A n \in -1 .. NumRanks : Query(_brothers, n) # -1 =>
           Group(Query(_brothers, n)) = group_id /\ Local(Query(_brothers, n)) = n
    /\ \A g \in -1 .. NumRanks :
           /\ Query(_neighbors, g) # -1 =>
                  Group(Query(_neighbors, g)) = g /\ Local(Query(_neighbors, g)) = Local(me)
           /\ g \in 0 .. group_num - 1 =>
                  /\ Query(_group_sizes, g) = Cardinality({r \in Ranks : Group(r) = g})
                  /\ Query(_neighbors, g) = -1 <=> Local(me) >= Query(_group_sizes, g)

\* The arrays keep the sizes they were allocated with.
NothingOutside ==
    /\ DOMAIN _group_ids = Ranks /\ DOMAIN _local_ranks = Ranks
    /\ DOMAIN _neighbors = 0 .. group_num - 1 /\ DOMAIN _group_sizes = 0 .. group_num - 1
    /\ DOMAIN _brothers = 0 .. Cardinality(Peers(me)) - 1

\* All hosts have equally many NUMA nodes, which are counted from 0.  Where they
\* do not, the colors of two hosts can be equal (0 * 2 + 1 and 1 * 1 + 0).
HostsAreAlike == \A r, s \in Ranks : numa_num[r] = numa_num[s] /\ numa[r] < numa_num[r]

\* When the pass is over, the tables of every rank are right and agree with
\* each other, no element beyond an array was written on the way, and groups
\* made from hosts are those of ranks that run together; those made from NUMA
\* nodes too, where the hosts are alike.
GroupsExact ==
    /\ NothingOutside
    /\ i > NumRanks =>
         /\ IdsFollowColors
         /\ TablesAreInverse
         /\ (by = "node" \/ (by = "numa" /\ HostsAreAlike)) => \A r, s \in Ranks :
                Group(r) = Group(s) <=> host[r] = host[s] /\ numa[r] = numa[s]
=============================================================================
