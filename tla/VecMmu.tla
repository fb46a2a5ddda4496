------------------------------- MODULE VecMmu -------------------------------
(***************************************************************************)
(* The interleaved guest memory of a batch (fs-vec/src/vec_mmu.rs): lane   *)
(* l's copy of guest word w is entry w * N + l of one flat array, with a   *)
(* parallel array of permissions.  An address counts halfwords, two to a   *)
(* word; an access is of one halfword or of an aligned word.  Three ways   *)
(* in: one lane at a time, all lanes at one address, all lanes each at its *)
(* own.                                                                    *)
(***************************************************************************)
EXTENDS Integers

CONSTANTS N,          \* LANES
          Base,       \* first guest address, a multiple of a word
          NumWords    \* words of guest memory

LaneIds == 0 .. N - 1
Unmapped == [ok |-> FALSE, kind |-> "unmapped", val |-> 0]
Unaligned == [ok |-> FALSE, kind |-> "unaligned", val |-> 0]
Permission == [ok |-> FALSE, kind |-> "permission", val |-> 0]
Ok(v) == [ok |-> TRUE, kind |-> "none", val |-> v]

InBounds(addr) == addr >= Base /\ (addr - Base) \div 2 < NumWords
word(addr) == (addr - Base) \div 2
host_idx(addr, lane) == word(addr) * N + lane
off(addr) == (addr - Base) % 2
region_mask(addr, size) == off(addr) .. off(addr) + size - 1
check_align(addr, size) == addr % size = 0

Permits(m, addr, lane, size, bit) ==
    \A k \in region_mask(addr, size) : bit \in m.perms[host_idx(addr, lane)][k]
\* A word as a number: its low halfword first.
Value(entry, addr, size) == IF size = 2 THEN entry[0] + 16 * entry[1] ELSE entry[off(addr)]
Half(v, k) == IF k = 0 THEN v % 16 ELSE v \div 16

Merged(entry, addr, size, v) ==
    [k \in 0 .. 1 |-> IF k \in region_mask(addr, size) THEN Half(v, k - off(addr)) ELSE entry[k]]
\* A store makes what it wrote readable.
Unlocked(entry, addr, size) ==
    [k \in 0 .. 1 |-> IF k \in region_mask(addr, size) THEN (entry[k] \cup {"R"}) \ {"RAW"}
                      ELSE entry[k]]

-----------------------------------------------------------------------------
(* One lane. *)

Checked(m, lane, addr, size, bit) ==
    IF ~check_align(addr, size) THEN Unaligned
    ELSE IF ~InBounds(addr) THEN Unmapped
    ELSE IF ~Permits(m, addr, lane, size, bit) THEN Permission
    ELSE Ok(Value(m.content[host_idx(addr, lane)], addr, size))

load_lane(m, lane, addr, size) == Checked(m, lane, addr, size, "R")
ifetch16_lane(m, lane, addr) == Checked(m, lane, addr, 1, "X")

store_lane(m, lane, addr, size, v) ==
    LET i == host_idx(addr, lane)
    IN  IF ~Checked(m, lane, addr, size, "W").ok THEN m
        ELSE [content |-> [m.content EXCEPT ![i] = Merged(@, addr, size, v)],
              perms |-> [m.perms EXCEPT ![i] = Unlocked(@, addr, size)]]

-----------------------------------------------------------------------------
(* All active lanes at one address, declined as a whole. *)

Same(m, addr, size, act, bit) ==
    /\ check_align(addr, size) /\ InBounds(addr)
    /\ \A l \in act : Permits(m, addr, l, size, bit)

\* The line: every lane's value, inactive lanes' included.
load_same(m, addr, size) ==
    [l \in LaneIds |-> Value(m.content[word(addr) * N + l], addr, size)]

store_same(m, addr, size, act, vals) ==
    LET line == {word(addr) * N + l : l \in act}
    IN  [content |-> [i \in DOMAIN m.content |->
                         IF i \in line THEN Merged(m.content[i], addr, size, vals[i % N])
                         ELSE m.content[i]],
         perms |-> [i \in DOMAIN m.perms |->
                         IF i \in line THEN Unlocked(m.perms[i], addr, size) ELSE m.perms[i]]]

-----------------------------------------------------------------------------
(* Each active lane at its own address. *)

\* Lanes the gather services; an invalid lane's index is clamped to word 0 and masked.
gather_addr_plan(addrs, size, act) ==
    LET valid == {l \in act : InBounds(addrs[l]) /\ check_align(addrs[l], size)}
    IN  [valid |-> valid,
         idx |-> [l \in LaneIds |-> (IF l \in valid THEN word(addrs[l]) ELSE 0) * N + l]]

Serviced(m, addrs, size, act, bit) ==
    LET plan == gather_addr_plan(addrs, size, act)
    IN  {l \in plan.valid : \A k \in region_mask(addrs[l], size) : bit \in m.perms[plan.idx[l]][k]}

load_gather_fast(m, addrs, size, act) ==
    LET plan == gather_addr_plan(addrs, size, act)
        ok == Serviced(m, addrs, size, act, "R")
    IN  [l \in LaneIds |-> IF l \in ok THEN Value(m.content[plan.idx[l]], addrs[l], size) ELSE 0]

store_scatter_fast(m, addrs, size, act, vals) ==
    LET plan == gather_addr_plan(addrs, size, act)
        ok == Serviced(m, addrs, size, act, "W")
        at(i) == {l \in ok : plan.idx[l] = i}
        one(i) == CHOOSE l \in at(i) : TRUE
    IN  [content |-> [i \in DOMAIN m.content |->
                         IF at(i) = {} THEN m.content[i]
                         ELSE Merged(m.content[i], addrs[one(i)], size, vals[one(i)])],
         perms |-> [i \in DOMAIN m.perms |->
                         IF at(i) = {} THEN m.perms[i]
                         ELSE Unlocked(m.perms[i], addrs[one(i)], size)]]
=============================================================================
