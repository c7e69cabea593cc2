---------------------------- MODULE ResponseCache ----------------------------
(***************************************************************************)
(* The cache of captured requests (internal/cache/cache.go), first in      *)
(* first out, limited by the bytes it holds.  Everything is done under its *)
(* mutex; requests that end together add their captures in any order.      *)
(***************************************************************************)
EXTENDS Naturals, Sequences, FiniteSetsExt

CONSTANTS
  Ids,
  Sizes,      \* of captures
  MaxSize,    \* maxBytes
  MaxAdds     \* bound: captures that were stored

CacheAssumption == Sizes \subseteq Nat /\ MaxSize \in Nat /\ MaxAdds \in Nat

VARIABLES
  items,   \* id to the number of bytes held for it
  order,   \* ids, the oldest first
  size,
  added    \* what was added, in that order, as <<id, bytes>>

vars == <<items, order, size, added>>

TypeOK ==
  /\ DOMAIN items \subseteq Ids /\ \A id \in DOMAIN items : items[id] \in Sizes
  /\ order \in Seq(Ids)
  /\ size \in Nat
  /\ added \in Seq(Ids \X Sizes)

\* the bytes of the ids in s, of which held says how many each has
Bytes(s, held) ==
  LET sum[n \in 0..Len(s)] == IF n = 0 THEN 0 ELSE sum[n - 1] + held[s[n]]
  IN  sum[Len(s)]

Init ==
  /\ items = [id \in {} |-> 0]
  /\ order = <<>>
  /\ size = 0
  /\ added = <<>>

\* removeOrder
Others(id) ==
  IF id \notin Range(order) THEN order
  ELSE LET at == CHOOSE i \in DOMAIN order : order[i] = id
       IN  SubSeq(order, 1, at - 1) \o SubSeq(order, at + 1, Len(order))

\* variation: an id that is there already keeps its old place and its old size
AddBeside(id, bytes) ==
  /\ bytes <= MaxSize
  /\ LET fits == {n \in 0..Len(order) :
                    size - Bytes(SubSeq(order, 1, n), items) + bytes <= MaxSize}
         kept == SubSeq(order, Min(fits) + 1, Len(order))
     IN  /\ order' = Append(kept, id)
         /\ items' = [k \in Range(order') |-> IF k = id THEN bytes ELSE items[k]]
         /\ size' = size - Bytes(SubSeq(order, 1, Min(fits)), items) + bytes
  /\ added' = Append(added, <<id, bytes>>)

\* one that is larger than the cache is refused and changes nothing; otherwise what was
\* held for this id goes, and then the oldest ones, until there is room
Add(id, bytes) ==
  /\ bytes <= MaxSize
  /\ LET others == Others(id)
         held == size - (IF id \in DOMAIN items THEN items[id] ELSE 0)
         fits == {n \in 0..Len(others) :
                    held - Bytes(SubSeq(others, 1, n), items) + bytes <= MaxSize}
         gone == SubSeq(others, 1, Min(fits))
     IN  /\ order' = Append(SubSeq(others, Min(fits) + 1, Len(others)), id)
         /\ items' = [k \in Range(order') |-> IF k = id THEN bytes ELSE items[k]]
         /\ size' = held - Bytes(gone, items) + bytes
  /\ added' = Append(added, <<id, bytes>>)

Next ==
  /\ Len(added) < MaxAdds
  /\ \E id \in Ids, bytes \in Sizes : Add(id, bytes)

Spec == Init /\ [][Next]_vars

-----------------------------------------------------------------------------
\* The cache holds the captures added last, whole and without a gap, within its limit,
\* and its size is that of what it holds: at is where the capture held for each id was
\* added, nothing came later under that id, and what came later under another is held too.
HoldsLatest ==
  /\ \E at \in [DOMAIN order -> DOMAIN added] :
       \A k \in DOMAIN order :
         /\ added[at[k]] = <<order[k], items[order[k]]>>
         /\ \A l \in DOMAIN order : k < l => at[k] < at[l]
         /\ \A n \in DOMAIN added :
              n > at[k] => added[n][1] # order[k] /\ added[n][1] \in Range(order)
  /\ DOMAIN items = Range(order) /\ IsInjective(order)
  /\ size = Bytes(order, items) /\ size <= MaxSize
=============================================================================
