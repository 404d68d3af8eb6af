-------------------------------- MODULE RMap --------------------------------
(***************************************************************************)
(* Resource maps (common/sys/subr_rmap.c): the free segments of a          *)
(* resource, sorted by address, in an array of mapsize entries.  One entry *)
(* is the header and one the delimiter.  The interleaving of the swap map  *)
(* is left out.                                                            *)
(***************************************************************************)
EXTENDS Integers, SequencesExt

Unit(seg) == seg.addr .. seg.addr + seg.size - 1
Units(map) == UNION {Unit(map[i]) : i \in DOMAIN map}

rminit(size, addr) == <<[addr |-> addr, size |-> size]>>

(* Mutant: the address of the rest of a segment is not moved. *)
rmallocSameAddr(map, size) ==
  LET i == SelectInSeq(map, LAMBDA seg : seg.size >= size) IN
  IF i = 0 THEN [addr |-> 0, map |-> map]
  ELSE [addr |-> map[i].addr,
        map  |-> IF map[i].size = size THEN RemoveAt(map, i)
                 ELSE [map EXCEPT ![i].size = @ - size]]

(* First fit; address 0 when there is none. *)
rmalloc(map, size) ==
  LET i == SelectInSeq(map, LAMBDA seg : seg.size >= size) IN
  IF i = 0 THEN [addr |-> 0, map |-> map]
  ELSE [addr |-> map[i].addr,
        map  |-> IF map[i].size = size THEN RemoveAt(map, i)
                 ELSE [map EXCEPT ![i].addr = @ + size, ![i].size = @ - size]]

(* The segment joins the free segment before it, that behind it, both, or  *)
(* is put between them; when the array overflows the last but one goes.    *)
rmfree(map, size, addr, mapsize) ==
  LET behind == SelectInSeq(map, LAMBDA seg : seg.addr > addr)
      i == IF behind = 0 THEN Len(map) + 1 ELSE behind
      joinsLeft == i > 1 /\ map[i - 1].addr + map[i - 1].size >= addr
      joinsRight == behind # 0 /\ addr + size >= map[i].addr
      inserted == InsertAt(map, i, [addr |-> addr, size |-> size])
  IN CASE joinsLeft /\ joinsRight ->
            RemoveAt([map EXCEPT ![i - 1].size = @ + size + map[i].size], i)
       [] joinsLeft /\ ~joinsRight -> [map EXCEPT ![i - 1].size = @ + size]
       [] ~joinsLeft /\ joinsRight ->
            [map EXCEPT ![i].addr = @ - size, ![i].size = @ + size]
       [] OTHER -> IF Len(inserted) > mapsize - 2
                   THEN RemoveAt(inserted, Len(inserted) - 1)
                   ELSE inserted
=============================================================================
