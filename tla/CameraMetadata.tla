--------------------------- MODULE CameraMetadata ---------------------------
(***************************************************************************)
(* Packets of Android camera metadata (src/android/metadata and            *)
(* camera_metadata.cpp): an array of entries and a data area in one block  *)
(* of memory, both of fixed capacity.  A value of at most four bytes is in *)
(* its entry, a longer one in the data area, at an offset the entry holds  *)
(* in the same four bytes.  Deleting and updating entries moves what lies  *)
(* behind them, so that the data area stays dense.                         *)
(*                                                                         *)
(* Offsets and sizes in the data area are multiples of DATA_ALIGNMENT: it  *)
(* is a sequence of granules of that size, of which the first data_count   *)
(* are kept.  The field `data' of an entry is the union of value and       *)
(* offset, and the values that are written are not zero.  Vendor tags,     *)
(* alignment and the copies made of a NULL packet are left out.            *)
(***************************************************************************)
EXTENDS SequencesExt

CONSTANTS
    TagType,        \* the type of each tag, a number: tag_info
    MetaCounts,     \* the number of values in an entry
    EntryCapacity,  \* of a packet that is allocated
    DataCapacity,   \* in bytes
    MaxCalls        \* bound on calls

ASSUME MetaAssumption ==
    /\ TagType \in Seq({"byte", "int32", "float", "int64", "double", "rational"})
    /\ MetaCounts \subseteq Nat /\ EntryCapacity \in Nat /\ DataCapacity \in Nat

VARIABLES
    packet,     \* two packets
    aborted,    \* the assertion at the end of a call failed
    calls,      \* calls so far
    written,    \* history: what was written to each entry of a packet
    emptied,    \* history: an entry that held something was updated to
                \* hold nothing
    mismarked   \* history: packets with the mark of being sorted which they
                \* had when they were empty and got entries that are not

metaVars == <<packet, aborted, calls, written, emptied, mismarked>>

Packets == {1, 2}
MetaTags == DOMAIN TagType

(* camera_metadata_type_size                                               *)
TypeSize == [byte |-> 1, int32 |-> 4, float |-> 4,
             int64 |-> 8, double |-> 8, rational |-> 8]

(* calculate_camera_metadata_entry_data_size(), in granules                *)
DataSize(type, count) ==
    LET bytes == count * TypeSize[type] IN
    IF bytes <= 4 THEN 0 ELSE (bytes + 7) \div 8

SizeOf(e) == DataSize(TagType[e.tag], e.count)

(* The granules of a value that is not in its entry.                       *)
Payload(v, size) == [k \in 1..size |-> <<v, k>>]

(* allocate_camera_metadata() and place_camera_metadata()                  *)
Allocated(entryCapacity, dataCapacity) ==
    [entries |-> <<>>, data |-> <<>>, sorted |-> FALSE,
     entryCapacity |-> entryCapacity, dataCapacity |-> dataCapacity]

(* What validate_camera_metadata_structure() says of the contents.         *)
Valid(m) ==
    /\ Len(m.entries) <= m.entryCapacity /\ Len(m.data) <= m.dataCapacity
    /\ \A i \in DOMAIN m.entries :
          LET e == m.entries[i] IN
          /\ SizeOf(e) > 0 => e.data + SizeOf(e) <= m.dataCapacity
          /\ e.count = 0 => e.data = 0

MetaInit ==
    /\ packet = [p \in Packets |-> Allocated(EntryCapacity, DataCapacity \div 8)]
    /\ written = [p \in Packets |-> <<>>]
    /\ aborted = FALSE /\ calls = 0 /\ emptied = FALSE /\ mismarked = {}

(* A call that changes packet p to m and what is known to be in it to w,   *)
(* up to the assertion; bad says that the mark of p cannot be relied on.   *)
Call(p, m, w, bad) ==
    /\ ~aborted /\ calls < MaxCalls
    /\ calls' = calls + 1
    /\ packet' = [packet EXCEPT ![p] = m]
    /\ written' = [written EXCEPT ![p] = w]
    /\ aborted' = ~Valid(m)
    /\ mismarked' = IF bad THEN mismarked \cup {p} ELSE mismarked \ {p}

Other(p) == 3 - p

(* The value a call writes; no two calls write the same.                   *)
Value == calls + 1

-----------------------------------------------------------------------------
(* add_camera_metadata_entry(): a full packet refuses the entry.           *)
AddMetadata(p, tag, count) ==
    LET m == packet[p]
        v == Value
        size == DataSize(TagType[tag], count)
        entry == [tag |-> tag, count |-> count,
                  data |-> IF size > 0 THEN Len(m.data)
                           ELSE IF count = 0 THEN 0 ELSE v] IN
    /\ Len(m.entries) # m.entryCapacity
    /\ Len(m.data) + size <= m.dataCapacity
    /\ Call(p, [m EXCEPT !.entries = Append(@, entry),
                         !.data = @ \o Payload(v, size), !.sorted = FALSE],
            Append(written[p], <<tag, count, v>>), FALSE)
    /\ UNCHANGED emptied

(* sort_camera_metadata(): qsort() may leave entries with the same tag in  *)
(* any order.                                                              *)
SortMetadata(p) ==
    LET m == packet[p]
        n == Len(m.entries) IN
    /\ ~m.sorted
    /\ \E order \in [1..n -> 1..n] :
          /\ IsInjective(order)
          /\ \A i \in 1..n - 1 :
                m.entries[order[i]].tag <= m.entries[order[i + 1]].tag
          /\ Call(p, [m EXCEPT !.entries = [i \in 1..n |-> @[order[i]]],
                               !.sorted = TRUE],
                  [i \in 1..n |-> written[p][order[i]]], FALSE)
    /\ UNCHANGED emptied

(* Mistake: the values in the entries are taken for offsets.               *)
ShiftAll(entries, offset, size) ==
    [i \in DOMAIN entries |->
        IF entries[i].data > offset
        THEN [entries[i] EXCEPT !.data = @ - size] ELSE entries[i]]

(* The loop over all entries after `size' granules at an offset were       *)
(* removed from the data area.                                             *)
Shifted(entries, offset, size) ==
    [i \in DOMAIN entries |->
        IF SizeOf(entries[i]) > 0 /\ entries[i].data > offset
        THEN [entries[i] EXCEPT !.data = @ - size] ELSE entries[i]]

(* The memmove() that overwrites the data of an entry.                     *)
WithoutData(data, offset, size) ==
    SubSeq(data, 1, offset) \o SubSeq(data, offset + size + 1, Len(data))

(* delete_camera_metadata_entry()                                          *)
DeleteMetadata(p, i) ==
    LET m == packet[p]
        entry == m.entries[i]
        size == SizeOf(entry)
        rest == IF size = 0 THEN m
                ELSE [m EXCEPT !.entries = Shifted(@, entry.data, size),
                               !.data = WithoutData(@, entry.data, size)] IN
    /\ Call(p, [rest EXCEPT !.entries = RemoveAt(@, i)],
            RemoveAt(written[p], i), p \in mismarked)
    /\ UNCHANGED emptied

(* The four bytes of an entry after `count' values, which need `new'       *)
(* granules at the given offset, were written to it: without a value       *)
(* nothing is copied into them.                                            *)
Bytes(entry, count, new, v, offset) ==
    IF new > 0 THEN offset ELSE IF count = 0 THEN entry.data ELSE v

(* update_camera_metadata_entry(): a value of another size goes to the end *)
(* of the data area.                                                       *)
UpdateMetadata(p, i, count) ==
    LET m == packet[p]
        v == Value
        entry == m.entries[i]
        old == SizeOf(entry)
        new == DataSize(TagType[entry.tag], count)
        moved == IF old = 0 THEN m
                 ELSE [m EXCEPT !.entries = Shifted(@, entry.data, old),
                                !.data = WithoutData(@, entry.data, old)] IN
    /\ new # old => Len(m.data) + new - old <= m.dataCapacity
    /\ Call(p,
            IF new # old
            THEN [moved EXCEPT
                    !.entries[i].data = Bytes(entry, count, new, v, Len(moved.data)),
                    !.entries[i].count = count,
                    !.data = @ \o Payload(v, new)]
            ELSE [m EXCEPT
                    !.entries[i].data = Bytes(entry, count, new, v, @),
                    !.entries[i].count = count,
                    !.data = [k \in DOMAIN @ |->
                                IF k - entry.data \in 1..new
                                THEN <<v, k - entry.data>> ELSE @[k]]],
            [written[p] EXCEPT ![i] = <<entry.tag, count, v>>], p \in mismarked)
    /\ emptied' = (count = 0 /\ entry.data # 0)

(* append_camera_metadata(): an empty packet takes over that the other one *)
(* is sorted, but keeps its own mark when the other one is not.            *)
Appended(dst, src) ==
    [dst EXCEPT
        !.entries = @ \o [i \in DOMAIN src.entries |->
                            IF SizeOf(src.entries[i]) > 0
                            THEN [src.entries[i] EXCEPT !.data = @ + Len(dst.data)]
                            ELSE src.entries[i]],
        !.data = @ \o src.data,
        !.sorted = IF dst.entries = <<>> THEN @ \/ src.sorted
                   ELSE @ /\ src.entries = <<>>]

(* A mark that does not hold stays on an empty packet, or comes from src.  *)
Misleads(p) ==
    IF packet[p].entries = <<>>
    THEN \/ packet[p].sorted /\ ~packet[Other(p)].sorted
         \/ Other(p) \in mismarked
    ELSE p \in mismarked

AppendMetadata(p) ==
    LET dst == packet[p]
        src == packet[Other(p)] IN
    /\ Len(dst.entries) + Len(src.entries) <= dst.entryCapacity
    /\ Len(dst.data) + Len(src.data) <= dst.dataCapacity
    /\ Call(p, Appended(dst, src), written[p] \o written[Other(p)], Misleads(p))
    /\ UNCHANGED emptied

(* clone_camera_metadata(), into packet p; copy_camera_metadata() gives    *)
(* the same.  The packet is full.                                          *)
CloneMetadata(p) ==
    LET src == packet[Other(p)] IN
    /\ Call(p, Appended(Allocated(Len(src.entries), Len(src.data)), src),
            written[Other(p)], Other(p) \in mismarked)
    /\ UNCHANGED emptied

(* New values go to the first packet, the second one is filled from it.    *)
MetaNext ==
    \E p \in Packets :
        \/ SortMetadata(p) \/ AppendMetadata(p) \/ CloneMetadata(p)
        \/ \E tag \in MetaTags, count \in MetaCounts :
              p = 1 /\ AddMetadata(p, tag, count)
        \/ \E i \in DOMAIN packet[p].entries :
              \/ DeleteMetadata(p, i)
              \/ \E count \in MetaCounts : p = 1 /\ UpdateMetadata(p, i, count)

-----------------------------------------------------------------------------
(***************************************************************************)
(* Packs of a fixed content, built with CameraMetadata::addEntry().        *)
(***************************************************************************)

(* Whether a pack has room for the entries whose values are in the entry   *)
(* and for those with values of the given numbers of bytes.                *)
Fits(entryCapacity, dataCapacity, small, bytes) ==
    /\ small + Len(bytes) <= entryCapacity
    /\ 8 * FoldLeft(LAMBDA sum, n : sum + DataSize("byte", n), 0, bytes)
          <= dataCapacity

-----------------------------------------------------------------------------
(***************************************************************************)
(* Properties.                                                             *)
(***************************************************************************)

(* get_camera_metadata_entry()                                             *)
ReadMetadata(m, i) ==
    LET e == m.entries[i] IN
    <<e.tag, e.count,
      IF e.count * TypeSize[TagType[e.tag]] > 4
      THEN SubSeq(m.data, e.data + 1, e.data + SizeOf(e)) ELSE <<e.data>>>>

(* The middle of a range of indices, first and last.                       *)
Middle(r) == (r[1] + r[2]) \div 2

(* find_camera_metadata_entry(): the index of an entry with a tag, or 0;   *)
(* bsearch() when the packet is sorted, in the range r of indices.         *)
FindMetadata(m, tag) ==
    LET n == Len(m.entries)
        found[r \in (1 .. n + 1) \X (0 .. n)] ==
            IF r[1] > r[2] THEN 0
            ELSE IF m.entries[Middle(r)].tag = tag THEN Middle(r)
            ELSE IF m.entries[Middle(r)].tag < tag THEN found[<<Middle(r) + 1, r[2]>>]
            ELSE found[<<r[1], Middle(r) - 1>>] IN
    IF m.sorted THEN found[<<1, n>>]
    ELSE SelectInSeq(m.entries, LAMBDA e : e.tag = tag)

(* Each entry reads back what was written to it last.                      *)
ReadsBack(m, w) ==
    \A i \in DOMAIN m.entries :
        LET size == DataSize(TagType[w[i][1]], w[i][2]) IN
        ReadMetadata(m, i) =
            <<w[i][1], w[i][2], IF size > 0 THEN Payload(w[i][3], size)
                                ELSE IF w[i][2] = 0 THEN <<0>> ELSE <<w[i][3]>>>>

(* The data of an entry overlap those of no other, and no space is lost.   *)
Dense(m) ==
    LET region(i) == m.entries[i].data + 1 .. m.entries[i].data + SizeOf(m.entries[i]) IN
    \A k \in DOMAIN m.data :
        \E i \in DOMAIN m.entries :
           /\ SizeOf(m.entries[i]) > 0 /\ k \in region(i)
           /\ \A j \in DOMAIN m.entries \ {i} :
                 SizeOf(m.entries[j]) > 0 => k \notin region(j)

(* A search, linear or binary, finds every tag that is there.              *)
Findable(m) ==
    \A tag \in MetaTags :
        LET i == FindMetadata(m, tag) IN
        IF i = 0 THEN \A j \in DOMAIN m.entries : m.entries[j].tag # tag
        ELSE m.entries[i].tag = tag

(* After any sequence of calls a packet holds what was written to it and   *)
(* wastes no space.  The validation that every operation asserts fails     *)
(* only after an update to no values at all of an entry that held a value  *)
(* or an offset in its four bytes, which update_camera_metadata_entry()    *)
(* leaves there; then it always fails.                                     *)
PacketsHold ==
    /\ aborted <=> emptied
    /\ ~aborted => \A p \in Packets :
                      ReadsBack(packet[p], written[p]) /\ Dense(packet[p])

(* And whatever is in it can be found, but for a packet that was marked    *)
(* sorted when it was empty, and kept the mark when another was appended   *)
(* to it that was not sorted (where camera_metadata.h has that "appending  *)
(* onto a sorted structure results in a non-sorted combined structure").   *)
MetadataSound ==
    PacketsHold /\ (~aborted => \A p \in Packets \ mismarked : Findable(packet[p]))
=============================================================================
