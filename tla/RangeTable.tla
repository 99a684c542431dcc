----------------------------- MODULE RangeTable -----------------------------
(***************************************************************************)
(* The table of adjacent ranges that finds a street name in the characters *)
(* of all names (data_structures/range_table.hpp): blocks of one absolute  *)
(* offset and BLOCK_SIZE lengths of one byte each.  The extractor builds   *)
(* and writes it, the server reads it back and asks it for ranges.         *)
(*                                                                         *)
(* Sequences start at 1, the indices of the code at 0.                     *)
(***************************************************************************)
EXTENDS Integers, Sequences, FiniteSets, FiniteSetsExt, SequencesExt

CONSTANTS BLOCK_SIZE,
          ByteWidth,     \* the number of values of a byte
          LengthLists    \* the lengths of the names to store

ASSUME RangeAssumption ==
    /\ BLOCK_SIZE \in Nat \ {0} /\ ByteWidth \in Nat \ {0}
    /\ \A lengths \in LengthLists : lengths # <<>>
    /\ \A lengths \in LengthLists : \A i \in DOMAIN lengths : lengths[i] \in 0 .. ByteWidth - 1

VARIABLES tableAt,
          lengths,                       \* still to be stored
          stored,                        \* all the lengths
          last_length, lengths_prefix_sum, block_idx, block,
          block_offsets, diff_blocks, sum_lengths,
          name_file                           \* the numbers in the file of names

tableVars == <<tableAt, lengths, stored, last_length, lengths_prefix_sum, block_idx, block,
               block_offsets, diff_blocks, sum_lengths, name_file>>

TableInit ==
    /\ tableAt = "new" /\ lengths = <<>> /\ stored = <<>>
    /\ last_length = 0 /\ lengths_prefix_sum = 0 /\ block_idx = 0
    /\ block = [i \in 1 .. BLOCK_SIZE |-> 0]
    /\ block_offsets = <<>> /\ diff_blocks = <<>> /\ sum_lengths = 0
    /\ name_file = <<>>

Construct ==
    /\ tableAt = "new"
    /\ tableAt' = "lengths"
    /\ \E ls \in LengthLists : lengths' = ls /\ stored' = ls
    /\ UNCHANGED <<last_length, lengths_prefix_sum, block_idx, block, block_offsets, diff_blocks,
                   sum_lengths, name_file>>

\* A mutation of BlockFull: a block is written one length early.
BlockFullEarly(idx) == idx = BLOCK_SIZE - 1

BlockFull(idx) == idx = BLOCK_SIZE

\* One length: the offset of a new block, or the length before in the block.
StoreLength ==
    /\ tableAt = "lengths" /\ lengths # <<>>
    /\ LET filled == IF block_idx = 0 THEN block
                     ELSE [block EXCEPT ![block_idx] = last_length % ByteWidth]
       IN  /\ block' = filled
           /\ block_offsets' = IF block_idx = 0 THEN Append(block_offsets, lengths_prefix_sum)
                               ELSE block_offsets
           /\ diff_blocks' = IF BlockFull(block_idx) THEN Append(diff_blocks, filled) ELSE diff_blocks
    /\ lengths_prefix_sum' = lengths_prefix_sum + Head(lengths)
    /\ last_length' = Head(lengths)
    /\ block_idx' = (block_idx + 1) % (BLOCK_SIZE + 1)
    /\ lengths' = Tail(lengths)
    /\ UNCHANGED <<tableAt, stored, sum_lengths, name_file>>

\* The last block is filled up: with the last length and zeros, or, as a block
\* of its own, with zeros behind the sum of all lengths.
FillUp ==
    /\ tableAt = "lengths" /\ lengths = <<>>
    /\ LET from == IF block_idx = 0 THEN 1 ELSE block_idx
           last == IF block_idx = 0 THEN 0 ELSE last_length % ByteWidth
           filled == [i \in 1 .. BLOCK_SIZE |->
                        IF i < from THEN block[i] ELSE IF i = from THEN last ELSE 0]
       IN  diff_blocks' = Append(diff_blocks, filled)
    /\ block_offsets' = IF block_idx = 0 THEN Append(block_offsets, lengths_prefix_sum)
                        ELSE block_offsets
    /\ sum_lengths' = lengths_prefix_sum
    /\ tableAt' = "built"
    /\ UNCHANGED <<lengths, stored, last_length, lengths_prefix_sum, block_idx, block, name_file>>

\* operator<< and the extractor ends.
WriteTable ==
    /\ tableAt = "built"
    /\ name_file' = <<Len(diff_blocks), sum_lengths>> \o block_offsets \o FlattenSeq(diff_blocks)
    /\ tableAt' = "written"
    /\ block_offsets' = <<>> /\ diff_blocks' = <<>> /\ sum_lengths' = 0
    /\ UNCHANGED <<lengths, stored, last_length, lengths_prefix_sum, block_idx, block>>

\* operator>>: as many offsets as blocks.
ReadTable ==
    /\ tableAt = "written"
    /\ LET number_of_blocks == name_file[1]
           blocksFrom == 2 + number_of_blocks
       IN  /\ block_offsets' = SubSeq(name_file, 3, blocksFrom)
           /\ diff_blocks' = [b \in 1 .. number_of_blocks |->
                 SubSeq(name_file, blocksFrom + (b - 1) * BLOCK_SIZE + 1, blocksFrom + b * BLOCK_SIZE)]
    /\ sum_lengths' = name_file[2]
    /\ tableAt' = "read"
    /\ UNCHANGED <<lengths, stored, last_length, lengths_prefix_sum, block_idx, block, name_file>>

TableStep ==
    \/ Construct
    \/ StoreLength
    \/ FillUp
    \/ WriteTable
    \/ ReadTable

TableSpec == TableInit /\ [][TableStep]_tableVars

PrefixSumAtIndex(index, diffs) == FoldLeft(+, 0, SubSeq(diffs, 1, index + 1))

GetRange(id) ==
    LET internal_idx == id % (BLOCK_SIZE + 1)
        b == id \div (BLOCK_SIZE + 1) + 1
        begin_idx == block_offsets[b] + PrefixSumAtIndex(internal_idx - 1, diff_blocks[b])
    IN  IF internal_idx < BLOCK_SIZE
        THEN <<begin_idx, begin_idx + diff_blocks[b][internal_idx + 1]>>
        ELSE <<begin_idx, block_offsets[b + 1]>>

\* Whatever number of names there is, and wherever empty ones are, the table
\* that was built and the one that was read back find each name's characters
\* (RangeTable).
RangesExact ==
    tableAt \in {"built", "read"} =>
      /\ sum_lengths = FoldLeft(+, 0, stored)
      /\ \A id \in 0 .. Len(stored) - 1 :
           LET begin == FoldLeft(+, 0, SubSeq(stored, 1, id))
           IN  GetRange(id) = <<begin, begin + stored[id + 1]>>
=============================================================================
