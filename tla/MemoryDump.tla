---------------------------- MODULE MemoryDump -----------------------------
(***************************************************************************)
(* The dump that ends a simulation: MemoryStore::printMemArray prints a    *)
(* range of the memory entry by entry, some entries to a row, each row     *)
(* with the address of its first byte.  (It prints nothing in sizes other  *)
(* than those of reads and writes.)                                        *)
(***************************************************************************)
EXTENDS MemoryStore

CONSTANTS Ranges,          \* first and last address that may be asked for
          EntriesPerRow    \* 5

ASSUME DumpAssumption ==
  Ranges \subseteq Values \X Values /\ EntriesPerRow \in Nat \ {0}

VARIABLES asked,           \* the arguments of printMemArray
          relStart,        \* where the next entry is in memArr
          curAddr,         \* the address in front of the row
          column,          \* the entries that the row already has
          printed,         \* all entries, each with its row and column
          returned

dumpVars == <<asked, relStart, curAddr, column, printed, returned>>

NotAsked == [size |-> 0]

DumpInit ==
  /\ Init
  /\ asked = NotAsked
  /\ relStart = 0 /\ curAddr = 0 /\ column = 0
  /\ printed = <<>>
  /\ returned = FALSE
-----------------------------------------------------------------------------
Plus(n, bytes) == (n + bytes) % WordSpace

(* The bytes of an entry, up to the first at which memArr.at throws.       *)
Shown(rel, size) ==
  CHOOSE n \in 0 .. size :
    /\ \A j \in 0 .. n - 1 : Plus(rel, j) \in Cells
    /\ n = size \/ Plus(rel, n) \notin Cells
EntryAt(rel, size) == [k \in 1 .. Shown(rel, size) |-> memory[Plus(rel, k - 1)]]

(* Mutant: there is another entry at the end of the range.                 *)
HasOneMore(rel, range) == rel <= Cell(range.end, 0)

(* Whether an entry at rel is in the range.                                *)
HasMore(rel, range) == rel < Cell(range.end, 0)

printMemArray(start, end, size) ==
  /\ Finish
  /\ asked' = [start |-> start, end |-> end, size |-> size]
  /\ relStart' = Cell(start, 0)
  /\ curAddr' = start
  /\ UNCHANGED <<column, printed, returned>>

Printing == asked # NotAsked /\ ~returned /\ UNCHANGED <<vars, asked>>

(* The exception ends the dump in the middle of the entry; where the loops *)
(* have come to does not matter any more.                                  *)
PrintEntry ==
  /\ Printing
  /\ column < EntriesPerRow /\ HasMore(relStart, asked)
  /\ LET bytes == EntryAt(relStart, asked.size)
     IN  /\ printed' = Append(printed, [row |-> curAddr, column |-> column,
                                        bytes |-> bytes])
         /\ returned' = (Len(bytes) < asked.size)
  /\ relStart' = Plus(relStart, asked.size)
  /\ column' = column + 1
  /\ UNCHANGED curAddr

NextRow ==
  /\ Printing
  /\ column = EntriesPerRow
  /\ column' = 0
  /\ curAddr' = Plus(curAddr, asked.size * EntriesPerRow)
  /\ UNCHANGED <<relStart, printed, returned>>

Return ==
  /\ Printing
  /\ column < EntriesPerRow /\ ~HasMore(relStart, asked)
  /\ returned' = TRUE
  /\ UNCHANGED <<relStart, curAddr, column, printed>>

DumpNext ==
  \/ Running /\ UNCHANGED dumpVars
  \/ \E range \in Ranges, size \in Sizes : printMemArray(range[1], range[2], size)
  \/ PrintEntry \/ NextRow \/ Return

DumpSpec == DumpInit /\ [][DumpNext]_<<vars, dumpVars>>
-----------------------------------------------------------------------------
(* The dump is the memory: its entries follow each other without gap from  *)
(* the start of the range to its end, also when counted from the addresses *)
(* in front of the rows; each shows, byte by byte, what a read at its      *)
(* address returns; and it stops early only in an entry in which memArr    *)
(* ends, which is cut there (MemoryStore.cpp:127-171).                     *)
DumpShowsMemory ==
  returned =>
    LET size   == asked.size
        wanted == Cell(asked.end, 0) - Cell(asked.start, 0)
        count  == Len(printed)
    IN  /\ count = 0 \/ size * (count - 1) < wanted
        /\ \/ size * count >= wanted
           \/ count > 0 /\ Len(printed[count].bytes) < size
        /\ \A k \in 1 .. count :
             LET entry   == printed[k]
                 address == Plus(asked.start, size * (k - 1))
             IN  /\ entry.column = (k - 1) % EntriesPerRow
                 /\ Plus(entry.row, size * entry.column) = address
                 /\ {i - 1 : i \in DOMAIN entry.bytes} = Reached(address, size)
                 /\ \A i \in DOMAIN entry.bytes :
                      entry.bytes[i] = GetValue(memory, Plus(address, i - 1), BYTE_SIZE)
=============================================================================
