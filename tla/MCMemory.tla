------------------------------ MODULE MCMemory ------------------------------
(* A memory of six one-bit bytes in a space of sixteen addresses.          *)
EXTENDS MemoryDump

Entry(a, v) == [address |-> a, value |-> v]
MCImages ==
  {NoFile, << >>, <<Entry(2, 13)>>, <<Entry(2, 13), Entry(1, 6)>>,
   <<Entry(0, 11)>>, <<Entry(2, 13), Entry(4, 15)>>}
MCPrograms == {NoFile, <<-1, 0>>, <<0, -1, -1, 0, -1, 0, -1, -1>>}
MCAccesses == {0, 1, 3, 5, 14}
MCStored == {0, 11}

(* All, inside and to a byte short of a row, backwards, across the end.    *)
MCRanges == {<<0, 6>>, <<1, 6>>, <<0, 5>>, <<4, 2>>, <<3, 15>>}
=============================================================================
