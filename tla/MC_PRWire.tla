------------------------------ MODULE MC_PRWire ------------------------------
(***************************************************************************)
(* Bounds for PRWire.  Each set holds a value on each side of a varint     *)
(* length boundary (63/64) so that one- and two-byte encodings both occur; *)
(* 300 is a ptda_c that does not fit in one byte; the data length 66 and   *)
(* budgets near 70 reach the branch of MaxDataLen where the length field   *)
(* itself takes two bytes, and the budgets 3..10 fall between the header   *)
(* and the encoded length of the short frames, where splits happen.        *)
(***************************************************************************)
EXTENDS PRWire

MC_StreamIDs == {1, 64}
MC_Offsets   == {0, 5, 64}
MC_PtdaCs    == {0, 63, 64, 300}
MC_PTDAs     == {128, 64}
MC_DataLens  == {0, 3, 66}
MC_Budgets   == (3..10) \cup {70, 72}
MC_DataByte  == 170
====
