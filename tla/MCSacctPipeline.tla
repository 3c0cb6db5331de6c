--------------------------- MODULE MCSacctPipeline ---------------------------
(***************************************************************************)
(* Chunks 0..2, 3..5 and 6..8.  `edge` ended in the last second of the first  *)
(* chunk and has two line breaks; `late` ended in the first second of the     *)
(* second and is reported in the first; `odd` has a delimiter in a field;     *)
(* `loud` a delimiter and a line break; `tardy` ended in the second chunk and  *)
(* is reported when the third is asked for.                                 *)
(***************************************************************************)
EXTENDS SacctPipeline, TLC

CONSTANTS edge, late, odd, tardy, loud

MCJob      == {edge, late, odd, tardy, loud}
MCEnd      == edge :> 2 @@ late :> 3 @@ odd :> 4 @@ tardy :> 5 @@ loud :> 8
MCSelected == edge :> 1 @@ late :> 1 @@ odd :> 4 @@ tardy :> 6 @@ loud :> 7
MCDelims   == edge :> <<1, 1, 3>> @@ late :> <<2, 3>> @@ odd :> <<4>>
              @@ tardy :> <<3>> @@ loud :> <<2, 4>>
=============================================================================
