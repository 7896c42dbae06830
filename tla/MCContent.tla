----------------------------- MODULE MCContent ------------------------------
(***************************************************************************)
(* The fetch of chunks and the encoding of objects, which share no state:  *)
(* every history is about one of them.                                     *)
(*                                                                         *)
(* Fetches: two objects share two chunks.  The chunks of "long" add up to  *)
(* more than it declares; those of "honest" to what it declares.           *)
(*                                                                         *)
(* Objects: the limits make a target of four bytes and a maximum of five,  *)
(* so that an object of six can have settled chunks and a tail on either   *)
(* side of the target.                                                     *)
(***************************************************************************)
EXTENDS ChunkFetch, ContentObject

VARIABLE focus              \* "fetches" or "objects"

mcVars == <<vars, objectVars, focus>>

MCChunk    == {"x", "y", "z"}
MCObject   == {"long", "honest"}
MCChunksOf == [o \in MCObject |-> IF o = "long" THEN MCChunk ELSE {"y", "z"}]
MCBound    == [o \in MCObject |-> 3]
MCSize     == [c \in MCChunk |-> IF c = "z" THEN 1 ELSE 2]
MCBatches  == {{"z"}}

MCInit == Init /\ ObjectInit /\ focus \in {"fetches", "objects"}

MCNext ==
    /\ focus' = focus
    /\ \/ focus = "fetches" /\ Next /\ UNCHANGED objectVars
       \/ focus = "objects" /\ ObjectNext /\ UNCHANGED vars

MCSpec == MCInit /\ [][MCNext]_mcVars /\ Fairness
==============================================================================
