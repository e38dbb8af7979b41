------------------------------ MODULE MCPostLLM -----------------------------
(* Instances of PostLLM for TLC. *)
EXTENDS PostLLM

CONSTANTS u1, u2

Urls == {u1, u2}

rate(images, max, retries, threshold) ==
  [kind |-> "quality", images |-> images, maxImages |-> max, retries |-> retries,
   threshold |-> threshold]
sum(images, max, chunks) ==
  [kind |-> "summary", images |-> images, maxImages |-> max,
   chunkTemplates |-> chunks]

(* No images, one, a repeated one, one sent as data between two others. *)
Pictures == {<<>>, <<u1>>, <<u1, u1>>, <<u1, NoUrl, u2>>}

(* Retries at their default, switched off and at 1; a limit on images; two *)
(* processors that want captions; two that judge; summaries of chunks.     *)
Flows ==
  {<<rate("off", 0, 0, 1), sum("off", 0, FALSE)>>,
   <<rate("multimodal", 2, 1, 1), sum("multimodal", 0, TRUE)>>,
   <<rate("caption", 1, -1, 0), sum("caption", 0, TRUE)>>,
   <<rate("off", 0, 1, 2), rate("multimodal", 0, -1, 1)>>,
   <<sum("caption", 0, TRUE), sum("off", 0, TRUE)>>}

Posts ==
  [steps : Flows, images : Pictures, chunks : {0, 1, 3},
   plan : {"full", "per_chunk", "map_reduce"}]
=============================================================================
