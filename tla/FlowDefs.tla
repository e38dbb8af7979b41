------------------------------ MODULE FlowDefs ------------------------------
(***************************************************************************)
(* A flow as documents are turned into it (module Startup) and as RunOnce  *)
(* executes it (module Runner): core.Flow with the slices of processors of *)
(* its five stages.                                                        *)
(***************************************************************************)
EXTENDS Naturals, Sequences

CONSTANTS
  Path,  \* snapshot files
  Nil    \* a nil slice, pointer or interface

Source == 1
Quality == 2
PostSummary == 3
RunSummary == 4
Output == 5
Stages == Source .. Output

(***************************************************************************)
(* A processor as the runner sees it.  "absent" is a nil interface in the  *)
(* flow's slice, "render" the markdown run summary, which needs a summary  *)
(* and only adds a rendering to it, "plain" everything else.               *)
(***************************************************************************)
Kind == {"absent", "plain", "render"}
Processor == [kind : Kind, mode : {"none"}, path : {Nil}]
       \cup [kind : Kind, mode : {"snapshot", "restore"}, path : Path]
FlowDef == [Stages -> Seq(Processor)]
=============================================================================
